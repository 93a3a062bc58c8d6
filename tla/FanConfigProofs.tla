-------------------------- MODULE FanConfigProofs ---------------------------
(* A fan's entry and what is made of it, for every text, measurement and      *)
(* number a width allows: a curve that rises is made into demands that rise,  *)
(* what a save writes is read back as the same fan, and no save loses a point *)
(* that was read.                                                             *)
EXTENDS FanConfig, FiniteSetTheorems, WellFoundedInduction, NaturalsInduction, TLAPS

-----------------------------------------------------------------------------
(* Numbers and sets of them                                                   *)

LEMMA MinIs ==
  ASSUME NEW S, S # {}, S \subseteq Nat
  PROVE  Min(S) \in S /\ \A n \in S : Min(S) <= n
<1>1. PICK m \in S : \A n \in S : ~(<<n, m>> \in OpToRel(<, Nat))
  BY WFMin, NatLessThanWellFounded, Zenon
<1>2. \A n \in S : ~(n < m) BY <1>1, Zenon DEF OpToRel
<1>3. \A n \in S : m <= n BY <1>2
<1>. QED BY <1>3 DEF Min

LEMMA MaxIs ==
  ASSUME NEW S, S # {}, NEW b \in Nat, S \subseteq 0 .. b
  PROVE  Max(S) \in S /\ \A n \in S : n <= Max(S)
<1>. DEFINE T == {b - n : n \in S}
<1>1. T # {} /\ T \subseteq Nat
  <2>1. \A n \in S : b - n \in Nat OBVIOUS
  <2>. QED BY <2>1
<1>2. Min(T) \in T /\ \A n \in T : Min(T) <= n BY <1>1, MinIs
<1>3. PICK k \in S : Min(T) = b - k BY <1>2
<1>4. \A n \in S : b - k <= b - n BY <1>2, <1>3
<1>5. \A n \in S : n <= k BY <1>4
<1>. QED BY <1>5 DEF Max

LEMMA FewerIs ==
  ASSUME NEW S, IsFiniteSet(S), NEW T \in SUBSET S
  PROVE  /\ IsFiniteSet(T) /\ Cardinality(T) \in Nat /\ Cardinality(T) <= Cardinality(S)
         /\ \A x \in S : x \notin T => Cardinality(T) < Cardinality(S)
<1>1. /\ IsFiniteSet(T) /\ Cardinality(T) <= Cardinality(S)
      /\ Cardinality(S) = Cardinality(T) => S = T
  BY FS_Subset
<1>2. Cardinality(T) \in Nat /\ Cardinality(S) \in Nat BY <1>1, FS_CardinalityType
<1>. QED BY <1>1, <1>2

\* The place of x among the elements of S
Rank(S, x) == Cardinality({y \in S : y <= x})

LEMMA RanksDiffer ==
  ASSUME NEW S, IsFiniteSet(S), S \subseteq Int
  PROVE  /\ \A x \in S : Rank(S, x) \in 1 .. Cardinality(S)
         /\ \A x, y \in S : x < y => Rank(S, x) < Rank(S, y)
         /\ \A x, y \in S : Rank(S, x) = Rank(S, y) => x = y
<1>1. ASSUME NEW x \in S PROVE Rank(S, x) \in 1 .. Cardinality(S)
  <2>. DEFINE B == {y \in S : y <= x}
  <2>1. B \in SUBSET S /\ x \in B OBVIOUS
  <2>2. IsFiniteSet(B) /\ Cardinality(B) \in Nat /\ Cardinality(B) <= Cardinality(S)
    BY <2>1, FewerIs
  <2>3. Cardinality(B) # 0 BY <2>1, <2>2, FS_EmptySet
  <2>4. Cardinality(S) \in Nat BY FS_CardinalityType
  <2>. QED BY <2>2, <2>3, <2>4 DEF Rank
<1>2. ASSUME NEW x \in S, NEW y \in S, x < y PROVE Rank(S, x) < Rank(S, y)
  <2>. DEFINE U == {z \in S : z <= x}
              T == {z \in S : z <= y}
  <2>1. \A z \in S : z \in Int OBVIOUS
  <2>2. \A z \in S : z <= x => z <= y BY <1>2, <2>1
  <2>3. U \in SUBSET T /\ T \in SUBSET S BY <2>2
  <2>4. y \in T /\ y \notin U BY <1>2, <2>1
  <2>5. IsFiniteSet(T) BY <2>3, FewerIs
  <2>. QED BY <2>3, <2>4, <2>5, FewerIs DEF Rank
<1>3. \A x, y \in S : x # y => x < y \/ y < x OBVIOUS
<1>4. \A x, y \in S : Rank(S, x) = Rank(S, y) => x = y
  <2>1. \A x \in S : Rank(S, x) \in Int BY <1>1
  <2>. QED BY <1>2, <1>3, <2>1
<1>. QED BY <1>1, <1>2, <1>4

LEMMA RankedExists ==
  ASSUME NEW S, IsFiniteSet(S), S \subseteq Int, NEW k \in 1 .. Cardinality(S)
  PROVE  \E x \in S : Rank(S, x) = k
<1>. DEFINE n == Cardinality(S)
            rank == [x \in S |-> Rank(S, x)]
<1>1. n \in Nat BY FS_CardinalityType
<1>2. rank \in Injection(S, 1 .. n) BY RanksDiffer DEF Injection, IsInjective
<1>3. IsFiniteSet(1 .. n) /\ Cardinality(1 .. n) = n BY <1>1, FS_Interval
<1>4. rank \in Surjection(S, 1 .. n) BY <1>2, <1>3, FS_Injection
<1>. QED BY <1>4 DEF Surjection

\* map_str: each key once, and they rise.
LEMMA AscendingIs ==
  ASSUME NEW f, IsFiniteSet(DOMAIN f), DOMAIN f \subseteq Int
  PROVE  LET n == Cardinality(DOMAIN f) IN
         /\ n \in Nat /\ Ascending(f) \in [1 .. n -> DOMAIN f]
         /\ \A j, k \in 1 .. n : Ascending(f)[j] = Ascending(f)[k] => j = k
         /\ \A x \in DOMAIN f : \E k \in 1 .. n : Ascending(f)[k] = x
<1>. DEFINE n == Cardinality(DOMAIN f)
<1>1. n \in Nat BY FS_CardinalityType
<1>2. ASSUME NEW k \in 1 .. n
      PROVE  Ascending(f)[k] \in DOMAIN f /\ Rank(DOMAIN f, Ascending(f)[k]) = k
  <2>1. \E x \in DOMAIN f : Cardinality({y \in DOMAIN f : y <= x}) = k BY RankedExists DEF Rank
  <2>2. Ascending(f)[k] = CHOOSE x \in DOMAIN f : Cardinality({y \in DOMAIN f : y <= x}) = k
    BY DEF Ascending
  <2>. QED BY <2>1, <2>2 DEF Rank
<1>3. Ascending(f) \in [1 .. n -> DOMAIN f]
  <2>1. Ascending(f) = [k \in 1 .. n |-> Ascending(f)[k]] BY DEF Ascending
  <2>. QED BY <1>2, <2>1
<1>4. ASSUME NEW x \in DOMAIN f PROVE \E k \in 1 .. n : Ascending(f)[k] = x
  <2>1. Rank(DOMAIN f, x) \in 1 .. n BY RanksDiffer
  <2>. QED BY <1>2, <2>1, RanksDiffer
<1>. QED BY <1>1, <1>2, <1>3, <1>4

LEMMA LessOf ==
  ASSUME NEW a \in Nat, NEW b \in Nat
  PROVE  Min({a, b}) = IF a <= b THEN a ELSE b
<1>1. Min({a, b}) \in {a, b} /\ \A n \in {a, b} : Min({a, b}) <= n BY MinIs
<1>. QED BY <1>1

\* clamp_pwm: a PWM is one of the range, and a greater one is not a smaller.
LEMMA ClampedIs ==
  ASSUME NEW p \in Nat
  PROVE  /\ Clamped(p) \in 0 .. PwmMax /\ (p <= PwmMax => Clamped(p) = p)
         /\ \A q \in Nat : p <= q => Clamped(p) <= Clamped(q)
<1>1. \A q \in Nat : Clamped(q) = IF q <= PwmMax THEN q ELSE PwmMax
  BY FanConfigAssumption, LessOf DEF Clamped
<1>. QED BY <1>1, FanConfigAssumption

-----------------------------------------------------------------------------
(* percent_to_rpm, pwm_to_rpm                                                 *)

LEMMA MappingSize ==
  ASSUME NEW m, IsMapping(m)
  PROVE  IsFiniteSet(DOMAIN m) /\ Cardinality(DOMAIN m) \in 0 .. IntMax /\ DOMAIN m \subseteq Nat
<1>1. IsFiniteSet(0 .. IntMax) BY FanConfigAssumption, FS_Interval
<1>2. IsFiniteSet(DOMAIN m) BY <1>1, FewerIs DEF IsMapping
<1>3. Cardinality(DOMAIN m) \in Nat BY <1>2, FS_CardinalityType
<1>. QED BY <1>2, <1>3, FanConfigAssumption DEF IsMapping

\* The lowest running speed and the top speed are entries, in this order.
LEMMA RunningIs ==
  ASSUME NEW m, IsMapping(m), DOMAIN m # {}
  PROVE  /\ Top(m) \in DOMAIN m /\ LowestRunning(m) \in DOMAIN m
         /\ LowestRunning(m) <= Top(m) /\ \A r \in DOMAIN m : r <= Top(m)
<1>1. Top(m) \in DOMAIN m /\ \A r \in DOMAIN m : r <= Top(m)
  BY FanConfigAssumption, MaxIs DEF IsMapping, Top
<1>. DEFINE rpms == DOMAIN m \ (IF Cardinality(DOMAIN m) > 1 THEN {0} ELSE {})
<1>2. rpms # {}
  <2>1. CASE Cardinality(DOMAIN m) > 1
    <3>0. Cardinality({0}) = 1 BY FS_Singleton
    <3>1. DOMAIN m # {0} BY <2>1, <3>0
    <3>2. PICK r \in DOMAIN m : r # 0 BY <3>1
    <3>. QED BY <3>2
  <2>. QED BY <2>1
<1>3. rpms \subseteq Nat /\ rpms \subseteq DOMAIN m BY MappingSize
<1>4. LowestRunning(m) \in rpms BY <1>2, <1>3, MinIs DEF LowestRunning
<1>. QED BY <1>1, <1>3, <1>4

LEMMA PercentRises ==
  ASSUME NEW m, IsMapping(m), DOMAIN m # {}, NEW p \in Nat
  PROVE  /\ percent_to_rpm(m, p) \in 0 .. IntMax
         /\ \A q \in Nat : p <= q => percent_to_rpm(m, p) <= percent_to_rpm(m, q)
<1>. DEFINE low == LowestRunning(m)
            top == Top(m)
<1>1. low \in 0 .. IntMax /\ top \in 0 .. IntMax /\ low <= top BY RunningIs DEF IsMapping
<1>2. \A q \in Nat : percent_to_rpm(m, q) = IF q = 0 THEN 0 ELSE IF q < 100 THEN low ELSE top
  <2>. TAKE q \in Nat
  <2>. DEFINE c == IF q <= 100 THEN q ELSE 100
  <2>1. Min({q, 100}) = c BY LessOf
  <2>2. percent_to_rpm(m, q) = IF c = 0 THEN 0 ELSE IF c = 1 THEN low
                               ELSE (c \div 100) * (top - low) + low
    BY <2>1 DEF percent_to_rpm
  <2>. HIDE DEF low, top
  <2>3. CASE q < 100
    <3>1. c = q /\ q \div 100 = 0 BY <2>3
    <3>2. 0 * (top - low) + low = low BY <1>1
    <3>. QED BY <2>2, <2>3, <3>1, <3>2
  <2>4. CASE q >= 100
    <3>1. c = 100 /\ 100 \div 100 = 1 BY <2>4
    <3>2. 1 * (top - low) + low = top BY <1>1
    <3>. QED BY <2>2, <2>4, <3>1, <3>2
  <2>. QED BY <2>3, <2>4
<1>. QED BY <1>1, <1>2, FanConfigAssumption

\* The first entry that reaches the PWM q, and the one before it
Reach(m, q) == {r \in DOMAIN m : m[r] >= q}
It(m, q) == Min(Reach(m, q))
Last(m, q) == Max({r \in DOMAIN m : r < It(m, q)})
Nearer(m, q) ==
  Last(m, q) = Min(DOMAIN m) \/ m[It(m, q)] - q < q - m[Last(m, q)]

LEMMA ItIs ==
  ASSUME NEW m, IsMapping(m), NEW q \in Nat, Reach(m, q) # {}
  PROVE  /\ It(m, q) \in DOMAIN m /\ m[It(m, q)] >= q
         /\ \A r \in DOMAIN m : m[r] >= q => It(m, q) <= r
<1>1. Reach(m, q) \subseteq Nat BY MappingSize DEF Reach
<1>. QED BY <1>1, MinIs DEF It, Reach

LEMMA LastIs ==
  ASSUME NEW m, IsMapping(m), NEW q \in Nat, Reach(m, q) # {}, It(m, q) # Min(DOMAIN m)
  PROVE  /\ Last(m, q) \in DOMAIN m /\ Last(m, q) < It(m, q)
         /\ \A r \in DOMAIN m : r < It(m, q) => r <= Last(m, q)
<1>. DEFINE before == {r \in DOMAIN m : r < It(m, q)}
<1>1. Min(DOMAIN m) \in DOMAIN m /\ Min(DOMAIN m) <= It(m, q) BY ItIs, MappingSize, MinIs
<1>2. Min(DOMAIN m) \in Nat /\ It(m, q) \in Nat BY <1>1, ItIs, MappingSize
<1>3. Min(DOMAIN m) \in before BY <1>1, <1>2
<1>4. before # {} /\ before \subseteq 0 .. IntMax BY <1>3 DEF IsMapping
<1>5. Max(before) \in before /\ \A r \in before : r <= Max(before)
  BY <1>4, MaxIs, FanConfigAssumption
<1>. QED BY <1>5 DEF Last

LEMMA PwmCases ==
  ASSUME NEW m, IsMapping(m), DOMAIN m # {}, NEW p \in Nat, NEW a \in pwm_to_rpm(m, p)
  PROVE  LET q == Clamped(p)
             it == It(m, q)
         IN \/ Reach(m, q) = {} /\ a = Top(m)
            \/ Reach(m, q) # {} /\ m[it] = q /\ a = it
            \/ Reach(m, q) # {} /\ m[it] # q /\ it = Min(DOMAIN m)
               /\ a \in {it, Cardinality(DOMAIN m)}
            \/ Reach(m, q) # {} /\ m[it] # q /\ it # Min(DOMAIN m) /\ Nearer(m, q) /\ a = it
            \/ Reach(m, q) # {} /\ m[it] # q /\ it # Min(DOMAIN m) /\ ~Nearer(m, q)
               /\ a = Last(m, q)
<1>. DEFINE q == Clamped(p)
            it == It(m, q)
<1>1. pwm_to_rpm(m, p) =
        IF Reach(m, q) = {} THEN {Top(m)}
        ELSE IF m[it] = q THEN {it}
        ELSE IF it = Min(DOMAIN m) THEN {it, Cardinality(DOMAIN m)}
        ELSE IF Nearer(m, q) THEN {it} ELSE {Last(m, q)}
  BY DEF pwm_to_rpm, Reach, It, Last, Nearer
<1>2. CASE Reach(m, q) = {} BY <1>1, <1>2
<1>3. CASE Reach(m, q) # {} /\ m[it] = q BY <1>1, <1>3
<1>4. CASE Reach(m, q) # {} /\ m[it] # q /\ it = Min(DOMAIN m) BY <1>1, <1>4
<1>5. CASE Reach(m, q) # {} /\ m[it] # q /\ it # Min(DOMAIN m) BY <1>1, <1>5
<1>. QED BY <1>2, <1>3, <1>4, <1>5

\* A speed it returns is an entry, or the number of entries.
LEMMA PwmIs ==
  ASSUME NEW m, IsMapping(m), DOMAIN m # {}, NEW p \in Nat
  PROVE  pwm_to_rpm(m, p) \subseteq 0 .. IntMax
<1>. SUFFICES ASSUME NEW a \in pwm_to_rpm(m, p) PROVE a \in 0 .. IntMax OBVIOUS
<1>. DEFINE q == Clamped(p)
<1>1. q \in Nat BY ClampedIs
<1>2. a \in DOMAIN m \/ a = Cardinality(DOMAIN m) BY <1>1, PwmCases, RunningIs, ItIs, LastIs
<1>. QED BY <1>2, MappingSize DEF IsMapping

\* Above the first PWM of a mapping that rises, a greater PWM is not a lower speed.
LEMMA PwmRises ==
  ASSUME NEW m, IsMapping(m), DOMAIN m # {}, Rises(m),
         NEW p1 \in Nat, NEW p2 \in Nat, Min(Range(m)) <= p1, p1 <= p2,
         NEW a \in pwm_to_rpm(m, p1), NEW b \in pwm_to_rpm(m, p2)
  PROVE  a <= b
<1>. DEFINE q1 == Clamped(p1)
            q2 == Clamped(p2)
            first == Min(DOMAIN m)
<1>1. q1 \in 0 .. PwmMax /\ q2 \in 0 .. PwmMax /\ q1 <= q2 BY ClampedIs
<1>2. DOMAIN m \subseteq Nat /\ \A r \in DOMAIN m : m[r] \in 0 .. PwmMax
  BY MappingSize DEF IsMapping
<1>3. first \in DOMAIN m /\ \A r \in DOMAIN m : first <= r BY <1>2, MinIs
<1>4. m[first] <= q1
  <2>1. Range(m) # {} /\ Range(m) \subseteq Nat BY <1>2, <1>3 DEF Range
  <2>2. PICK r \in DOMAIN m : m[r] = Min(Range(m)) BY <2>1, MinIs DEF Range
  <2>3. m[first] <= m[r] /\ m[r] <= PwmMax BY <1>2, <1>3, <2>2 DEF Rises
  <2>4. m[r] <= q1
    <3>1. m[r] \in Nat /\ m[r] <= p1 BY <1>2, <2>2
    <3>2. Clamped(m[r]) <= Clamped(p1) /\ Clamped(m[r]) = m[r] BY <2>3, <3>1, ClampedIs
    <3>. QED BY <3>2
  <2>. QED BY <1>1, <1>2, <1>3, <2>2, <2>3, <2>4
<1>. HIDE DEF q1, q2, first
<1>5. \A r \in DOMAIN m : r <= Top(m) BY RunningIs
\* Where the first entry reaches q, its PWM is q.
<1>6. ASSUME NEW q \in Nat, q1 <= q, Reach(m, q) # {}, It(m, q) = first PROVE m[It(m, q)] = q
  BY <1>1, <1>2, <1>3, <1>4, <1>6, ItIs
<1>7. ASSUME NEW p \in Nat, NEW c \in pwm_to_rpm(m, p), q1 <= Clamped(p)
      PROVE  LET q == Clamped(p) IN
             \/ Reach(m, q) = {} /\ c = Top(m)
             \/ /\ Reach(m, q) # {} /\ c = It(m, q)
                /\ m[It(m, q)] = q \/ (It(m, q) # first /\ Nearer(m, q))
             \/ /\ Reach(m, q) # {} /\ c = Last(m, q)
                /\ m[It(m, q)] # q /\ It(m, q) # first /\ ~Nearer(m, q)
  <2>1. Clamped(p) \in Nat BY ClampedIs
  <2>. QED BY <1>6, <1>7, <2>1, PwmCases DEF first
<1>8. CASE Reach(m, q2) = {}
  <2>1. b = Top(m) BY <1>1, <1>7, <1>8 DEF q2
  <2>2. a \in DOMAIN m BY <1>1, <1>7, ItIs, LastIs, RunningIs DEF q1, first
  <2>. QED BY <1>5, <2>1, <2>2
<1>9. CASE Reach(m, q2) # {}
  <2>. DEFINE i1 == It(m, q1)
              i2 == It(m, q2)
  <2>1. Reach(m, q2) \subseteq Reach(m, q1) BY <1>1, <1>2 DEF Reach
  <2>2. /\ i1 \in DOMAIN m /\ m[i1] >= q1 /\ \A r \in DOMAIN m : m[r] >= q1 => i1 <= r
        /\ i2 \in DOMAIN m /\ m[i2] >= q2 /\ \A r \in DOMAIN m : m[r] >= q2 => i2 <= r
    BY <1>1, <1>9, <2>1, ItIs
  <2>3. i1 <= i2 BY <1>1, <1>2, <2>2
  <2>4. \/ a = i1 /\ (m[i1] = q1 \/ (i1 # first /\ Nearer(m, q1)))
        \/ /\ a = Last(m, q1) /\ m[i1] # q1 /\ i1 # first /\ ~Nearer(m, q1)
    BY <1>1, <1>7, <1>9, <2>1 DEF q1
  <2>5. \/ b = i2 /\ (m[i2] = q2 \/ (i2 # first /\ Nearer(m, q2)))
        \/ /\ b = Last(m, q2) /\ m[i2] # q2 /\ i2 # first /\ ~Nearer(m, q2)
    BY <1>1, <1>7, <1>9 DEF q2
  <2>6. /\ i1 # first => /\ Last(m, q1) \in DOMAIN m /\ Last(m, q1) < i1
                         /\ \A r \in DOMAIN m : r < i1 => r <= Last(m, q1)
        /\ i2 # first => /\ Last(m, q2) \in DOMAIN m /\ Last(m, q2) < i2
                         /\ \A r \in DOMAIN m : r < i2 => r <= Last(m, q2)
    BY <1>1, <1>9, <2>1, LastIs DEF first
  <2>7. i1 = i2 => Last(m, q1) = Last(m, q2) BY DEF Last
  <2>8. /\ Nearer(m, q1) <=> Last(m, q1) = first \/ m[i1] - q1 < q1 - m[Last(m, q1)]
        /\ Nearer(m, q2) <=> Last(m, q2) = first \/ m[i2] - q2 < q2 - m[Last(m, q2)]
    BY DEF Nearer, first
  <2>. HIDE DEF i1, i2
  <2>9. a \in Nat /\ b \in Nat /\ i1 \in Nat /\ i2 \in Nat /\ a <= i1
    BY <1>2, <2>2, <2>4, <2>5, <2>6
  <2>10. CASE i1 < i2 BY <1>2, <2>2, <2>5, <2>6, <2>9, <2>10
  <2>11. CASE i1 = i2
    <3>. SUFFICES ASSUME a = i1, b = Last(m, q2), i2 # first, m[i2] # q2, ~Nearer(m, q2)
                  PROVE  FALSE
      BY <2>4, <2>5, <2>6, <2>7, <2>9, <2>11
    <3>1. m[i1] \in Nat /\ m[Last(m, q2)] \in Nat /\ m[i1] >= q2 BY <1>2, <2>2, <2>6, <2>11
    <3>2. m[i1] # q1 BY <1>1, <2>11, <3>1
    <3>3. Last(m, q2) # first /\ ~(m[i1] - q2 < q2 - m[Last(m, q2)]) BY <2>8, <2>11
    <3>4. Nearer(m, q1)
      <4>1. a = Last(m, q1) => i1 # first /\ Last(m, q1) < i1 BY <2>4, <2>6, <2>7, <2>11
      <4>. QED BY <2>4, <2>6, <2>7, <2>9, <2>11, <3>2
    <3>. QED BY <1>1, <2>7, <2>8, <2>11, <3>1, <3>3, <3>4
  <2>. QED BY <2>3, <2>9, <2>10, <2>11
<1>. QED BY <1>8, <1>9

-----------------------------------------------------------------------------
(* Texts                                                                      *)

LEMMA DivRises ==
  ASSUME NEW a \in Int, NEW b \in Int, NEW d \in Nat \ {0}, a <= b
  PROVE  a \div d \in Int /\ a \div d <= b \div d
OBVIOUS

LEMMA CelsiusRises ==
  ASSUME NEW i \in Items, NEW j \in Items, i.fahrenheit = j.fahrenheit,
         0 <= i.temp, i.temp <= j.temp
  PROVE  Celsius(i) <= Celsius(j)
<1>. DEFINE a == 5 * (i.temp - 32)
            b == 5 * (j.temp - 32)
<1>1. i.temp \in Int /\ j.temp \in Int /\ Digits(i.temp) = i.temp /\ Digits(j.temp) = j.temp
  BY DEF Items, Digits
<1>2. a \in Int /\ b \in Int /\ a <= b BY <1>1
<1>3. CASE ~i.fahrenheit BY <1>1, <1>3 DEF Celsius
<1>4. CASE i.fahrenheit
  <2>1. Celsius(i) = Truncated(a, 9) /\ Celsius(j) = Truncated(b, 9) BY <1>1, <1>4 DEF Celsius
  <2>. HIDE DEF a, b
  <2>2. CASE a >= 0 BY <1>2, <2>1, <2>2, DivRises DEF Truncated
  <2>3. CASE b < 0
    <3>1. (-b) \div 9 <= (-a) \div 9 /\ (-b) \div 9 \in Int /\ (-a) \div 9 \in Int
      BY <1>2, DivRises
    <3>. QED BY <1>2, <2>1, <2>3, <3>1 DEF Truncated
  <2>4. CASE a < 0 /\ b >= 0
    <3>1. 0 \div 9 = 0 OBVIOUS
    <3>2. 0 <= b \div 9 /\ b \div 9 \in Int BY <1>2, <2>4, <3>1, DivRises
    <3>3. 0 <= (-a) \div 9 /\ (-a) \div 9 \in Int BY <1>2, <2>4, <3>1, DivRises
    <3>. QED BY <1>2, <2>1, <2>4, <3>2, <3>3 DEF Truncated
  <2>. QED BY <1>2, <2>2, <2>3, <2>4
<1>. QED BY <1>3, <1>4 DEF Items

LEMMA CelsiusIs ==
  ASSUME NEW i \in Items
  PROVE  /\ Celsius(i) \in Int /\ Celsius(i) <= Digits(i.temp)
         /\ i.temp >= 0 => Digits(i.temp) = i.temp
         /\ i.temp >= 0 /\ ~i.fahrenheit => Celsius(i) = i.temp
<1>. DEFINE a == 5 * (Digits(i.temp) - 32)
<1>1. i.temp \in Int /\ Digits(i.temp) \in Nat /\ (i.temp >= 0 => Digits(i.temp) = i.temp)
  BY DEF Items, Digits
<1>2. a \in Int /\ a <= 9 * Digits(i.temp) BY <1>1
<1>3. Celsius(i) = IF i.fahrenheit THEN Truncated(a, 9) ELSE Digits(i.temp) BY DEF Celsius
<1>. HIDE DEF a
<1>4. Truncated(a, 9) \in Int /\ Truncated(a, 9) <= Digits(i.temp)
  <2>1. CASE a >= 0
    <3>1. a \div 9 \in Int /\ 9 * (a \div 9) <= a BY <1>2
    <3>. QED BY <1>1, <1>2, <2>1, <3>1 DEF Truncated
  <2>2. CASE a < 0
    <3>1. (-a) \div 9 \in Nat BY <1>2, <2>2
    <3>. QED BY <1>1, <1>2, <2>2, <3>1 DEF Truncated
  <2>. QED BY <1>2, <2>1, <2>2
<1>. QED BY <1>1, <1>2, <1>3, <1>4

\* The places of a text that are read for a temperature, and the temperatures
LEMMA LastForIs ==
  ASSUME NEW text \in Seq(Items), NEW t \in Temps(text)
  PROVE  \E k \in Readable(text) :
           /\ Celsius(text[k]) = t /\ LastFor(text, t) = text[k]
           /\ \A j \in Readable(text) : Celsius(text[j]) = t => j <= k
<1>. DEFINE S == {k \in Readable(text) : Celsius(text[k]) = t}
<1>1. S # {} BY DEF Temps
<1>2. S \subseteq 0 .. Len(text) /\ Len(text) \in Nat BY DEF Readable
<1>3. Max(S) \in S /\ \A n \in S : n <= Max(S) BY <1>1, <1>2, MaxIs
<1>4. LastFor(text, t) = text[Max(S)] BY DEF LastFor
<1>. QED BY <1>3, <1>4

LEMMA TempsAre ==
  ASSUME NEW text \in Seq(Items)
  PROVE  /\ IsFiniteSet(Temps(text)) /\ Temps(text) \subseteq Int
         /\ \A t \in Temps(text) : t <= IntMax
<1>. DEFINE g == [k \in Readable(text) |-> Celsius(text[k])]
<1>1. IsFiniteSet(1 .. Len(text)) BY FS_Interval
<1>2. Readable(text) \in SUBSET (1 .. Len(text)) BY DEF Readable
<1>3. IsFiniteSet(Readable(text)) BY <1>1, <1>2, FewerIs
<1>4. g \in Surjection(Readable(text), Temps(text)) BY DEF Temps, Surjection
<1>5. IsFiniteSet(Temps(text)) BY <1>3, <1>4, FS_Surjection
<1>6. ASSUME NEW k \in Readable(text) PROVE Celsius(text[k]) \in Int /\ Celsius(text[k]) <= IntMax
  <2>1. text[k] \in Items BY <1>2
  <2>2. Digits(text[k].temp) <= IntMax BY DEF Readable
  <2>3. Digits(text[k].temp) \in Int BY <2>1 DEF Items, Digits
  <2>. QED BY <2>1, <2>2, <2>3, CelsiusIs, FanConfigAssumption
<1>. QED BY <1>5, <1>6 DEF Temps

\* rpm_to_pwm: an entry is one of the text's, clamped.
LEMMA MappingFrom ==
  ASSUME NEW text \in Seq(Pairs), Len(text) <= IntMax
  PROVE  IsMapping(rpm_to_pwm_from(text)) /\ DOMAIN rpm_to_pwm_from(text) = Speeds(text)
<1>. DEFINE J == {j \in DOMAIN text : text[j].rpm <= IntMax}
            g == [k \in J |-> text[k].rpm]
            m == rpm_to_pwm_from(text)
<1>1. DOMAIN text = 1 .. Len(text) /\ Len(text) \in Nat /\ \A k \in DOMAIN text : text[k] \in Pairs
  OBVIOUS
<1>2. IsFiniteSet(1 .. Len(text)) /\ Cardinality(1 .. Len(text)) = Len(text) BY <1>1, FS_Interval
<1>3. IsFiniteSet(J) /\ Cardinality(J) \in Nat /\ Cardinality(J) <= Len(text)
  BY <1>1, <1>2, FewerIs, J \in SUBSET (1 .. Len(text))
<1>4. g \in Surjection(J, Speeds(text)) BY DEF Speeds, Surjection
<1>5. Cardinality(Speeds(text)) <= Cardinality(J) /\ Cardinality(Speeds(text)) \in Nat
  BY <1>3, <1>4, FS_Surjection, FS_CardinalityType
<1>6. Speeds(text) \subseteq 0 .. IntMax BY <1>1, FanConfigAssumption DEF Speeds, Pairs
<1>7. ASSUME NEW r \in Speeds(text) PROVE m[r] \in 0 .. PwmMax
  <2>. DEFINE S == {k \in DOMAIN text : text[k].rpm = r}
  <2>1. S # {} /\ S \subseteq 0 .. Len(text) BY <1>1 DEF Speeds
  <2>2. Max(S) \in S BY <1>1, <2>1, MaxIs
  <2>3. text[Max(S)].pwm \in Nat BY <1>1, <2>2 DEF Pairs
  <2>4. m[r] = Clamped(text[Max(S)].pwm) BY DEF rpm_to_pwm_from
  <2>. QED BY <2>3, <2>4, ClampedIs
<1>8. m = [r \in Speeds(text) |-> m[r]] BY DEF rpm_to_pwm_from
<1>9. DOMAIN m = Speeds(text) BY DEF rpm_to_pwm_from
<1>10. m \in [DOMAIN m -> 0 .. PwmMax] BY <1>7, <1>8, <1>9
<1>11. Cardinality(DOMAIN m) <= IntMax BY <1>1, <1>3, <1>5, <1>9, FanConfigAssumption
<1>. QED BY <1>6, <1>9, <1>10, <1>11 DEF IsMapping

LEMMA NotEmpty ==
  ASSUME NEW m, IsMapping(m), m # <<>>
  PROVE  DOMAIN m # {}
<1>1. m \in [DOMAIN m -> 0 .. PwmMax] BY DEF IsMapping
<1>2. ASSUME DOMAIN m = {} PROVE m = <<>>
  <2>1. m \in [{} -> 0 .. PwmMax] BY <1>1, <1>2
  <2>2. <<>> \in [{} -> 0 .. PwmMax] OBVIOUS
  <2>. QED BY <2>1, <2>2
<1>. QED BY <1>2

LEMMA DemandsAre ==
  ASSUME NEW m, IsMapping(m), m # <<>>, NEW item \in Items, item.value <= IntMax
  PROVE  Demands(m, item) \subseteq 0 .. IntMax
<1>1. item.value \in Nat BY DEF Items
<1>2. percent_to_rpm(m, item.value) \in 0 .. IntMax BY <1>1, NotEmpty, PercentRises
<1>3. pwm_to_rpm(m, item.value) \subseteq 0 .. IntMax BY <1>1, NotEmpty, PwmIs
<1>. QED BY <1>1, <1>2, <1>3, FanConfigAssumption DEF Demands

\* temp_to_rpm: temperatures and speeds that a width allows
IsCurve(c) ==
  /\ IsFiniteSet(DOMAIN c) /\ DOMAIN c \subseteq Int /\ \A t \in DOMAIN c : t <= IntMax
  /\ c \in [DOMAIN c -> 0 .. IntMax]

\* A curve has the temperatures of its text, and a demand of the last item for each.
LEMMA CurveFrom ==
  ASSUME NEW text \in Seq(Items), NEW m, IsMapping(m), NEW c \in temp_to_rpm_from(m, text)
  PROVE  /\ m = <<>> => c = <<>>
         /\ m # <<>> => /\ DOMAIN c = Temps(text)
                        /\ \A t \in Temps(text) : c[t] \in Demands(m, LastFor(text, t))
         /\ IsCurve(c)
<1>1. CASE m = <<>>
  <2>1. c = <<>> BY <1>1 DEF temp_to_rpm_from
  <2>2. DOMAIN c = {} /\ c \in [{} -> 0 .. IntMax] BY <2>1
  <2>. QED BY <1>1, <2>1, <2>2, FS_EmptySet DEF IsCurve
<1>2. CASE m # <<>>
  <2>. DEFINE at == [t \in Temps(text) |-> Demands(m, LastFor(text, t))]
  <2>1. c \in {d \in [DOMAIN at -> UNION Range(at)] : \A t \in DOMAIN at : d[t] \in at[t]}
    BY <1>2 DEF temp_to_rpm_from
  <2>2. DOMAIN c = Temps(text) /\ c = [t \in Temps(text) |-> c[t]] BY <2>1
  <2>3. \A t \in Temps(text) : c[t] \in Demands(m, LastFor(text, t)) BY <2>1
  <2>4. ASSUME NEW t \in Temps(text) PROVE c[t] \in 0 .. IntMax
    <3>1. PICK k \in Readable(text) : LastFor(text, t) = text[k] BY LastForIs
    <3>2. text[k] \in Items /\ text[k].value <= IntMax BY DEF Readable
    <3>. QED BY <1>2, <2>3, <3>1, <3>2, DemandsAre
  <2>5. c \in [DOMAIN c -> 0 .. IntMax] BY <2>2, <2>4
  <2>6. \A t \in Temps(text) : t \in Int /\ t <= IntMax BY TempsAre
  <2>. QED BY <1>2, <2>2, <2>3, <2>5, <2>6, TempsAre DEF IsCurve
<1>. QED BY <1>1, <1>2

LEMMA DemandsRise ==
  ASSUME NEW m, IsMapping(m), m # <<>>, Rises(m), NEW i \in Items, NEW j \in Items,
         i.unit = j.unit, i.value <= j.value, i.unit = "PWM" => Min(Range(m)) <= i.value,
         NEW a \in Demands(m, i), NEW b \in Demands(m, j)
  PROVE  a <= b
<1>1. i.value \in Nat /\ j.value \in Nat BY DEF Items
<1>2. DOMAIN m # {} BY NotEmpty
<1>3. CASE i.unit = "%"
  <2>1. a = percent_to_rpm(m, i.value) /\ b = percent_to_rpm(m, j.value)
    BY <1>3, Zenon DEF Demands
  <2>. QED BY <1>1, <1>2, <2>1, PercentRises
<1>4. CASE i.unit = "PWM"
  <2>1. a \in pwm_to_rpm(m, i.value) /\ b \in pwm_to_rpm(m, j.value)
    BY <1>4, "PWM" # "%", Zenon DEF Demands
  <2>2. Min(Range(m)) <= i.value BY <1>4
  <2>. QED BY <1>1, <1>2, <2>1, <2>2, PwmRises
<1>5. CASE i.unit # "%" /\ i.unit # "PWM"
  <2>1. a = i.value /\ b = j.value BY <1>5, Zenon DEF Demands
  <2>. QED BY <2>1
<1>. QED BY <1>3, <1>4, <1>5, Zenon

\* A text that rises in one unit is made into a curve that rises.
LEMMA CurveRises ==
  ASSUME NEW text \in Seq(Items), NEW m, IsMapping(m), Rises(m), RisingText(m, text),
         NEW c \in temp_to_rpm_from(m, text)
  PROVE  Rises(c)
<1>1. CASE m = <<>>
  <2>1. DOMAIN c = {} BY <1>1, CurveFrom
  <2>. QED BY <2>1 DEF Rises
<1>2. CASE m # <<>>
  <2>1. DOMAIN c = Temps(text) /\ \A t \in Temps(text) : c[t] \in Demands(m, LastFor(text, t))
    BY <1>2, CurveFrom
  <2>. SUFFICES ASSUME NEW a \in Temps(text), NEW b \in Temps(text), a < b PROVE c[a] <= c[b]
    BY <2>1 DEF Rises
  <2>2. PICK i \in Readable(text) : Celsius(text[i]) = a /\ LastFor(text, a) = text[i]
    BY LastForIs
  <2>3. PICK j \in Readable(text) : Celsius(text[j]) = b /\ LastFor(text, b) = text[j]
    BY LastForIs
  <2>4. /\ i \in DOMAIN text /\ j \in DOMAIN text /\ text[i] \in Items /\ text[j] \in Items
        /\ i \in Nat /\ j \in Nat
    BY DEF Readable
  <2>5. /\ text[i].temp >= 0 /\ text[j].temp >= 0
        /\ text[i].unit = "PWM" => Min(Range(m)) <= text[i].value
    <3>1. text[i].unit = "PWM" => text[i].value >= Min(Range(m)) BY <2>4 DEF RisingText
    <3>. QED BY <2>4, <3>1 DEF RisingText
  <2>6. i < j
    <3>. SUFFICES ASSUME j < i PROVE FALSE
      <4>1. i # j BY <2>2, <2>3, TempsAre
      <4>. QED BY <2>4, <4>1
    <3>1. text[j].temp < text[i].temp /\ text[j].fahrenheit = text[i].fahrenheit
      BY <2>4 DEF RisingText
    <3>2. text[j].temp \in Int /\ text[i].temp \in Int BY <2>4 DEF Items
    <3>3. Celsius(text[j]) <= Celsius(text[i]) BY <2>4, <2>5, <3>1, <3>2, CelsiusRises
    <3>. QED BY <2>2, <2>3, <3>3, TempsAre
  <2>7. text[i].unit = text[j].unit /\ text[i].value <= text[j].value
    BY <2>4, <2>6 DEF RisingText
  <2>8. c[a] \in Demands(m, text[i]) /\ c[b] \in Demands(m, text[j]) BY <2>1, <2>2, <2>3
  <2>. QED BY <1>2, <2>4, <2>5, <2>7, <2>8, DemandsRise
<1>. QED BY <1>1, <1>2

-----------------------------------------------------------------------------
(* What a save writes                                                         *)

\* How a point of a curve is written
Point(t, v) == [temp |-> t, fahrenheit |-> FALSE, value |-> v, unit |-> Nothing]

LEMMA PointIs ==
  ASSUME NEW t, NEW v
  PROVE  Point(t, v).temp = t /\ ~Point(t, v).fahrenheit /\ Point(t, v).value = v
BY Zenon DEF Point

LEMMA CurveTextIs ==
  ASSUME NEW c, IsCurve(c)
  PROVE  /\ CurveText(c) \in Seq(Items)
         /\ \A t \in DOMAIN c : \E k \in DOMAIN CurveText(c) :
              CurveText(c)[k] = Point(t, c[t])
         /\ \A k \in DOMAIN CurveText(c) : \E t \in DOMAIN c :
              CurveText(c)[k] = Point(t, c[t])
<1>. DEFINE n == Cardinality(DOMAIN c)
<1>1. /\ n \in Nat /\ Ascending(c) \in [1 .. n -> DOMAIN c]
      /\ \A x \in DOMAIN c : \E k \in 1 .. n : Ascending(c)[k] = x
  BY AscendingIs DEF IsCurve
<1>2. DOMAIN Ascending(c) = 1 .. n BY <1>1
<1>3. CurveText(c) = [k \in 1 .. n |-> Point(Ascending(c)[k], c[Ascending(c)[k]])]
  BY <1>2 DEF CurveText, Point
<1>4. ASSUME NEW t \in DOMAIN c PROVE Point(t, c[t]) \in Items
  <2>1. t \in Int /\ c[t] \in Nat BY FanConfigAssumption DEF IsCurve
  <2>2. Nothing \in Units BY Zenon DEF Units
  <2>. QED BY <2>1, <2>2 DEF Items, Point
<1>. HIDE DEF n
<1>5. CurveText(c) \in Seq(Items) BY <1>1, <1>3, <1>4
<1>6. /\ \A t \in DOMAIN c : \E k \in DOMAIN CurveText(c) : CurveText(c)[k] = Point(t, c[t])
      /\ \A k \in DOMAIN CurveText(c) : \E t \in DOMAIN c : CurveText(c)[k] = Point(t, c[t])
  BY <1>1, <1>3
<1>. QED BY <1>5, <1>6

LEMMA MappingTextIs ==
  ASSUME NEW m, IsMapping(m)
  PROVE  /\ MappingText(m) \in Seq(Pairs) /\ Len(MappingText(m)) <= IntMax
         /\ \A r \in DOMAIN m : \E k \in DOMAIN MappingText(m) :
              MappingText(m)[k] = [rpm |-> r, pwm |-> m[r]]
         /\ \A k \in DOMAIN MappingText(m) : \E r \in DOMAIN m :
              MappingText(m)[k] = [rpm |-> r, pwm |-> m[r]]
<1>. DEFINE n == Cardinality(DOMAIN m)
            written(r) == [rpm |-> r, pwm |-> m[r]]
<1>1. n \in 0 .. IntMax /\ IsFiniteSet(DOMAIN m) /\ DOMAIN m \subseteq Int BY MappingSize
<1>2. /\ n \in Nat /\ Ascending(m) \in [1 .. n -> DOMAIN m]
      /\ \A x \in DOMAIN m : \E k \in 1 .. n : Ascending(m)[k] = x
  BY <1>1, AscendingIs
<1>3. DOMAIN Ascending(m) = 1 .. n BY <1>2
<1>4. MappingText(m) = [k \in 1 .. n |-> written(Ascending(m)[k])] BY <1>3 DEF MappingText
<1>5. \A r \in DOMAIN m : written(r) \in Pairs BY FanConfigAssumption DEF IsMapping, Pairs
<1>. HIDE DEF written, n
<1>6. MappingText(m) \in Seq(Pairs) /\ Len(MappingText(m)) = n BY <1>2, <1>4, <1>5
<1>7. /\ \A r \in DOMAIN m : \E k \in DOMAIN MappingText(m) : MappingText(m)[k] = written(r)
      /\ \A k \in DOMAIN MappingText(m) : \E r \in DOMAIN m : MappingText(m)[k] = written(r)
  BY <1>2, <1>4
<1>. QED BY <1>1, <1>6, <1>7 DEF written

\* A point that is written is one that is read, if it is not below 0 °C.
LEMMA PointKept ==
  ASSUME NEW c, IsCurve(c), NEW t \in DOMAIN c, t >= 0
  PROVE  t \in Temps(CurveText(c))
<1>. DEFINE text == CurveText(c)
<1>1. PICK k \in DOMAIN text :
        text[k] = Point(t, c[t])
  BY CurveTextIs
<1>2. t \in Int /\ t <= IntMax /\ c[t] <= IntMax BY FanConfigAssumption DEF IsCurve
<1>. HIDE DEF text
<1>3. text[k].temp = t /\ text[k].value = c[t] /\ ~text[k].fahrenheit BY <1>1, PointIs
<1>4. Digits(text[k].temp) = t BY <1>2, <1>3 DEF Digits
<1>5. k \in Readable(text) BY <1>2, <1>3, <1>4 DEF Readable
<1>6. Celsius(text[k]) = t BY <1>3, <1>4 DEF Celsius
<1>. QED BY <1>5, <1>6 DEF Temps, text

LEMMA MappingBack ==
  ASSUME NEW m, IsMapping(m)
  PROVE  rpm_to_pwm_from(MappingText(m)) = m
<1>. DEFINE text == MappingText(m)
            back == rpm_to_pwm_from(text)
<1>1. /\ text \in Seq(Pairs)
      /\ \A r \in DOMAIN m : \E k \in DOMAIN text : text[k] = [rpm |-> r, pwm |-> m[r]]
      /\ \A k \in DOMAIN text : \E r \in DOMAIN m : text[k] = [rpm |-> r, pwm |-> m[r]]
  BY MappingTextIs
<1>. HIDE DEF text
<1>2. \A k \in DOMAIN text : text[k].rpm \in DOMAIN m /\ text[k].pwm = m[text[k].rpm] BY <1>1
<1>3. \A r \in DOMAIN m : r <= IntMax /\ \E k \in DOMAIN text : text[k].rpm = r
  BY <1>1, FanConfigAssumption DEF IsMapping
<1>4. Speeds(text) = DOMAIN m BY <1>2, <1>3 DEF Speeds
<1>5. ASSUME NEW r \in DOMAIN m PROVE back[r] = m[r]
  <2>. DEFINE S == {k \in DOMAIN text : text[k].rpm = r}
  <2>1. S # {} /\ S \subseteq 0 .. Len(text) /\ Len(text) \in Nat BY <1>1, <1>3
  <2>2. Max(S) \in S BY <2>1, MaxIs
  <2>3. text[Max(S)].pwm = m[r] BY <1>2, <2>2
  <2>4. back[r] = Clamped(text[Max(S)].pwm) BY <1>4 DEF rpm_to_pwm_from
  <2>5. m[r] \in Nat /\ m[r] <= PwmMax BY FanConfigAssumption DEF IsMapping
  <2>. QED BY <2>3, <2>4, <2>5, ClampedIs
<1>6. back = [r \in DOMAIN m |-> back[r]] BY <1>4 DEF rpm_to_pwm_from
<1>7. m = [r \in DOMAIN m |-> m[r]] BY DEF IsMapping
<1>. HIDE DEF back
<1>8. back = m BY <1>5, <1>6, <1>7
<1>. QED BY <1>8 DEF back, text

LEMMA CurveBack ==
  ASSUME NEW c, IsCurve(c), \A t \in DOMAIN c : t >= 0, NEW m, m # <<>>
  PROVE  temp_to_rpm_from(m, CurveText(c)) = {c}
<1>. DEFINE text == CurveText(c)
            at == [t \in Temps(text) |-> Demands(m, LastFor(text, t))]
<1>1. text \in Seq(Items) /\ \A k \in DOMAIN text : \E t \in DOMAIN c : text[k] = Point(t, c[t])
  BY CurveTextIs
<1>2. DOMAIN c \subseteq Temps(text) BY PointKept
<1>3. ASSUME NEW t \in Temps(text) PROVE t \in DOMAIN c /\ at[t] = {c[t]}
  <2>1. PICK k \in Readable(text) : Celsius(text[k]) = t /\ LastFor(text, t) = text[k]
    BY <1>1, LastForIs
  <2>2. k \in DOMAIN text BY DEF Readable
  <2>3. PICK s \in DOMAIN c : text[k] = Point(s, c[s]) BY <1>1, <2>2
  <2>4. s = t
    <3>1. text[k].temp = s /\ ~text[k].fahrenheit BY <2>3, PointIs
    <3>2. s \in Int /\ s >= 0 BY DEF IsCurve
    <3>. QED BY <2>1, <3>1, <3>2 DEF Celsius, Digits
  <2>5. Demands(m, Point(t, c[t])) = {c[t]}
    <3>1. Point(t, c[t]).unit = Nothing /\ Point(t, c[t]).value = c[t] BY Zenon DEF Point
    <3>2. Nothing # "%" /\ Nothing # "PWM" BY Zenon DEF Nothing
    <3>. QED BY <3>1, <3>2, Zenon DEF Demands
  <2>. QED BY <2>1, <2>3, <2>4, <2>5
<1>4. temp_to_rpm_from(m, text) =
        {d \in [DOMAIN at -> UNION Range(at)] : \A t \in DOMAIN at : d[t] \in at[t]}
  BY DEF temp_to_rpm_from
<1>5. DOMAIN at = DOMAIN c BY <1>2, <1>3
<1>6. c = [t \in DOMAIN c |-> c[t]] BY DEF IsCurve
<1>. HIDE DEF text, at
<1>7. \A t \in DOMAIN c : at[t] = {c[t]} BY <1>2, <1>3
<1>8. \A t \in DOMAIN c : c[t] \in UNION Range(at) BY <1>5, <1>7 DEF Range
<1>9. c \in temp_to_rpm_from(m, text)
  <2>1. c \in [DOMAIN at -> UNION Range(at)] BY <1>5, <1>6, <1>8
  <2>. QED BY <1>4, <1>5, <1>7, <2>1
<1>10. ASSUME NEW d \in temp_to_rpm_from(m, text) PROVE d = c
  <2>1. d \in [DOMAIN c -> UNION Range(at)] /\ \A t \in DOMAIN c : d[t] \in at[t] BY <1>4, <1>5
  <2>2. d = [t \in DOMAIN c |-> d[t]] BY <2>1
  <2>3. \A t \in DOMAIN c : d[t] = c[t] BY <1>7, <2>1
  <2>. QED BY <1>6, <2>2, <2>3
<1>11. temp_to_rpm_from(m, text) = {c} BY <1>9, <1>10
<1>. QED BY <1>11 DEF text

-----------------------------------------------------------------------------
(* The invariant                                                              *)

\* While held, what the entry says of the fan is what a save would write of it.
TypeInv ==
  /\ FanConfigTypeOK /\ IsCurve(fan.curve) /\ Len(file.mapping) <= IntMax
  /\ fan = [curve |-> fan.curve, mapping |-> fan.mapping, start |-> fan.start,
            sensor |-> fan.sensor]
HeldInv == held =>
  /\ file.sensor = fan.sensor
  /\ {t \in Temps(file.curve) : t >= 0} \subseteq Temps(CurveText(fan.curve))
ConfInv == TypeInv /\ HeldInv

\* A Fan is made of an entry by Fan::from.
LEMMA FromIs ==
  ASSUME TypeInv, NEW f \in From(file)
  PROVE  /\ f = [curve |-> f.curve, mapping |-> f.mapping, start |-> f.start, sensor |-> f.sensor]
         /\ f.mapping = rpm_to_pwm_from(file.mapping) /\ IsMapping(f.mapping)
         /\ f.curve \in temp_to_rpm_from(f.mapping, file.curve) /\ IsCurve(f.curve)
         /\ f.start \in 0 .. PwmMax /\ f.sensor \in Sensors
<1>. DEFINE m == rpm_to_pwm_from(file.mapping)
<1>1. /\ file.curve \in Seq(Items) /\ file.mapping \in Seq(Pairs) /\ Len(file.mapping) <= IntMax
      /\ file.start \in Nat /\ file.sensor \in Sensors
  BY DEF TypeInv, FanConfigTypeOK
<1>2. PICK c \in temp_to_rpm_from(m, file.curve) :
        f = [curve |-> c, mapping |-> m, start |-> Clamped(file.start),
             sensor |-> IF present THEN file.sensor ELSE Nothing]
  BY Zenon DEF From
<1>3. IsMapping(m) BY <1>1, MappingFrom
<1>4. IsCurve(c) BY <1>1, <1>3, CurveFrom
<1>5. Clamped(file.start) \in 0 .. PwmMax BY <1>1, ClampedIs
<1>6. Nothing \in Sensors BY Zenon DEF Sensors
<1>. HIDE DEF m
<1>7. f.curve = c /\ f.mapping = m /\ f.start = Clamped(file.start) /\ f.sensor \in Sensors
  BY <1>1, <1>2, <1>6
<1>. QED BY <1>2, <1>3, <1>4, <1>5, <1>7 DEF m

LEMMA ToIs ==
  ASSUME NEW f, IsMapping(f.mapping), IsCurve(f.curve), f.start \in 0 .. PwmMax,
         f.sensor \in Sensors
  PROVE  /\ To(f) \in [curve : Seq(Items), mapping : Seq(Pairs), start : Nat, sensor : Sensors]
         /\ To(f).curve = CurveText(f.curve) /\ To(f).mapping = MappingText(f.mapping)
         /\ To(f).start = f.start /\ To(f).sensor = f.sensor /\ Len(To(f).mapping) <= IntMax
<1>1. CurveText(f.curve) \in Seq(Items) BY CurveTextIs
<1>2. MappingText(f.mapping) \in Seq(Pairs) /\ Len(MappingText(f.mapping)) <= IntMax
  BY MappingTextIs
<1>3. f.start \in Nat BY FanConfigAssumption
<1>. QED BY <1>1, <1>2, <1>3 DEF To

LEMMA InitConf == Init => ConfInv
<1>. SUFFICES ASSUME Init PROVE ConfInv OBVIOUS
<1>1. /\ file = Empty /\ fan = Empty /\ held = TRUE /\ present \in BOOLEAN /\ events = 0
  BY Zenon DEF Init
<1>2. IsMapping(<<>>) /\ IsCurve(<<>>)
  <2>1. DOMAIN <<>> = {} OBVIOUS
  <2>2. <<>> \in [{} -> 0 .. PwmMax] /\ <<>> \in [{} -> 0 .. IntMax] OBVIOUS
  <2>. QED BY <2>1, <2>2, FS_EmptySet, FanConfigAssumption DEF IsMapping, IsCurve
<1>3. Nothing \in Sensors BY Zenon DEF Sensors
<1>4. /\ Empty.curve = <<>> /\ Empty.mapping = <<>> /\ Empty.start = 0 /\ Empty.sensor = Nothing
      /\ DOMAIN Empty = {"curve", "mapping", "start", "sensor"}
      /\ Empty = [curve |-> Empty.curve, mapping |-> Empty.mapping, start |-> Empty.start,
                  sensor |-> Empty.sensor]
      /\ Empty \in [curve : Seq(Items), mapping : Seq(Pairs), start : Nat, sensor : Sensors]
  BY <1>3 DEF Empty
<1>5. FanConfigTypeOK
  <2>1. DOMAIN <<>> \subseteq Int /\ <<>> \in [DOMAIN <<>> -> 0 .. IntMax] OBVIOUS
  <2>2. 0 \in 0 .. PwmMax /\ events \in 0 .. MaxEvents BY <1>1, FanConfigAssumption
  <2>. QED BY <1>1, <1>2, <1>3, <1>4, <2>1, <2>2 DEF FanConfigTypeOK
<1>6. TypeInv
  <2>1. Len(<<>>) <= IntMax BY FanConfigAssumption
  <2>. QED BY <1>1, <1>2, <1>4, <1>5, <2>1 DEF TypeInv
<1>7. HeldInv
  <2>1. Temps(<<>>) = {} BY DEF Temps, Readable
  <2>. QED BY <1>1, <1>4, <2>1 DEF HeldInv
<1>. QED BY <1>6, <1>7 DEF ConfInv

\* What a save writes of any fan that is one
LEMMA SaveKeeps ==
  ASSUME Save(fan'), IsMapping(fan.mapping'), IsCurve(fan.curve'), fan.start' \in 0 .. PwmMax,
         fan.sensor' \in Sensors
  PROVE  /\ file' \in [curve : Seq(Items), mapping : Seq(Pairs), start : Nat, sensor : Sensors]
         /\ Len(file.mapping') <= IntMax /\ HeldInv' /\ held' \in BOOLEAN
<1>1. file' = To(fan') /\ held' = TRUE BY DEF Save
<1>. QED BY <1>1, ToIs DEF HeldInv

LEMMA EventIs == ASSUME TypeInv, Event PROVE events' \in 0 .. MaxEvents
BY FanConfigAssumption DEF TypeInv, FanConfigTypeOK, Event

\* An edit of the entry, or none: the fan stays.
LEMMA FileChanges ==
  ASSUME ConfInv, fan' = fan, held' \in BOOLEAN, HeldInv', present' \in BOOLEAN,
         events' \in 0 .. MaxEvents,
         file' \in [curve : Seq(Items), mapping : Seq(Pairs), start : Nat, sensor : Sensors],
         Len(file.mapping') <= IntMax
  PROVE  ConfInv'
<1>1. DOMAIN fan = {"curve", "mapping", "start", "sensor"} BY DEF ConfInv, TypeInv
<1>2. DOMAIN file' = {"curve", "mapping", "start", "sensor"} OBVIOUS
<1>3. FanConfigTypeOK' BY <1>1, <1>2 DEF ConfInv, TypeInv, FanConfigTypeOK
<1>. QED BY <1>3 DEF ConfInv, TypeInv

LEMMA EditInv ==
  ASSUME ConfInv, EditCurve \/ EditMapping
  PROVE  ConfInv'
<1>1. /\ file \in [curve : Seq(Items), mapping : Seq(Pairs), start : Nat, sensor : Sensors]
      /\ Len(file.mapping) <= IntMax /\ present \in BOOLEAN
  BY DEF ConfInv, TypeInv, FanConfigTypeOK
<1>2. Event /\ held' = FALSE /\ fan' = fan /\ present' = present BY DEF EditCurve, EditMapping
<1>3. events' \in 0 .. MaxEvents BY <1>2, EventIs DEF ConfInv
<1>4. HeldInv' BY <1>2 DEF HeldInv
<1>5. /\ file' \in [curve : Seq(Items), mapping : Seq(Pairs), start : Nat, sensor : Sensors]
      /\ Len(file.mapping') <= IntMax
  <2>1. CASE EditCurve
    <3>1. PICK c \in Curves : file' = [file EXCEPT !.curve = c, !.sensor = "sensor"]
      BY <2>1 DEF EditCurve
    <3>2. c \in Seq(Items) BY FanConfigAssumption
    <3>3. "sensor" \in Sensors BY Zenon DEF Sensors
    <3>. QED BY <1>1, <3>1, <3>2, <3>3
  <2>2. CASE EditMapping
    <3>1. PICK m \in Mappings, s \in Starts : file' = [file EXCEPT !.mapping = m, !.start = s]
      BY <2>2 DEF EditMapping
    <3>2. m \in Seq(Pairs) /\ Len(m) <= IntMax /\ s \in Nat BY FanConfigAssumption
    <3>. QED BY <1>1, <3>1, <3>2
  <2>. QED BY <2>1, <2>2
<1>. QED BY <1>1, <1>2, <1>3, <1>4, <1>5, FileChanges

\* Where an entry is read, each of its temperatures becomes a point.
LEMMA LoadInv == ASSUME ConfInv, Load PROVE ConfInv'
<1>1. /\ fan' \in From(file) /\ UNCHANGED <<file, present, events>>
      /\ held' = (fan.mapping' # <<>> /\ fan.sensor' = file.sensor)
  BY DEF Load
<1>2. /\ fan' = [curve |-> fan.curve', mapping |-> fan.mapping', start |-> fan.start',
                 sensor |-> fan.sensor']
      /\ IsMapping(fan.mapping') /\ fan.curve' \in temp_to_rpm_from(fan.mapping', file.curve)
      /\ IsCurve(fan.curve') /\ fan.start' \in 0 .. PwmMax /\ fan.sensor' \in Sensors
  BY <1>1, FromIs DEF ConfInv
<1>3. DOMAIN fan' = {"curve", "mapping", "start", "sensor"} BY <1>2
<1>4. DOMAIN file = {"curve", "mapping", "start", "sensor"} /\ file.curve \in Seq(Items)
  BY DEF ConfInv, TypeInv, FanConfigTypeOK
<1>5. FanConfigTypeOK'
  BY <1>1, <1>2, <1>3, <1>4 DEF ConfInv, TypeInv, FanConfigTypeOK, IsCurve
<1>6. TypeInv' BY <1>1, <1>2, <1>5 DEF ConfInv, TypeInv
<1>7. HeldInv'
  <2>. SUFFICES ASSUME fan.mapping' # <<>>, fan.sensor' = file.sensor,
                       NEW t \in Temps(file.curve), t >= 0
                PROVE  t \in Temps(CurveText(fan.curve'))
    BY <1>1 DEF HeldInv
  <2>1. t \in DOMAIN fan.curve' BY <1>2, <1>4, CurveFrom
  <2>. QED BY <1>2, <2>1, PointKept
<1>. QED BY <1>6, <1>7 DEF ConfInv

LEMMA TestInv == ASSUME ConfInv, Test PROVE ConfInv'
<1>1. PICK r \in Measured : fan' = [fan EXCEPT !.mapping = r.mapping, !.start = r.start]
  BY DEF Test
<1>2. IsMapping(r.mapping) /\ r.start \in 0 .. PwmMax BY FanConfigAssumption
<1>3. Event /\ present' = present /\ (Save(fan') \/ UNCHANGED <<file, held>>) BY DEF Test
<1>4. events' \in 0 .. MaxEvents BY <1>3, EventIs DEF ConfInv
<1>5. /\ fan = [curve |-> fan.curve, mapping |-> fan.mapping, start |-> fan.start,
                sensor |-> fan.sensor]
      /\ IsCurve(fan.curve) /\ fan.sensor \in Sensors
  BY DEF ConfInv, TypeInv, FanConfigTypeOK
<1>6. fan' = [curve |-> fan.curve, mapping |-> r.mapping, start |-> r.start, sensor |-> fan.sensor]
  BY <1>1, <1>5
<1>7. /\ fan.curve' = fan.curve /\ fan.mapping' = r.mapping /\ fan.start' = r.start
      /\ fan.sensor' = fan.sensor /\ DOMAIN fan' = {"curve", "mapping", "start", "sensor"}
  BY <1>6
<1>8. /\ file' \in [curve : Seq(Items), mapping : Seq(Pairs), start : Nat, sensor : Sensors]
      /\ Len(file.mapping') <= IntMax /\ HeldInv' /\ held' \in BOOLEAN
  <2>1. CASE Save(fan') BY <1>2, <1>5, <1>7, <2>1, SaveKeeps
  <2>2. CASE UNCHANGED <<file, held>>
    BY <1>7, <2>2 DEF ConfInv, TypeInv, FanConfigTypeOK, HeldInv
  <2>. QED BY <1>3, <2>1, <2>2
<1>9. DOMAIN file' = {"curve", "mapping", "start", "sensor"} BY <1>8
<1>10. FanConfigTypeOK'
  BY <1>2, <1>3, <1>4, <1>5, <1>7, <1>8, <1>9 DEF ConfInv, TypeInv, FanConfigTypeOK, IsCurve
<1>. QED BY <1>5, <1>6, <1>7, <1>8, <1>10 DEF ConfInv, TypeInv

LEMMA NextConf == ConfInv /\ [Next]_vars => ConfInv'
<1>. SUFFICES ASSUME ConfInv, [Next]_vars PROVE ConfInv' OBVIOUS
<1>1. /\ file \in [curve : Seq(Items), mapping : Seq(Pairs), start : Nat, sensor : Sensors]
      /\ Len(file.mapping) <= IntMax /\ present \in BOOLEAN /\ held \in BOOLEAN
      /\ events \in 0 .. MaxEvents /\ IsMapping(fan.mapping) /\ IsCurve(fan.curve)
      /\ fan.start \in 0 .. PwmMax /\ fan.sensor \in Sensors
  BY DEF ConfInv, TypeInv, FanConfigTypeOK
<1>2. CASE SensorComesOrGoes
  <2>1. /\ Event /\ present' = ~present /\ file' = file /\ fan' = fan /\ held' = held
    BY <1>2 DEF SensorComesOrGoes
  <2>2. events' \in 0 .. MaxEvents BY <2>1, EventIs DEF ConfInv
  <2>3. HeldInv' BY <2>1 DEF ConfInv, HeldInv
  <2>4. present' \in BOOLEAN BY <1>1, <2>1
  <2>. QED BY <1>1, <2>1, <2>2, <2>3, <2>4, FileChanges
<1>3. CASE SaveAll
  <2>1. Save(fan) /\ fan' = fan /\ present' = present /\ events' = events BY <1>3 DEF SaveAll
  <2>2. Save(fan') BY <2>1 DEF Save
  <2>3. /\ file' \in [curve : Seq(Items), mapping : Seq(Pairs), start : Nat, sensor : Sensors]
        /\ Len(file.mapping') <= IntMax /\ HeldInv' /\ held' \in BOOLEAN
    BY <1>1, <2>1, <2>2, SaveKeeps
  <2>. QED BY <1>1, <2>1, <2>3, FileChanges
<1>4. CASE UNCHANGED vars
  BY <1>4 DEF vars, ConfInv, TypeInv, HeldInv, FanConfigTypeOK
<1>. QED BY <1>2, <1>3, <1>4, EditInv, LoadInv, TestInv DEF Next

LEMMA ConfInvariant == Spec => []ConfInv
<1>. QED BY InitConf, NextConf, PTL DEF Spec

-----------------------------------------------------------------------------
(* The theorems                                                               *)

\* Whatever is edited, measured, saved and loaded, the maps of a Fan are within
\* what an int and a PWM may be (Fan.cpp:375-473).
THEOREM FanConfigTypeTheorem == Spec => []FanConfigTypeOK
<1>1. ConfInv => FanConfigTypeOK BY DEF ConfInv, TypeInv
<1>. QED BY <1>1, ConfInvariant, PTL

\* For every mapping that rises and every text that does, in RPM, PWM or percent,
\* in °C or °F, the demands rise (Fan.cpp:324-422).
THEOREM RisingTheorem == Spec => []RisingCurve
<1>1. ASSUME TypeInv, NEW f \in From(file), RisingText(rpm_to_pwm_from(file.mapping), file.curve),
             Rises(rpm_to_pwm_from(file.mapping))
      PROVE  Rises(f.curve)
  <2>1. file.curve \in Seq(Items) BY <1>1 DEF TypeInv, FanConfigTypeOK
  <2>. QED BY <1>1, <2>1, FromIs, CurveRises
<1>2. ConfInv => RisingCurve BY <1>1 DEF ConfInv, RisingCurve
<1>. QED BY <1>2, ConfInvariant, PTL

\* What a save writes of a tested fan whose curve is not below 0 °C is read back as
\* the very same fan (Fan.cpp:463-489).
THEOREM LoadsBackTheorem == Spec => []LoadsBack
<1>1. ASSUME TypeInv, fan.mapping # <<>>, \A t \in DOMAIN fan.curve : t >= 0,
             present \/ fan.sensor = Nothing
      PROVE  From(To(fan)) = {fan}
  <2>1. /\ IsMapping(fan.mapping) /\ IsCurve(fan.curve) /\ fan.start \in 0 .. PwmMax
        /\ fan.sensor \in Sensors
        /\ fan = [curve |-> fan.curve, mapping |-> fan.mapping, start |-> fan.start,
                  sensor |-> fan.sensor]
    BY <1>1 DEF TypeInv, FanConfigTypeOK
  <2>2. /\ To(fan).curve = CurveText(fan.curve) /\ To(fan).mapping = MappingText(fan.mapping)
        /\ To(fan).start = fan.start /\ To(fan).sensor = fan.sensor
    BY <2>1, ToIs
  <2>3. rpm_to_pwm_from(To(fan).mapping) = fan.mapping BY <2>1, <2>2, MappingBack
  <2>4. temp_to_rpm_from(fan.mapping, To(fan).curve) = {fan.curve}
    BY <1>1, <2>1, <2>2, CurveBack
  <2>5. Clamped(To(fan).start) = fan.start
    BY <2>1, <2>2, FanConfigAssumption, ClampedIs
  <2>6. (IF present THEN To(fan).sensor ELSE Nothing) = fan.sensor BY <1>1, <2>2
  <2>7. From(To(fan)) =
          {[curve |-> c, mapping |-> fan.mapping, start |-> fan.start, sensor |-> fan.sensor] :
             c \in {fan.curve}}
    BY <2>3, <2>4, <2>5, <2>6, Zenon DEF From
  <2>. QED BY <2>1, <2>7
<1>2. ConfInv => LoadsBack BY <1>1 DEF ConfInv, LoadsBack
<1>. QED BY <1>2, ConfInvariant, PTL

\* No save loses a point from 0 °C up, or the sensor, of an entry that was read with
\* its mapping and its sensor there (Fan.cpp:376, 465; Controller.cpp:377).
THEOREM EntryKeptTheorem == Spec => EntryKept
<1>. DEFINE Kept == file' = To(fan') /\ held =>
              /\ {t \in Temps(file.curve) : t >= 0} \subseteq Temps(file'.curve)
              /\ file'.sensor = file.sensor
<1>1. ASSUME ConfInv, [Next]_vars PROVE [Kept]_vars
  <2>. SUFFICES ASSUME file' = To(fan'), held
                PROVE  /\ {t \in Temps(file.curve) : t >= 0} \subseteq Temps(file'.curve)
                       /\ file'.sensor = file.sensor
    OBVIOUS
  <2>1. /\ file.sensor = fan.sensor
        /\ {t \in Temps(file.curve) : t >= 0} \subseteq Temps(CurveText(fan.curve))
    BY <1>1 DEF ConfInv, HeldInv
  <2>2. CASE file' = file BY <2>2
  <2>3. CASE fan.curve' = fan.curve /\ fan.sensor' = fan.sensor BY <2>1, <2>3 DEF To
  <2>4. file' = file \/ (fan.curve' = fan.curve /\ fan.sensor' = fan.sensor)
    <3>1. CASE Test
      <4>1. PICK r \in Measured : fan' = [fan EXCEPT !.mapping = r.mapping, !.start = r.start]
        BY <3>1 DEF Test
      <4>. QED BY <1>1, <4>1 DEF ConfInv, TypeInv
    <3>2. CASE EditCurve \/ EditMapping \/ SensorComesOrGoes \/ SaveAll
      BY <3>2 DEF EditCurve, EditMapping, SensorComesOrGoes, SaveAll
    <3>3. CASE Load \/ UNCHANGED vars BY <3>3 DEF Load, vars
    <3>. QED BY <1>1, <3>1, <3>2, <3>3 DEF Next
  <2>. QED BY <2>2, <2>3, <2>4
<1>2. ConfInv /\ [Next]_vars => [Kept]_vars BY <1>1
<1>. QED BY <1>2, ConfInvariant, PTL DEF Spec, EntryKept
=============================================================================
