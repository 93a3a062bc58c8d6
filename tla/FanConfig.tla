------------------------------ MODULE FanConfig ------------------------------
(* The configuration of one fan: its entry in the file, what Fan::from makes  *)
(* of it, what a test changes, and what Fan::to writes back                   *)
(* (src/fan/Fan.cpp). A text is the sequence of the items in it.              *)
EXTENDS Integers, Sequences, FiniteSets, FiniteSetsExt, Functions

CONSTANTS
  PwmMax,     \* PWM_MAX
  IntMax,     \* the largest number from_string takes
  Curves,     \* temp_to_rpm as users write it: [temp, fahrenheit, value, unit]
  Mappings,   \* rpm_to_pwm as users write it: [rpm, pwm]
  Starts,     \* start_pwm as users write it
  Measured,   \* what a test may find: [mapping, start]
  MaxEvents   \* bound: edits, tests and changes of the sensors

Nothing == ""   \* no unit, no sensor
Units == {Nothing, "%", "PWM"}
Sensors == {Nothing, "sensor"}
Items == [temp : Int, fahrenheit : BOOLEAN, value : Nat, unit : Units]
Pairs == [rpm : Nat, pwm : Nat]
\* rpm_to_pwm; the number of its entries is one an int can be.
IsMapping(m) ==
  /\ DOMAIN m \subseteq 0 .. IntMax /\ m \in [DOMAIN m -> 0 .. PwmMax]
  /\ Cardinality(DOMAIN m) <= IntMax

ASSUME FanConfigAssumption ==
  /\ PwmMax \in Nat /\ IntMax \in Nat /\ MaxEvents \in Nat /\ Starts \subseteq Nat
  /\ Curves \subseteq Seq(Items)
  /\ Mappings \subseteq Seq(Pairs) /\ \A m \in Mappings : Len(m) <= IntMax
  /\ \A r \in Measured : IsMapping(r.mapping) /\ r.start \in 0 .. PwmMax

VARIABLES
  file,     \* the fan's entry: [curve, mapping, start, sensor]
  fan,      \* the Fan object: the same, as maps
  present,  \* the sensor is enumerated; one of NVIDIA is not before nv_init
  held,     \* history variable: the Fan was made of the whole entry
  events
vars == <<file, fan, present, held, events>>

Empty == [curve |-> <<>>, mapping |-> <<>>, start |-> 0, sensor |-> Nothing]

-----------------------------------------------------------------------------
(* percent_to_rpm, pwm_to_rpm                                                 *)

Top(m) == Max(DOMAIN m)
LowestRunning(m) ==
  LET rpms == DOMAIN m \ (IF Cardinality(DOMAIN m) > 1 THEN {0} ELSE {}) IN Min(rpms)
\* Faulty variant: the text is trusted.
Trusted(p) == p
Clamped(p) == Min({p, PwmMax})

\* Faulty variant: the lowest running speed is counted for 1 % only.
PercentOfRange(m, p) ==
  LET q == Min({p, 100}) IN
  IF q = 0 THEN 0 ELSE IF q = 1 THEN LowestRunning(m)
  ELSE (q \div 100) * (Top(m) - LowestRunning(m))

\* The division is one of integers: 2 % to 99 % are the lowest running speed.
percent_to_rpm(m, p) ==
  LET q == Min({p, 100}) IN
  IF q = 0 THEN 0 ELSE IF q = 1 THEN LowestRunning(m)
  ELSE (q \div 100) * (Top(m) - LowestRunning(m)) + LowestRunning(m)

\* What it may return: below the first PWM the element before the first is read,
\* the end of the map, whose bytes are the number of entries.
pwm_to_rpm(m, p) ==
  LET q == Clamped(p)
      reach == {r \in DOMAIN m : m[r] >= q}
      it == Min(reach)
      last == Max({r \in DOMAIN m : r < it})
  IN IF reach = {} THEN {Top(m)}
     ELSE IF m[it] = q THEN {it}
     ELSE IF it = Min(DOMAIN m) THEN {it, Cardinality(DOMAIN m)}
     ELSE IF last = Min(DOMAIN m) \/ m[it] - q < q - m[last] THEN {it} ELSE {last}

-----------------------------------------------------------------------------
(* temp_to_rpm_from, rpm_to_pwm_from                                          *)

\* The pattern of a number has no sign.
Digits(n) == IF n < 0 THEN -n ELSE n
Truncated(a, b) == IF a >= 0 THEN a \div b ELSE -((-a) \div b)
Celsius(item) == LET t == Digits(item.temp) IN
  IF item.fahrenheit THEN Truncated(5 * (t - 32), 9) ELSE t
Demands(m, item) ==
  CASE item.unit = "%" -> {percent_to_rpm(m, item.value)}
    [] item.unit = "PWM" -> pwm_to_rpm(m, item.value)
    [] OTHER -> {item.value}
Readable(text) == {k \in DOMAIN text : Digits(text[k].temp) <= IntMax /\ text[k].value <= IntMax}

\* The last item of a temperature counts.
LastFor(text, t) == text[Max({k \in Readable(text) : Celsius(text[k]) = t})]
Temps(text) == {Celsius(text[k]) : k \in Readable(text)}
\* Nothing is read for a fan that is not tested.
temp_to_rpm_from(m, text) ==
  IF m = <<>> THEN {<<>>}
  ELSE LET at == [t \in Temps(text) |-> Demands(m, LastFor(text, t))]
       IN {c \in [DOMAIN at -> UNION Range(at)] : \A t \in DOMAIN at : c[t] \in at[t]}

Speeds(text) == {text[k].rpm : k \in {j \in DOMAIN text : text[j].rpm <= IntMax}}
rpm_to_pwm_from(text) ==
  [r \in Speeds(text) |-> Clamped(text[Max({k \in DOMAIN text : text[k].rpm = r})].pwm)]

-----------------------------------------------------------------------------
(* from, to                                                                   *)

\* What Fan::from may make of an entry: the sensor is one that is enumerated.
From(e) ==
  LET m == rpm_to_pwm_from(e.mapping) IN
  {[curve |-> c, mapping |-> m, start |-> Clamped(e.start),
    sensor |-> IF present THEN e.sensor ELSE Nothing] : c \in temp_to_rpm_from(m, e.curve)}

\* Fan::to with map_str: the keys rise, speeds are absolute, temperatures in °C.
Ascending(f) ==
  [k \in 1 .. Cardinality(DOMAIN f) |->
     CHOOSE x \in DOMAIN f : Cardinality({y \in DOMAIN f : y <= x}) = k]
\* Faulty variant: the unit of the user's text is written beside the speed.
CurveTextPercent(c) == [k \in DOMAIN Ascending(c) |->
  [temp |-> Ascending(c)[k], fahrenheit |-> FALSE, value |-> c[Ascending(c)[k]], unit |-> "%"]]
CurveText(c) == [k \in DOMAIN Ascending(c) |->
  [temp |-> Ascending(c)[k], fahrenheit |-> FALSE, value |-> c[Ascending(c)[k]], unit |-> Nothing]]
MappingText(m) == [k \in DOMAIN Ascending(m) |->
  [rpm |-> Ascending(m)[k], pwm |-> m[Ascending(m)[k]]]]
To(f) == [curve |-> CurveText(f.curve), mapping |-> MappingText(f.mapping),
          start |-> f.start, sensor |-> f.sensor]

-----------------------------------------------------------------------------
Init == /\ file = Empty /\ fan = Empty /\ held = TRUE
        /\ present \in BOOLEAN /\ events = 0

Event == events < MaxEvents /\ events' = events + 1

EditCurve == /\ Event
             /\ \E c \in Curves : file' = [file EXCEPT !.curve = c, !.sensor = "sensor"]
             /\ held' = FALSE /\ UNCHANGED <<fan, present>>
EditMapping == /\ Event
               /\ \E m \in Mappings, s \in Starts :
                    file' = [file EXCEPT !.mapping = m, !.start = s]
               /\ held' = FALSE /\ UNCHANGED <<fan, present>>
SensorComesOrGoes == Event /\ present' = ~present /\ UNCHANGED <<file, fan, held>>

\* A reload, or the start of the service. An equal fan is kept, which is the same.
Load == /\ \E f \in From(file) : fan' = f
        /\ held' = (fan'.mapping # <<>> /\ fan'.sensor = file.sensor)
        /\ UNCHANGED <<file, present, events>>

Save(f) == file' = To(f) /\ held' = TRUE

\* Faulty variant: a test starts from a new Fan.
TestAnew == /\ Event
            /\ \E r \in Measured :
                 fan' = [Empty EXCEPT !.mapping = r.mapping, !.start = r.start]
            /\ \/ Save(fan')
               \/ UNCHANGED <<file, held>>
            /\ UNCHANGED present

\* The test gives a new mapping and start; the curve stays what it was. The file
\* is written, unless another fan's test still runs.
Test == /\ Event
        /\ \E r \in Measured :
             fan' = [fan EXCEPT !.mapping = r.mapping, !.start = r.start]
        /\ \/ Save(fan')
           \/ UNCHANGED <<file, held>>
        /\ UNCHANGED present

\* The end of another fan's test, or set_devices.
SaveAll == Save(fan) /\ UNCHANGED <<fan, present, events>>

Next == EditCurve \/ EditMapping \/ SensorComesOrGoes \/ Load \/ Test \/ SaveAll
Spec == Init /\ [][Next]_vars

-----------------------------------------------------------------------------
FanConfigTypeOK ==
  /\ file \in [curve : Seq(Items), mapping : Seq(Pairs), start : Nat, sensor : Sensors]
  /\ DOMAIN fan = DOMAIN file /\ IsMapping(fan.mapping)
  /\ DOMAIN fan.curve \subseteq Int /\ fan.curve \in [DOMAIN fan.curve -> 0 .. IntMax]
  /\ fan.start \in 0 .. PwmMax /\ fan.sensor \in Sensors
  /\ present \in BOOLEAN /\ held \in BOOLEAN /\ events \in 0 .. MaxEvents

\* What a save writes of a tested fan is read back as the very same fan, so a
\* reload after a test does not replace it, and no save or restart moves a
\* demand (Fan.cpp:463-489). Not so below 0 °C: the sign is written and not read.
LoadsBack ==
  fan.mapping # <<>> /\ (\A t \in DOMAIN fan.curve : t >= 0)
    /\ (present \/ fan.sensor = Nothing) => From(To(fan)) = {fan}

\* A curve that rises in one unit is made into demands that rise, whatever the
\* mapping, for PWMs from the first one up (Fan.cpp:324-422).
Rises(f) == \A a, b \in DOMAIN f : a < b => f[a] <= f[b]
RisingText(m, text) ==
  /\ \A i, j \in DOMAIN text : i < j =>
       /\ text[i].temp < text[j].temp /\ text[i].value <= text[j].value
       /\ text[i].unit = text[j].unit /\ text[i].fahrenheit = text[j].fahrenheit
  /\ \A i \in DOMAIN text :
       /\ text[i].temp >= 0
       /\ text[i].unit = "PWM" => m # <<>> /\ text[i].value >= Min(Range(m))
RisingCurve ==
  LET m == rpm_to_pwm_from(file.mapping) IN
  RisingText(m, file.curve) /\ Rises(m) => \A f \in From(file) : Rises(f.curve)

\* A save keeps every point from 0 °C up, and the sensor, of an entry that was
\* read whole: with its mapping and its sensor there. An entry read without, or
\* not yet, is overwritten by what was read (Fan.cpp:376, 465; Controller.cpp:377).
EntryKept ==
  [][file' = To(fan') /\ held =>
       /\ {t \in Temps(file.curve) : t >= 0} \subseteq Temps(file'.curve)
       /\ file'.sensor = file.sensor]_vars
=============================================================================
