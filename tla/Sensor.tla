-------------------------------- MODULE Sensor --------------------------------
(* Sensor::get_average_temp (src/sensor/Sensor.cpp): a history of readings    *)
(* that is made at the first successful one, a cursor into it, the average,   *)
(* and the 200 ms during which the average is not computed again. read_mutex  *)
(* makes each call one step.                                                  *)
EXTENDS Integers, Sequences

CONSTANTS
  Temperatures,  \* temperatures the sensor may read
  Intervals,     \* values the configuration gives temp_averaging_intervals
  IntMod,        \* 2^w for a w-bit int; a size_t has 2w bits
  MaxReads       \* bound: successful readings

ASSUME SensorAssumption ==
  /\ Temperatures \subseteq Int /\ Intervals \subseteq Nat
  /\ IntMod \in Nat \ {0} /\ MaxReads \in Nat

VARIABLES
  temp_averaging_intervals,
  temp_history,
  temp_history_i,
  last_avg_temp,
  fresh,     \* the last call was less than 200 ms ago
  up,        \* the process lives
  readings   \* history variable: the successful readings

sensor_vars == <<temp_averaging_intervals, temp_history, temp_history_i,
                 last_avg_temp, fresh, up, readings>>

SensorInit ==
  /\ temp_averaging_intervals \in Intervals
  /\ temp_history = <<>> /\ temp_history_i = 0 /\ last_avg_temp = 0
  /\ fresh = FALSE /\ up = TRUE
  /\ readings = <<>>

\* The reload of the configuration sets the interval; the history stays.
Configure(n) ==
  /\ up /\ n # temp_averaging_intervals
  /\ temp_averaging_intervals' = n
  /\ UNCHANGED <<temp_history, temp_history_i, last_avg_temp, fresh, up, readings>>

Age ==
  /\ up /\ fresh /\ fresh' = FALSE
  /\ UNCHANGED <<temp_averaging_intervals, temp_history, temp_history_i,
                 last_avg_temp, up, readings>>

-----------------------------------------------------------------------------
\* Sums(s)[k]: std::accumulate after k elements
Sums(s) == LET sum[k \in 0 .. Len(s)] == IF k = 0 THEN 0 ELSE sum[k - 1] + s[k] IN sum
Sum(s) == Sums(s)[Len(s)]
ToInt(x) == LET y == x % IntMod IN IF 2 * y >= IntMod THEN y - IntMod ELSE y

\* The sum is an int, the size a size_t: the division is unsigned.
Average(s) == ToInt((Sum(s) % (IntMod * IntMod)) \div Len(s))

\* The average of the history; of none, the division ends the process.
SetAverage(history) ==
  IF history = <<>>
  THEN up' = FALSE /\ UNCHANGED last_avg_temp
  ELSE UNCHANGED up /\ last_avg_temp' = Average(history)

\* A read while the average is fresh changes nothing.
ReadFails ==
  /\ up /\ ~fresh
  /\ SetAverage(temp_history) /\ fresh' = TRUE
  /\ UNCHANGED <<temp_averaging_intervals, temp_history, temp_history_i, readings>>

Reading(temp) ==
  /\ up /\ ~fresh /\ Len(readings) < MaxReads
  /\ readings' = Append(readings, temp) /\ fresh' = TRUE
  /\ UNCHANGED temp_averaging_intervals

FirstRead(temp) ==
  /\ temp_history = <<>> /\ Reading(temp)
  /\ temp_history' = [k \in 1 .. temp_averaging_intervals |-> temp]
  /\ SetAverage(temp_history')
  /\ UNCHANGED temp_history_i

\* Faulty variant: the cursor stays.
NextReadStays(temp) ==
  /\ temp_history # <<>> /\ temp_history_i < Len(temp_history) /\ Reading(temp)
  /\ temp_history' = [temp_history EXCEPT ![temp_history_i + 1] = temp]
  /\ SetAverage(temp_history')
  /\ UNCHANGED temp_history_i

NextRead(temp) ==
  /\ temp_history # <<>> /\ temp_history_i < Len(temp_history) /\ Reading(temp)
  /\ temp_history' = [temp_history EXCEPT ![temp_history_i + 1] = temp]
  /\ temp_history_i' = temp_history_i + 1
  /\ SetAverage(temp_history')

\* Faulty variant: the cursor does not wrap.
ReadPastEndOn(temp) ==
  /\ temp_history # <<>> /\ temp_history_i = Len(temp_history) /\ Reading(temp)
  /\ temp_history_i' = temp_history_i + 1
  /\ SetAverage(temp_history)
  /\ UNCHANGED temp_history

\* The cursor goes one past the end before it wraps. The write there is lost, or
\* it destroys what lies behind the vector and the process ends.
ReadPastEnd(temp) ==
  /\ temp_history # <<>> /\ temp_history_i = Len(temp_history) /\ Reading(temp)
  /\ temp_history_i' = 0
  /\ \/ SetAverage(temp_history)
     \/ up' = FALSE /\ UNCHANGED last_avg_temp
  /\ UNCHANGED temp_history

SensorNext ==
  \/ \E n \in Intervals : Configure(n)
  \/ Age \/ ReadFails
  \/ \E temp \in Temperatures : FirstRead(temp) \/ NextRead(temp) \/ ReadPastEnd(temp)

SensorSpec == SensorInit /\ [][SensorNext]_sensor_vars

-----------------------------------------------------------------------------
LastReadings(n) ==
  {readings[k] : k \in {j \in 1 .. Len(readings) : j + n > Len(readings)}}
Averaged == up /\ temp_history # <<>>

SensorTypeOK ==
  /\ temp_averaging_intervals \in Intervals
  /\ temp_history \in Seq(Temperatures) /\ temp_history_i \in 0 .. Len(temp_history)
  /\ last_avg_temp \in Int /\ fresh \in BOOLEAN /\ up \in BOOLEAN
  /\ readings \in Seq(Temperatures)

\* A reading is forgotten: although one slot's turn is skipped in every round
\* (Sensor.cpp:14) the average lies among the last Len + 1 readings, so a spike
\* that is over leaves it.
AverageWithinRecent == Averaged =>
  LET recent == LastReadings(Len(temp_history) + 1) IN
  /\ \E t \in recent : t <= last_avg_temp
  /\ \E t \in recent : t >= last_avg_temp
=============================================================================
