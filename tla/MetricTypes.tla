---------------------------- MODULE MetricTypes ----------------------------
(***************************************************************************)
(* What a gauge, a meter and a counter make of the messages for one key    *)
(* (metric.c): record, called by workers, and sample, called by a backend. *)
(* Each runs under the metric's spinlock, so it is one step.  Values are   *)
(* integers; a histogram is in module Histogram.                           *)
(***************************************************************************)
EXTENDS Integers, Sequences, Functions

CONSTANTS
  Value,        \* values of messages
  Freq,         \* their sample_freq, 1 / rate
  MaxRecords,   \* bounds: messages and samples
  MaxSamples

VARIABLES
  type,            \* metric->type
  value, previous, \* metric->as
  emitted,         \* history: what the samples reported, in order
  log              \* history: the messages recorded

vars == <<type, value, previous, emitted, log>>

Total(s) == SumFunction(s)

Init ==
  /\ type \in {"gauge", "meter", "counter", "histogram"}
  /\ value = 0 /\ previous = 0
  /\ emitted = <<>> /\ log = <<>>

Logged(v, f, relative) ==
  /\ Len(log) < MaxRecords
  /\ log' = Append(log, [v |-> v, f |-> f, relative |-> relative])
  /\ UNCHANGED <<type, emitted>>

GaugeRecord(v, f, relative) ==
  /\ type = "gauge"
  /\ value' = IF relative THEN value + v ELSE v
  /\ Logged(v, f, relative)
  /\ UNCHANGED previous

(* Mutant: the rate is applied to the running total. *)
UpsampledTotal(v, f) == (value + v) * f - value
Upsampled(v, f) == v * f

MeterRecord(v, f, relative) ==
  /\ type = "meter"
  /\ value' = value + Upsampled(v, f)
  /\ Logged(v, f, relative)
  /\ UNCHANGED previous

(* What a reading adds: nothing for the first, the whole reading after a reset.
   A reading of 0 cannot be told from none.  Mutant: a reset is taken for none. *)
IncreaseOnly(reading) == IF previous > 0 /\ reading >= previous THEN reading - previous ELSE 0
Increase(reading) ==
  IF previous > 0 THEN (IF reading >= previous THEN reading - previous ELSE reading) ELSE 0

CounterRecord(v, f, relative) ==
  /\ type = "counter"
  /\ value' = value + Increase(Upsampled(v, f))
  /\ previous' = Upsampled(v, f)
  /\ Logged(v, f, relative)

(* What a sample leaves: a gauge keeps its value.  Mutant: it is reset too. *)
ResetAlways == 0
AfterSample == IF type = "gauge" THEN value ELSE 0

Sample ==
  /\ type # "histogram"
  /\ Len(emitted) < MaxSamples
  /\ emitted' = Append(emitted, value)
  /\ value' = AfterSample
  /\ UNCHANGED <<type, previous, log>>

Next ==
  \/ \E v \in Value, f \in Freq, relative \in BOOLEAN :
       GaugeRecord(v, f, relative) \/ MeterRecord(v, f, relative) \/ CounterRecord(v, f, relative)
  \/ Sample

Spec == Init /\ [][Next]_vars
-----------------------------------------------------------------------------
(* The sum of the values from the last absolute one on. *)
Values   == [n \in DOMAIN log |-> log[n].v]
Absolute == {n \in DOMAIN log : ~log[n].relative}
Follows ==
  \E first \in Absolute \cup {1} :
    /\ \A n \in Absolute : n <= first
    /\ value = SumFunctionOnSet(Values, first .. Len(log))

(* The sum of the values reported and held, each multiplied by its frequency. *)
Readings == [n \in DOMAIN log |-> log[n].v * log[n].f]
Conserves == Total(emitted) + value = Total(Readings)

(* The rises of the readings: to each peak, the first time from the first reading. *)
Peaks == {n \in DOMAIN log : n = Len(log) \/ Readings[n + 1] < Readings[n]}
Rises ==
  LET rise  == SumFunctionOnSet(Readings, Peaks) - Readings[1]
      total == Total(emitted) + value IN
  log # <<>> =>
    /\ (\A n \in DOMAIN log : Readings[n] >= 0) => total <= rise
    /\ (\A n \in DOMAIN log : Readings[n] > 0)  => total = rise
=============================================================================
