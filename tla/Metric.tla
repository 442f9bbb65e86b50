------------------------------- MODULE Metric -------------------------------
(***************************************************************************)
(* One metric (metric.c): its type is fixed when it is created and selects *)
(* the record and the sample function that the workers and the backend     *)
(* call on it.                                                             *)
(***************************************************************************)
EXTENDS Histogram, Integers

CONSTANTS
  SignedValue, WholeFreq,    \* values and frequencies of messages that are no histogram's
  MaxRecords, MaxSamples     \* bounds: messages for such a metric and samples of it

ASSUME MetricAssumption ==
  SignedValue \subseteq Int /\ WholeFreq \subseteq Nat \ {0} /\ MaxRecords \in Nat /\ MaxSamples \in Nat

VARIABLES type, value, previous, emitted, log

Simple == INSTANCE MetricTypes WITH Value <- SignedValue, Freq <- WholeFreq

simpleVars == <<type, value, previous, emitted, log>>
allVars == <<vars, simpleVars>>

MetricInit == Init /\ Simple!Init

(* brubeck_metric_record and brubeck_metric_sample, through _prototypes; a timer
   is a histogram. *)
MetricNext ==
  \/ type = "histogram" /\ Next /\ UNCHANGED simpleVars
  \/ type # "histogram" /\ Simple!Next /\ UNCHANGED vars

MetricSpec == MetricInit /\ [][MetricNext]_allVars
-----------------------------------------------------------------------------
(* A gauge stands at the last absolute value plus every relative one after it,
   whatever rates they came with and however often it was sampled meanwhile. *)
GaugeFollowsUpdates == type = "gauge" => Simple!Follows

(* What a meter reported and what it holds is the sum of the values, each
   multiplied by its own frequency. *)
MeterConserves == type = "meter" => Simple!Conserves

(* With readings that never go below 0, a counter reports no more than the counter
   it follows went up: up to each peak, then from 0 again.  It reports all of it
   when no reading is 0. *)
CounterTotal == type = "counter" => Simple!Rises
=============================================================================
