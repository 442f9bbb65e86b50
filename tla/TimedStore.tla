----------------------------- MODULE TimedStore -----------------------------
(***************************************************************************)
(* The metric store of a server whose expire period is at least twice the  *)
(* frequency of its backends, without HTTP clients and without dumps.      *)
(***************************************************************************)
EXTENDS MetricStore

VARIABLE ticked  \* has a backend begun and done a tick since the last sweep?

TimedInit == Init /\ ticked = [b \in Backend |-> "no"]

Workers == (\E w \in Worker : WorkerStep(w)) /\ UNCHANGED ticked

Ticks(b) ==
  \/ TickBegin(b) /\ ticked' = [ticked EXCEPT ![b] = IF @ = "no" THEN "begun" ELSE @]
  \/ (WalkCheck(b) \/ MetricSample(b)) /\ UNCHANGED ticked
  \/ TickEnd(b) /\ ticked' = [ticked EXCEPT ![b] = IF @ = "begun" THEN "done" ELSE @]

TickSkipped(b) == TickNotConnected(b) /\ ticked' = [ticked EXCEPT ![b] = "done"]

(* Every backend began and ended a tick, or failed to connect, since the last sweep. *)
TimedSweepBegin == (\A b \in Backend : ticked[b] = "done") /\ SweepBegin /\ UNCHANGED ticked

Sweeps ==
  \/ TimedSweepBegin
  \/ (SweepStore \/ \E m \in todo : SweepLoad(m)) /\ UNCHANGED ticked
  \/ SweepEnd /\ ticked' = [b \in Backend |-> "no"]

(* Carbon always accepts the connection ... *)
SteadyNext == Workers \/ Sweeps \/ \E b \in Backend : Ticks(b)

SteadySpec == TimedInit /\ [][SteadyNext]_<<vars, ticked>>

(* ... or may refuse it. *)
OutageNext == SteadyNext \/ \E b \in Backend : TickSkipped(b)

OutageSpec == TimedInit /\ [][OutageNext]_<<vars, ticked>>
-----------------------------------------------------------------------------
(* server.c, expire_metric: "turn inactive into disabled and active into
   inactive": a sweep lowers the flag of a metric by one, whatever workers do
   to it in the meantime. *)
SweepLowersByOne == [][SweepStore => expire'[swept] = expire[swept] - 1]_vars

(* internal_sampler.c: sampling marks the internal metric as active "so it
   doesn't get disabled by the inactive metrics pruner". *)
InternalStaysEnabled == expire[InternalMetric] > BRUBECK_EXPIRE_DISABLED
=============================================================================
