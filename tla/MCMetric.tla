------------------------------ MODULE MCMetric ------------------------------
EXTENDS Metric

(* Values that go up, down, through 0 and below it. *)
MCSignedValue == {-1, 0, 1, 3}
=============================================================================
