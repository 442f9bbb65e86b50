---------------------------- MODULE MCMetricStore ----------------------------
(* Instances of MetricStore for TLC. *)
EXTENDS MetricStore, TLC

CONSTANTS w1, w2, k1, k2, b1

OneBackend  == [k \in Key |-> b1]
(* Workers are interchangeable and, with one backend, so are client keys. *)
WorkerKeySymmetry == Permutations(Worker) \cup Permutations(ClientKey)
=============================================================================
