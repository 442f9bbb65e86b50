----------------------------- MODULE Aggregator -----------------------------
(***************************************************************************)
(* What the metric store promises to its users, without threads, tables or *)
(* queues: an amount recorded for a key is added to what is pending for    *)
(* it, in one step, and a sample takes all that is pending at once.        *)
(***************************************************************************)
EXTENDS Naturals

CONSTANTS Key, Amount

VARIABLES recorded, pending, emitted

vars == <<recorded, pending, emitted>>

Init ==
  /\ recorded = [k \in Key |-> 0]
  /\ pending = [k \in Key |-> 0]
  /\ emitted = [k \in Key |-> 0]

Record(k, v) ==
  /\ recorded' = [recorded EXCEPT ![k] = @ + v]
  /\ pending' = [pending EXCEPT ![k] = @ + v]
  /\ UNCHANGED emitted

Emit(k) ==
  /\ pending[k] > 0
  /\ emitted' = [emitted EXCEPT ![k] = @ + pending[k]]
  /\ pending' = [pending EXCEPT ![k] = 0]
  /\ UNCHANGED recorded

Next == \E k \in Key : Emit(k) \/ \E v \in Amount : Record(k, v)

Spec == Init /\ [][Next]_vars
=============================================================================
