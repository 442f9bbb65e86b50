------------------------------- MODULE Order -------------------------------
(***************************************************************************)
(* qsort, and positions in sorted values.                                  *)
(***************************************************************************)
EXTENDS Naturals, FiniteSets, Functions

Copies(s, v) == Cardinality({i \in DOMAIN s : s[i] = v})
Below(s, v)  == Cardinality({i \in DOMAIN s : s[i] < v})
AtMost(s, v) == Cardinality({i \in DOMAIN s : s[i] <= v})

(* The same values in order. *)
InOrder(t) == \A i, j \in DOMAIN t : i < j => t[i] <= t[j]
Sorted(s)  ==
  CHOOSE t \in [DOMAIN s -> Range(s)] :
    InOrder(t) /\ \A v \in Range(s) : Copies(t, v) = Copies(s, v)
=============================================================================
