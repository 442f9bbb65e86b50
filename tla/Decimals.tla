------------------------------ MODULE Decimals ------------------------------
(***************************************************************************)
(* Powers and decimal digits, as functions recursive in a number.          *)
(***************************************************************************)
EXTENDS Integers, Sequences

Pow(b, n) ==
  LET p[k \in 0 .. n] == IF k = 0 THEN 1 ELSE b * p[k - 1] IN p[n]

(* The number that a sequence of digits stands for. *)
Decimal(ds) ==
  LET v[k \in 0 .. Len(ds)] == IF k = 0 THEN 0 ELSE 10 * v[k - 1] + ds[k] IN v[Len(ds)]
=============================================================================
