----------------------------- MODULE PlainText -----------------------------
(***************************************************************************)
(* The carbon backend together with the texts of the values it sends.      *)
(***************************************************************************)
EXTENDS Carbon, Format

ASSUME ValueAssumption == Value \subseteq Double

(* What a reader makes of the value of a line that plaintext_each writes: the float
   nearest to the sample, cut to four decimals and, from 2^32 on, to 32 bits.  The
   sample itself can be rounded up, by half a unit of the float (99999.999 is sent as
   100000, tests/ftoa.c), never by more. *)
TextCloseToSample ==
  ~pickle /\ bpc = "write" => Truncated(ToFloat(value)) /\ Close(value)
============================================================================
