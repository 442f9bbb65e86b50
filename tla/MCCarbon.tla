------------------------------ MODULE MCCarbon ------------------------------
(* Instance of Carbon for TLC: every third double of a small format, the smallest and
   largest exponents and ties in both directions among them, is printed and sampled by
   a plain text backend, the negative ones with one mantissa only; the pickle protocol
   does not depend on the value. *)
EXTENDS PlainText

Values ==
  {d \in Double : IF d.neg THEN d.mantissa = Pow(2, DoubleBits) - 1 ELSE d.mantissa % 3 = 1}
TickTime == 1234
LineRests ==
  [d \in Values |-> TextLength(brubeck_ftoa(ToFloat(d))) + Len(brubeck_itoa(TickTime)) + 3]

MCInit == Init /\ (pickle => value = CHOOSE d \in Values : TRUE)
MCSpec == MCInit /\ [][Next]_vars
=============================================================================
