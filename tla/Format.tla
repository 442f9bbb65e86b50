------------------------------- MODULE Format -------------------------------
(***************************************************************************)
(* How a number of a plain text line is printed: brubeck_itoa of utils.c   *)
(* for the timestamp, brubeck_ftoa for the value, after its conversion     *)
(* from double to float.  The widths of the code's types are constants; a  *)
(* text is a record of its sign and its digits.                            *)
(***************************************************************************)
EXTENDS Decimals

CONSTANTS
  DoubleBits,    \* mantissa of a double, the hidden bit included: 53
  MantissaBits,  \* the same of a float: 24
  LongBits,      \* of uint64_t
  IntBits,       \* of uint32_t, the parameter of brubeck_itoa
  Tiny,          \* an exponent below -Tiny is printed as 0: 36
  MaxExp         \* largest exponent: 128, of infinities and NaNs

FLOAT_PRECISION == 4

(* What makes the arithmetic of the code right: ten times a fraction fits, what is
   printed as 0 has no digit to print, and a number with a fraction fits an int. *)
ASSUME WidthAssumption ==
  /\ MantissaBits \in Nat \ {0} /\ LongBits \in Nat
  /\ MaxExp \in Nat /\ LongBits <= MaxExp
  /\ DoubleBits \in Nat /\ MantissaBits < DoubleBits
  /\ IntBits \in Nat /\ IntBits <= LongBits /\ MantissaBits <= IntBits
  /\ MantissaBits + Tiny - 1 + 4 <= LongBits
  /\ Tiny \in Nat /\ Pow(10, FLOAT_PRECISION) <= Pow(2, Tiny)

(* The bit patterns: exp2 is unbiased, zero and all that is smaller than the rest have
   the smallest one. *)
Float == [neg : BOOLEAN, exp2 : (0 - Tiny - 2) .. MaxExp,
          mantissa : Pow(2, MantissaBits - 1) .. Pow(2, MantissaBits) - 1]

(* value_t; the largest exponent is that of all doubles above the floats. *)
Double == [neg : BOOLEAN, exp2 : (0 - Tiny - 3) .. (MaxExp + 1),
           mantissa : Pow(2, DoubleBits - 1) .. Pow(2, DoubleBits) - 1]

(* A double is given to brubeck_ftoa as the nearest float, of two the even one; what is
   too large becomes an infinity. *)
Unit == Pow(2, DoubleBits - MantissaBits)
Nearest(mantissa) ==
  LET low  == mantissa \div Unit
      rest == mantissa % Unit IN
  IF 2 * rest > Unit \/ (2 * rest = Unit /\ low % 2 = 1) THEN low + 1 ELSE low

ToFloat(d) ==
  LET least == Pow(2, MantissaBits - 1)
      m     == Nearest(d.mantissa) IN
  CASE d.exp2 < 0 - Tiny - 2 -> [neg |-> d.neg, exp2 |-> 0 - Tiny - 2, mantissa |-> least]
    [] d.exp2 >= MaxExp -> [neg |-> d.neg, exp2 |-> MaxExp, mantissa |-> least]
    [] d.exp2 >= 0 - Tiny - 2 /\ d.exp2 < MaxExp ->
         IF m = Pow(2, MantissaBits)
           THEN [neg |-> d.neg, exp2 |-> d.exp2 + 1, mantissa |-> least]
           ELSE [neg |-> d.neg, exp2 |-> d.exp2, mantissa |-> m]

(* The loop of brubeck_itoa, lowest digit first, and the loop that swaps the ends. *)
LowDigits[n \in Nat] == <<n % 10>> \o (IF n < 10 THEN <<>> ELSE LowDigits[n \div 10])
Swapped(s) == [i \in 1 .. Len(s) |-> s[Len(s) - i + 1]]
brubeck_itoa(number) == Swapped(LowDigits[number % Pow(2, IntBits)])

(* int_part and frac_part; the fraction is in units of 2 ^ -scale. *)
IntPart(f) ==
  CASE f.exp2 >= LongBits -> Pow(2, LongBits) - 1
    [] f.exp2 >= MantissaBits - 1 /\ f.exp2 < LongBits ->
         f.mantissa * Pow(2, f.exp2 - MantissaBits + 1)
    [] f.exp2 >= 0 /\ f.exp2 < MantissaBits - 1 ->
         f.mantissa \div Pow(2, MantissaBits - 1 - f.exp2)
    [] f.exp2 < 0 -> 0

Scale(f) == MantissaBits - 1 - f.exp2

FracPart(f) ==
  IF f.exp2 >= MantissaBits - 1 THEN 0 ELSE f.mantissa % Pow(2, Scale(f))

(* The digits of frac / 2 ^ scale, one per turn: times ten, the carry is the digit.
   Mutant: the next turn starts from the product with its carry. *)
TimesTen(frac) == (10 * frac) % Pow(2, LongBits)
CarryKept(product, scale) == product
NextFrac(product, scale) == product % Pow(2, scale)

FracDigits(frac, scale) ==
  LET left[m \in 0 .. FLOAT_PRECISION] ==
        IF m = 0 THEN frac ELSE NextFrac(TimesTen(left[m - 1]), scale)
  IN [m \in 1 .. FLOAT_PRECISION |-> TimesTen(left[m - 1]) \div Pow(2, scale)]

(* Trailing zeros are dropped, and the point after them (an empty fraction). *)
Trimmed(digits) ==
  LET last == CHOOSE n \in 0 .. Len(digits) :
                /\ \A i \in n + 1 .. Len(digits) : digits[i] = 0
                /\ n = 0 \/ digits[n] # 0
  IN SubSeq(digits, 1, last)

brubeck_ftoa(f) ==
  IF f.exp2 < -Tiny THEN [neg |-> f.neg, int |-> <<0>>, frac |-> <<>>]
  ELSE [neg  |-> f.neg,
        int  |-> IF IntPart(f) = 0 THEN <<0>> ELSE brubeck_itoa(IntPart(f)),
        frac |-> IF FracPart(f) = 0 THEN <<>> ELSE Trimmed(FracDigits(FracPart(f), Scale(f)))]

TextLength(t) ==
  (IF t.neg THEN 1 ELSE 0) + Len(t.int) + (IF t.frac = <<>> THEN 0 ELSE 1 + Len(t.frac))
-----------------------------------------------------------------------------
(* What a reader of the text makes of it, in units of 10 ^ -FLOAT_PRECISION. *)
Read(t) == Decimal(t.int \o t.frac) * Pow(10, FLOAT_PRECISION - Len(t.frac))

(* A float is printed cut to four decimals, in canonical form; a whole number loses the
   bits that do not fit the unsigned int of brubeck_itoa, and from 2^LongBits on, the
   infinities included, all print as the largest unsigned int. *)
Truncated(f) ==
  LET t == brubeck_ftoa(f)
      n == Read(t) IN
  /\ Scale(f) >= 0 =>
       /\ n * Pow(2, Scale(f)) <= f.mantissa * Pow(10, FLOAT_PRECISION)
       /\ f.mantissa * Pow(10, FLOAT_PRECISION) < (n + 1) * Pow(2, Scale(f))
  /\ Scale(f) < 0 /\ f.exp2 < LongBits =>
       /\ t.frac = <<>>
       /\ Decimal(t.int) = (f.mantissa * Pow(2, - Scale(f))) % Pow(2, IntBits)
  /\ f.exp2 >= LongBits => t.frac = <<>> /\ Decimal(t.int) = Pow(2, IntBits) - 1
  /\ Len(t.int) > 1 => Head(t.int) # 0
  /\ t.frac # <<>> => t.frac[Len(t.frac)] # 0

(* What is printed for a double with a fraction is at most half a unit of the float
   above it, and less than that and 0.0001 below it. *)
Close(d) == d.exp2 < MantissaBits - 1 =>
  LET n    == Read(brubeck_ftoa(ToFloat(d)))
      half == Pow(2, DoubleBits - MantissaBits - 1)
      one  == Pow(2, DoubleBits - 1 - d.exp2) IN
  /\ n * one <= (d.mantissa + half) * Pow(10, FLOAT_PRECISION)
  /\ (d.mantissa - half) * Pow(10, FLOAT_PRECISION) < (n + 1) * one
=============================================================================
