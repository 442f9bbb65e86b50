----------------------------- MODULE StatsdMsg -----------------------------
(***************************************************************************)
(* The statsd message parser (samplers/statsd.c): what                     *)
(* brubeck_statsd_packet_parse accepts, and what it leaves behind in the   *)
(* buffer, which it cuts into strings in place.  A text is a sequence of   *)
(* characters, where "nl" and "nul" are '\n' and '\0' and                  *)
(* "k" stands for every character without a meaning of its own.            *)
(* The exponents that parse_float leaves to strtod are left out, and       *)
(* numbers are exact: the code's doubles differ in digits beyond the 15th, *)
(* where a rate just above 1 is still rounded to 1 and accepted.           *)
(***************************************************************************)
EXTENDS Decimals, FiniteSetsExt, Functions

Numeral == <<"0", "1", "2", "3", "4", "5", "6", "7", "8", "9">>
Digit == Range(Numeral)
Char == Digit \cup {"k", ".", " ", ":", "-", "+", "|", "g", "c", "C", "h", "m", "s", "@", "nl", "nul"}
Digitval(c) == CHOOSE d \in 0 .. 9 : Numeral[d + 1] = c
At(s, i) == IF i \in DOMAIN s THEN s[i] ELSE "nul"

(* The first position from i on that holds one of cs, or none of them. *)
First(s, i, cs)   == Min({j \in i .. (Len(s) + 1) : At(s, j) \in cs})
SkipAll(s, i, cs) == Min({j \in i .. (Len(s) + 1) : At(s, j) \notin cs})

Number(ds) == Decimal([k \in DOMAIN ds |-> Digitval(ds[k])])

(* parse_float: the value as num / 10^scale, and where the parser stopped. *)
ParseFloat(s, i) ==
  LET sign  == At(s, i) \in {"-", "+"}
      start == IF sign THEN i + 1 ELSE i
      dot   == SkipAll(s, start, Digit)
      stop  == IF At(s, dot) = "." THEN SkipAll(s, dot + 1, Digit) ELSE dot
      frac  == SubSeq(s, dot + 1, stop - 1)
      abs   == Number(SubSeq(s, start, dot - 1) \o frac) IN
  [num |-> IF At(s, i) = "-" THEN 0 - abs ELSE abs, scale |-> Len(frac),
   relative |-> sign, stop |-> stop]

(* The end of the key: the first ':', unless a space or the end comes first. *)
KeyEnd(s) == First(s, 1, {":", " ", "nul"})

(* The key is cut off with a '\0' as soon as it is found.
   Mutant: it is copied, and the buffer left as it is. *)
Uncut(s) == s
AfterParse(s) == IF At(s, KeyEnd(s)) = ":" THEN [s EXCEPT ![KeyEnd(s)] = "nul"] ELSE s

MessageType(s, i) ==
  CASE At(s, i) \in {"g", "c", "C", "h"} -> [type |-> At(s, i), stop |-> i + 1]
    [] At(s, i) = "m" /\ At(s, i + 1) = "s" -> [type |-> "ms", stop |-> i + 2]
    [] OTHER -> [type |-> "none", stop |-> i]

(* Is 0 < rate <= 1, exactly?  Mutant: 0 is let through. *)
RateFromZero(r) == 0 <= r.num /\ r.num <= Pow(10, r.scale)
RateInRange(r) == 0 < r.num /\ r.num <= Pow(10, r.scale)

(* brubeck_statsd_msg_parse of a line, without its '\n', that a '\0' precedes: <<>>
   or the message. *)
MsgParse(s) ==
  LET colon == KeyEnd(s)
      value == ParseFloat(s, colon + 1)
      type  == MessageType(s, value.stop + 1)
      rated == At(s, type.stop) = "|" /\ At(s, type.stop + 1) = "@"
      rate  == IF rated THEN ParseFloat(s, type.stop + 2)
                        ELSE [num |-> 1, scale |-> 0, stop |-> type.stop] IN
  IF /\ At(s, colon) = ":" /\ At(s, colon - 1) # "."
     /\ At(s, value.stop) = "|"
     /\ type.type # "none"
     /\ RateInRange(rate)
     /\ At(s, rate.stop) = "nul"
    THEN <<[key |-> SubSeq(s, 1, colon - 1), type |-> type.type, relative |-> value.relative,
            num |-> value.num, scale |-> value.scale,
            rate |-> <<rate.num, rate.scale>>]>>
    ELSE <<>>

(* The same with any byte before the line: of an empty key, the parser looks at that. *)
LineParse(before, s) == IF before = "." /\ At(s, 1) = ":" THEN <<>> ELSE MsgParse(s)

(* brubeck_statsd_packet_parse: where the lines of a datagram begin, and the line
   that begins at b.  A '\n' at the very end does not begin another line. *)
Starts(s) == {n \in DOMAIN s : n = 1 \/ s[n - 1] = "nl"}
StatEnd(s, b) == Min({n \in b .. (Len(s) + 1) : n = Len(s) + 1 \/ s[n] = "nl"})
Line(s, b) == SubSeq(s, b, StatEnd(s, b) - 1)

(* What is left of the datagram once every line is parsed: the parser writes a '\0'
   over every '\n', and cuts in every line.
   Mutant: the lines are parsed from copies that end in '\0'. *)
CutKeysOnly(s) ==
  [n \in DOMAIN s |-> IF s[n] = ":" THEN "nul" ELSE s[n]]
Cut(s) ==
  [n \in DOMAIN s |->
     LET b == Max({x \in Starts(s) : x <= n}) IN
     IF s[n] = "nl" THEN "nul" ELSE AfterParse(Line(s, b))[n - b + 1]]
============================================================================
