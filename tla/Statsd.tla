------------------------------- MODULE Statsd -------------------------------
(***************************************************************************)
(* A worker of the statsd sampler (samplers/statsd.c) and its receive      *)
(* buffers.  With "multimsg" > 1, recvmmsg fills the first buffers only    *)
(* when fewer datagrams are waiting, and the worker parses all of them.    *)
(***************************************************************************)
EXTENDS StatsdMsg, FiniteSets

CONSTANTS
  Multimsg,      \* values of the "multimsg" setting
  Datagram,      \* for each of them, what clients may send
  Preceding,     \* bytes there may be before a datagram: of malloc's header, or a nonce
  MaxReads       \* and a bound: calls of recvmmsg or recvfrom

ASSUME StatsdAssumption ==
  /\ Multimsg \subseteq Nat \ {0} /\ MaxReads \in [Multimsg -> Nat]
  /\ \A m \in Multimsg : Datagram[m] \subseteq Seq(Char)
  /\ Preceding \subseteq Char

VARIABLES
  SIM_PACKETS,   \* statsd->mmsg_count
  slots,      \* the receive buffers; the length of a text is its msg_len
  i,          \* the buffer to parse next, 0 while receiving
  inflow,     \* sampler->inflow
  metrics, errors,   \* internal_stats.live
  reads,      \* history: successful and failed reads
  fresh,      \* history: the buffers filled by the last read
  sent,       \* history: well-formed messages in the datagrams parsed so far
  parsed      \* history: what the lines of the last buffer parsed gave, by their starts

vars == <<SIM_PACKETS, slots, i, inflow, metrics, errors, reads, fresh, sent, parsed>>

Slot == 1 .. SIM_PACKETS

Init ==
  /\ SIM_PACKETS \in Multimsg
  /\ slots = [n \in Slot |-> <<>>] /\ i = 0
  /\ inflow = 0 /\ metrics = 0 /\ errors = 0
  /\ reads = 0 /\ fresh = 0 /\ sent = 0 /\ parsed = <<>>
-----------------------------------------------------------------------------
(* recvmmsg with MSG_WAITFORONE: at least one datagram, at most one per buffer. *)
RecvMmsg(ds) ==
  /\ SIM_PACKETS > 1
  /\ i = 0 /\ reads < MaxReads[SIM_PACKETS]
  /\ slots' = [n \in Slot |-> IF n <= Len(ds) THEN ds[n] ELSE slots[n]]
  /\ inflow' = inflow + SIM_PACKETS
  /\ i' = 1 /\ fresh' = Len(ds)
  /\ reads' = reads + 1
  /\ UNCHANGED <<SIM_PACKETS, metrics, errors, sent, parsed>>

RecvFrom(d) ==
  /\ SIM_PACKETS = 1
  /\ i = 0 /\ reads < MaxReads[SIM_PACKETS]
  /\ slots' = [slots EXCEPT ![1] = d]
  /\ inflow' = inflow + 1
  /\ i' = 1 /\ fresh' = 1
  /\ reads' = reads + 1
  /\ UNCHANGED <<SIM_PACKETS, metrics, errors, sent, parsed>>

(* EAGAIN and EINTR are not counted. *)
RecvFails ==
  /\ i = 0 /\ reads < MaxReads[SIM_PACKETS]
  /\ errors' = errors + 1 \/ UNCHANGED errors
  /\ reads' = reads + 1
  /\ UNCHANGED <<SIM_PACKETS, slots, i, inflow, metrics, fresh, sent, parsed>>

(* brubeck_statsd_packet_parse; what the messages do is MetricStore's business.  Before
   every line but the first is the '\0' that the parser wrote over the '\n'. *)
PacketParse(before) ==
  LET starts  == Starts(slots[i])
      results == [b \in starts |-> LineParse(IF b = 1 THEN before ELSE "nul", Line(slots[i], b))]
      good    == {b \in starts : results[b] # <<>>} IN
  /\ i > 0
  /\ metrics' = metrics + Cardinality(good)
  /\ errors' = errors + Cardinality(starts \ good)
  /\ slots' = [slots EXCEPT ![i] = Cut(slots[i])]
  /\ i' = IF i = SIM_PACKETS THEN 0 ELSE i + 1
  /\ parsed' = results
  /\ sent' = sent + (IF i <= fresh THEN Cardinality(good) ELSE 0)
  /\ UNCHANGED <<SIM_PACKETS, inflow, reads, fresh>>

Next ==
  \/ \E n \in Slot : \E ds \in [1 .. n -> Datagram[SIM_PACKETS]] : RecvMmsg(ds)
  \/ \E d \in Datagram[SIM_PACKETS] : RecvFrom(d)
  \/ RecvFails
  \/ \E before \in Preceding : PacketParse(before)

Spec == Init /\ [][Next]_vars
-----------------------------------------------------------------------------
(***************************************************************************)
(* The grammar of a message, stated without a scanner.                     *)
(***************************************************************************)
IsNumber(t) ==
  \E p \in 0 .. 1, q \in 0 .. Len(t) :
    /\ p <= q
    /\ p = 1 => t[1] \in {"-", "+"}
    /\ \A x \in (p + 1) .. q : t[x] \in Digit
    /\ q < Len(t) => t[q + 1] = "."
    /\ \A x \in (q + 2) .. Len(t) : t[x] \in Digit

Digits(t, from) == {x \in from .. Len(t) : t[x] \in Digit}
ScaleOf(t) == IF "." \in Range(t) THEN Cardinality(Digits(t, First(t, 1, {"."}))) ELSE 0
NumberOf(t) ==
  LET abs == SumFunction([x \in Digits(t, 1) |->
                            Digitval(t[x]) * Pow(10, Cardinality(Digits(t, x + 1)))]) IN
  IF t # <<>> /\ t[1] = "-" THEN 0 - abs ELSE abs

Types == {<<"g">>, <<"c">>, <<"C">>, <<"h">>, <<"m", "s">>}

(* key:number|type or key:number|type|@rate, read up to the first '\0' *)
Fits(z, c, b, e) ==
  LET key == SubSeq(z, 1, c - 1)
      rate == SubSeq(z, e + 3, Len(z)) IN
  /\ Range(key) \cap {":", " "} = {} /\ (key # <<>> => key[Len(key)] # ".")
  /\ IsNumber(SubSeq(z, c + 1, b - 1))
  /\ SubSeq(z, b + 1, e) \in Types
  /\ \/ e = Len(z)
     \/ /\ e + 2 <= Len(z) /\ SubSeq(z, e + 1, e + 2) = <<"|", "@">>
        /\ IsNumber(rate)
        /\ 0 < NumberOf(rate) /\ NumberOf(rate) <= Pow(10, ScaleOf(rate))

Readings(s) ==
  LET z == SubSeq(s, 1, First(s, 1, {"nul"}) - 1)
      Places(c) == {n \in DOMAIN z : z[n] = c} IN
  {LET v == SubSeq(z, p[1] + 1, p[2] - 1)
       r == IF p[3] = Len(z) THEN <<"1">> ELSE SubSeq(z, p[3] + 3, Len(z)) IN
   [key |-> SubSeq(z, 1, p[1] - 1), relative |-> v # <<>> /\ v[1] \in {"-", "+"},
    type |-> IF p[3] = p[2] + 2 THEN "ms" ELSE z[p[3]],
    num |-> NumberOf(v), scale |-> ScaleOf(v), rate |-> <<NumberOf(r), ScaleOf(r)>>] :
   p \in {p \in Places(":") \X Places("|") \X DOMAIN z :
            p[1] < p[2] /\ p[2] < p[3] /\ Fits(z, p[1], p[2], p[3])}}

(* Every line of a fresh datagram is accepted exactly when it has a reading, and
   with the key, type, value, modifier and rate of that reading: the scanner
   never runs over the end of a field, whatever surrounds it.  The byte before the
   datagram, which the parser reads when the first key is empty, decides only
   whether that one line is refused. *)
ParserExact ==
  [][0 < i /\ i <= fresh =>
       \A b \in Starts(slots[i]) :
         \/ Readings(Line(slots[i], b)) = Range(parsed'[b])
         \/ b = 1 /\ At(Line(slots[i], b), 1) = ":" /\ parsed'[b] = <<>>]_vars

(* A message is recorded once: parsing a buffer again that recvmmsg did not fill
   never yields a message, because the first parse cut its key off. *)
RecordedOnce == metrics = sent

(* What the worker adds to the errors for a buffer that was not filled: one,
   however many lines the old datagram had. *)
StaleCostsOneError ==
  [][i > fresh => errors' <= errors + 1 /\ Cardinality(DOMAIN parsed') <= 1]_vars
=============================================================================
