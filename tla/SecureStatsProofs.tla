------------------------- MODULE SecureStatsProofs -------------------------
(***************************************************************************)
(* The statsd-secure sampler and the statistics it keeps, for every drift, *)
(* every size of the filters, every width of the counters and any number   *)
(* of datagrams, ticks and requests.                                       *)
(***************************************************************************)
EXTENDS SecureStats, DataLemmas, Integers, TLAPS

LEMMA Division ==
  ASSUME NEW d \in Int, d > 0, NEW a \in Int, NEW q \in Int, NEW r \in Int,
         q = a \div d, r = a % d
  PROVE a = d * q + r
BY Z3

LEMMA Multiples ==
  ASSUME NEW d \in Nat, d > 0, NEW p \in Int, NEW q \in Int
  PROVE /\ d * p \in Int /\ d * q \in Int
        /\ q > p => d * q >= d * p + d
        /\ q <= p => d * q <= d * p
OBVIOUS

LEMMA Remainder ==
  ASSUME NEW d \in Nat, d > 0, NEW a \in Nat PROVE a % d \in 0 .. (d - 1)
OBVIOUS

(* The timestamps of a window of d seconds have different remainders. *)
LEMMA Window ==
  ASSUME NEW d \in Nat, d > 0, NEW a \in Nat, NEW b \in Nat, a < b, b < a + d
  PROVE a % d # b % d
<1> SUFFICES ASSUME a % d = b % d PROVE FALSE
  OBVIOUS
<1> DEFINE p == a \div d
           q == b \div d
           r == a % d
<1>1. p \in Int /\ q \in Int /\ r \in Int /\ p = a \div d /\ q = b \div d /\ r = a % d /\ r = b % d
  OBVIOUS
<1> HIDE DEF p, q, r
<1>2. a = d * p + r /\ b = d * q + r
  BY <1>1, Division
<1>3. /\ d * p \in Int /\ d * q \in Int
      /\ q > p => d * q >= d * p + d
      /\ q <= p => d * q <= d * p
  BY <1>1, Multiples
<1> QED
  BY <1>1, <1>2, <1>3

(* How often a token may have been counted since the clock was last set back, when
   the last datagram came at second n and the filters were fs: not before its second,
   then only if its filter says so, until that filter was reset for second
   timestamp + drift. *)
Counted(n, fs, t) ==
  LET in == IF HashBits(t) \subseteq fs[FilterOf(t.timestamp)] THEN 1 ELSE 0 IN
  IF n < t.timestamp THEN 0
  ELSE IF n < t.timestamp + drift THEN in
  ELSE IF n = t.timestamp + drift THEN in + 1 ELSE 2

(* Until a datagram meets a clock that was set back, none has been counted since. *)
TokenInv(t) ==
  since[t] <= Counted(now, filters, t) /\ (clock < now => since[t] = 0)

Types ==
  /\ clock \in Nat /\ now \in Nat
  /\ filters \in [Filter -> SUBSET (0 .. (bits - 1))]
  /\ added \in [Filter -> SUBSET Token]
  /\ accepted \in [Token -> Nat] /\ since \in [Token -> Nat]

DInv == Types /\ \A t \in Token : TokenInv(t)

LEMMA FilterFacts ==
  ASSUME NEW t \in Token
  PROVE /\ t.timestamp \in Nat /\ FilterOf(t.timestamp) \in Filter
        /\ HashBits(t) \subseteq 0 .. (bits - 1)
<1>1. t.timestamp \in Nat /\ t.ha \in Nat /\ t.hb \in Nat
  BY SecureAssumption
<1>2. t.timestamp % drift \in 0 .. (drift - 1)
  BY <1>1, Remainder, SecureAssumption
<1>3. ASSUME NEW k \in 0 .. (hashes - 1)
      PROVE ((t.ha + k * t.hb) % Word) % bits \in 0 .. (bits - 1)
  <2>1. t.ha + k * t.hb \in Nat
    <3>1. k \in Nat
      BY SecureAssumption
    <3>2. k * t.hb \in Nat
      BY <1>1, <3>1
    <3> QED
      BY <1>1, <3>2
  <2>2. (t.ha + k * t.hb) % Word \in Nat
    BY <2>1, SecureAssumption
  <2> QED
    BY <2>2, Remainder, SecureAssumption
<1> QED
  BY <1>1, <1>2, <1>3 DEF FilterOf, Filter, HashBits

LEMMA CountedType ==
  ASSUME NEW n, NEW fs, NEW t PROVE Counted(n, fs, t) \in 0 .. 2
BY DEF Counted

(* A token that finds more bits set is allowed at least as much. *)
LEMMA CountedGrows ==
  ASSUME NEW n, NEW fs, NEW gs, NEW t,
         fs[FilterOf(t.timestamp)] \subseteq gs[FilterOf(t.timestamp)]
  PROVE Counted(n, fs, t) <= Counted(n, gs, t)
BY DEF Counted

LEMMA ResetType ==
  ASSUME Types PROVE Reset(filters) \in [Filter -> SUBSET (0 .. (bits - 1))]
BY DEF Reset, Types

(* The reset of a new second spares the tokens that may still come again. *)
LEMMA ResetSpares ==
  ASSUME Types, NEW t \in Token, now < clock, t.timestamp <= now, clock < t.timestamp + drift
  PROVE Reset(filters)[FilterOf(t.timestamp)] = filters[FilterOf(t.timestamp)]
<1>1. /\ now \in Nat /\ clock \in Nat /\ t.timestamp \in Nat /\ FilterOf(t.timestamp) \in Filter
      /\ drift \in Nat /\ drift > 0
  BY FilterFacts, SecureAssumption DEF Types
<1>2. clock % drift # t.timestamp % drift
  <2> DEFINE ts == t.timestamp
  <2>1. ts \in Nat /\ ts < clock /\ clock < ts + drift
    BY <1>1
  <2> HIDE DEF ts
  <2>2. ts % drift # clock % drift
    BY <1>1, <2>1, Window
  <2> QED
    BY <2>2 DEF ts
<1> QED
  BY <1>1, <1>2 DEF Reset, FilterOf, Types

(* The allowance once the datagram's second is known and its filter reset. *)
LEMMA AfterReset ==
  ASSUME DInv, NEW t \in Token
  PROVE since[t] <= Counted(clock, Reset(filters), t)
<1>1. /\ now \in Nat /\ clock \in Nat /\ since[t] \in Nat
      /\ t.timestamp \in Nat /\ drift \in Nat /\ drift > 0
  BY FilterFacts, SecureAssumption DEF DInv, Types
<1>2. since[t] <= Counted(now, filters, t) /\ (clock < now => since[t] = 0)
  BY DEF DInv, TokenInv
<1>3. Counted(now, filters, t) \in 0 .. 2 /\ Counted(clock, Reset(filters), t) \in 0 .. 2
  BY CountedType
<1>4. CASE clock < now
  BY <1>1, <1>2, <1>3, <1>4
<1>5. CASE clock = now
  BY <1>1, <1>2, <1>5 DEF Reset, NewSecond
<1>6. CASE clock > now
  <2>1. Counted(now, filters, t) <= Counted(clock, Reset(filters), t)
    <3>1. CASE now < t.timestamp
      BY <1>3, <3>1 DEF Counted
    <3>2. CASE t.timestamp <= now /\ clock < t.timestamp + drift
      BY <1>1, <1>6, <3>2, ResetSpares DEF Counted, DInv
    <3>3. CASE t.timestamp <= now /\ clock = t.timestamp + drift
      BY <1>1, <1>6, <3>3 DEF Counted
    <3>4. CASE clock > t.timestamp + drift
      BY <1>1, <1>3, <3>4 DEF Counted
    <3> QED
      BY <1>1, <3>1, <3>2, <3>3, <3>4
  <2> QED
    BY <1>1, <1>2, <1>3, <2>1
<1> QED
  BY <1>1, <1>4, <1>5, <1>6

LEMMA VerifyStep == ASSUME DInv, NEW u \in Token, VerifyToken(u) PROVE DInv'
<1> DEFINE fresh == Reset(filters)
           f == FilterOf(u.timestamp)
<1>1. /\ now' = clock /\ clock' = clock /\ clock \in Nat
      /\ accepted \in [Token -> Nat] /\ since \in [Token -> Nat]
      /\ Reset(added) \in [Filter -> SUBSET Token]
  BY DEF VerifyToken, DInv, Types, Reset
<1>2. fresh \in [Filter -> SUBSET (0 .. (bits - 1))] /\ f \in Filter
  BY ResetType, FilterFacts DEF DInv
<1>3. ~(clock' < now')
  BY <1>1
<1>4. CASE /\ filters' = fresh /\ added' = Reset(added)
           /\ accepted' = accepted /\ since' = since
  <2>1. ASSUME NEW t \in Token PROVE TokenInv(t)'
    BY <1>1, <1>3, <1>4, AfterReset DEF TokenInv
  <2> QED
    BY <1>1, <1>2, <1>4, <2>1 DEF DInv, Types
<1>5. CASE /\ clock >= u.timestamp /\ clock - u.timestamp <= drift
           /\ ~(HashBits(u) \subseteq fresh[f])
           /\ filters' = [fresh EXCEPT ![f] = @ \cup HashBits(u)]
           /\ added' = [Reset(added) EXCEPT ![f] = @ \cup {u}]
           /\ accepted' = [accepted EXCEPT ![u] = @ + 1]
           /\ since' = [since EXCEPT ![u] = @ + 1]
  <2>1. /\ filters' \in [Filter -> SUBSET (0 .. (bits - 1))]
        /\ added' \in [Filter -> SUBSET Token]
        /\ accepted' \in [Token -> Nat] /\ since' \in [Token -> Nat]
    BY <1>1, <1>2, <1>5, FilterFacts
  <2>2. \A g \in Filter : fresh[g] \subseteq filters'[g]
    BY <1>2, <1>5
  <2>3. ASSUME NEW t \in Token, t # u PROVE TokenInv(t)'
    <3>1. Counted(clock, fresh, t) <= Counted(clock, filters', t)
      BY <2>2, CountedGrows, FilterFacts
    <3>2. since'[t] = since[t] /\ since[t] \in Nat
      BY <1>1, <1>5, <2>3
    <3> QED
      BY <1>1, <1>3, <3>1, <3>2, AfterReset, CountedType DEF TokenInv
  <2>4. TokenInv(u)'
    <3>1. u.timestamp \in Nat /\ drift \in Nat /\ since[u] \in Nat /\ since'[u] = since[u] + 1
      BY <1>1, <1>5, FilterFacts, SecureAssumption
    <3>2. HashBits(u) \subseteq filters'[f]
      BY <1>2, <1>5
    <3>3. Counted(clock, filters', u) = Counted(clock, fresh, u) + 1
      BY <1>1, <1>5, <3>1, <3>2 DEF Counted
    <3> QED
      BY <1>1, <1>3, <3>1, <3>3, AfterReset, CountedType DEF TokenInv
  <2> QED
    BY <1>1, <2>1, <2>3, <2>4 DEF DInv, Types
<1> QED
  BY <1>1, <1>4, <1>5 DEF VerifyToken, SetBits

LEMMA ClockStep == ASSUME DInv, Tick \/ SetBack PROVE DInv'
<1>1. /\ UNCHANGED <<now, filters, accepted, added>> /\ clock \in Nat /\ now \in Nat
      /\ clock' \in Nat /\ since' \in [Token -> Nat]
  BY DEF Tick, SetBack, DInv, Types
<1>2. ASSUME NEW t \in Token PROVE TokenInv(t)'
  <2>1. Counted(now', filters', t) = Counted(now, filters, t) /\ Counted(now, filters, t) \in 0 .. 2
    BY <1>1, CountedType
  <2>2. CASE Tick
    BY <1>1, <2>1, <2>2 DEF Tick, DInv, TokenInv
  <2>3. CASE SetBack
    BY <1>1, <2>1, <2>3 DEF SetBack, TokenInv
  <2> QED
    BY <2>2, <2>3
<1> QED
  BY <1>1, <1>2 DEF DInv, Types

LEMMA DInvStep == DInv /\ [Next]_vars => DInv'
<1> SUFFICES ASSUME DInv, [Next]_vars PROVE DInv'
  OBVIOUS
<1>1. CASE Tick \/ SetBack
  BY <1>1, ClockStep
<1>2. CASE FailAuth
  BY <1>2 DEF FailAuth, DInv, Types, TokenInv
<1>3. CASE UNCHANGED vars
  BY <1>3 DEF vars, DInv, Types, TokenInv
<1> QED
  BY <1>1, <1>2, <1>3, VerifyStep DEF Next

LEMMA DInvInit == Init => DInv
<1> SUFFICES ASSUME Init PROVE DInv
  OBVIOUS
<1>1. Types /\ clock \in Nat /\ \A t \in Token : since[t] = 0
  BY SecureAssumption DEF Init, Types
<1>2. ASSUME NEW t \in Token PROVE TokenInv(t)
  BY <1>1, CountedType DEF TokenInv
<1> QED
  BY <1>1, <1>2 DEF DInv

(* Wherever the clock was set back to and whatever the network delivers since, no
   datagram is counted twice by verify_token before it is exactly `drift' seconds old,
   nor more than twice ever. *)
THEOREM DuplicatesDroppedAlways == Spec => []DuplicatesDropped
<1>1. DInv => DuplicatesDropped
  <2> SUFFICES ASSUME DInv, NEW t \in Token
               PROVE since[t] <= IF now < t.timestamp + drift THEN 1 ELSE 2
    BY DEF DuplicatesDropped
  <2>1. /\ now \in Nat /\ since[t] \in Nat /\ t.timestamp \in Nat
        /\ drift \in Nat /\ drift > 0
    BY FilterFacts, SecureAssumption DEF DInv, Types
  <2>2. Counted(now, filters, t) <= IF now < t.timestamp + drift THEN 1 ELSE 2
    BY <2>1 DEF Counted
  <2> QED
    BY <2>1, <2>2, CountedType DEF DInv, TokenInv
<1> QED
  BY <1>1, DInvInit, DInvStep, PTL DEF Spec

(* What a filter knows: all the bits of the tokens added since its reset, and no bit
   that an accepted token of its seconds does not have. *)
Source(f) == {u \in Token : accepted[u] > 0 /\ u.timestamp % drift = f}

FilterInv ==
  /\ Types /\ stats \in [failed : Nat, from_future : Nat, delayed : Nat, replayed : Nat]
  /\ \A f \in Filter : /\ \A t \in added[f] : HashBits(t) \subseteq filters[f]
                       /\ \A x \in filters[f] : \E u \in Source(f) : x \in HashBits(u)

LEMMA ResetContents ==
  ASSUME FilterInv, NEW f \in Filter
  PROVE /\ \A t \in Reset(added)[f] : HashBits(t) \subseteq Reset(filters)[f]
        /\ Reset(filters)[f] \subseteq filters[f]
        /\ Reset(filters)[f] = filters[f] \/ (clock # now /\ clock % drift = f)
<1>1. /\ filters \in [Filter -> SUBSET (0 .. (bits - 1))] /\ added \in [Filter -> SUBSET Token]
      /\ \A t \in added[f] : HashBits(t) \subseteq filters[f]
  BY DEF FilterInv, Types
<1>2. CASE NewSecond /\ clock % drift = f
  <2>1. Reset(added)[f] = {} /\ Reset(filters)[f] = {}
    BY <1>1, <1>2 DEF Reset
  <2> QED
    BY <1>2, <2>1 DEF NewSecond
<1>3. CASE ~(NewSecond /\ clock % drift = f)
  BY <1>1, <1>3 DEF Reset
<1> QED
  BY <1>2, <1>3

LEMMA FilterVerify == ASSUME DInv, FilterInv, NEW u \in Token, VerifyToken(u) PROVE FilterInv'
<1> DEFINE g == FilterOf(u.timestamp)
<1>1. Types' /\ stats' \in [failed : Nat, from_future : Nat, delayed : Nat, replayed : Nat]
  BY VerifyStep DEF DInv, VerifyToken, FilterInv
<1>2. g \in Filter /\ g = u.timestamp % drift
  BY FilterFacts DEF FilterOf
<1>3. accepted \in [Token -> Nat] /\ Types
  BY DEF FilterInv, Types
<1>4. Reset(filters) \in [Filter -> SUBSET (0 .. (bits - 1))] /\ Reset(added) \in [Filter -> SUBSET Token]
  BY <1>3 DEF Reset, Types
<1> HIDE DEF g
<1>5. ASSUME NEW f \in Filter
      PROVE /\ \A t \in added'[f] : HashBits(t) \subseteq filters'[f]
            /\ \A x \in filters'[f] : \E v \in Source(f)' : x \in HashBits(v)
  <2>1. \A x \in Reset(filters)[f] : \E v \in Source(f) : x \in HashBits(v)
    BY ResetContents DEF FilterInv
  <2>2. CASE filters' = Reset(filters) /\ accepted' = accepted /\ added' = Reset(added)
    BY <2>1, <2>2, ResetContents DEF Source
  <2>3. CASE /\ filters' = [Reset(filters) EXCEPT ![g] = @ \cup HashBits(u)]
             /\ added' = [Reset(added) EXCEPT ![g] = @ \cup {u}]
             /\ accepted' = [accepted EXCEPT ![u] = @ + 1]
    <3>1. Source(f) \subseteq Source(f)' /\ u \in Source(g)'
      BY <1>2, <1>3, <2>3 DEF Source
    <3>2. CASE f = g
      <4>1. filters'[f] = Reset(filters)[f] \cup HashBits(u) /\ added'[f] = Reset(added)[f] \cup {u}
        BY <1>4, <2>3, <3>2
      <4> QED
        BY <2>1, <3>1, <3>2, <4>1, ResetContents
    <3>3. CASE f # g
      <4>1. filters'[f] = Reset(filters)[f] /\ added'[f] = Reset(added)[f]
        BY <1>4, <2>3, <3>3
      <4> QED
        BY <2>1, <3>1, <4>1, ResetContents
    <3> QED
      BY <3>2, <3>3
  <2> QED
    BY <2>2, <2>3 DEF VerifyToken, SetBits, g
<1> QED
  BY <1>1, <1>5 DEF FilterInv

LEMMA FilterStep == DInv /\ FilterInv /\ [Next]_vars => FilterInv'
<1> SUFFICES ASSUME DInv, FilterInv, [Next]_vars PROVE FilterInv'
  OBVIOUS
<1>1. Types'
  BY DInvStep DEF DInv
<1>2. CASE Tick \/ SetBack \/ FailAuth \/ UNCHANGED vars
  <2>1. /\ UNCHANGED <<filters, added, accepted>>
        /\ stats' \in [failed : Nat, from_future : Nat, delayed : Nat, replayed : Nat]
    BY <1>2 DEF Tick, SetBack, FailAuth, vars, FilterInv
  <2> QED
    BY <1>1, <2>1 DEF FilterInv, Source
<1> QED
  BY <1>2, FilterVerify DEF Next

(* What a datagram that is counted, or dropped as a replay, says about the filters. *)
LEMMA FilterActions ==
  ASSUME FilterInv, [Next]_vars, NEW t \in Token
  PROVE /\ accepted'[t] > accepted[t] /\ t \in added[t.timestamp % drift]
             => clock # now /\ clock % drift = t.timestamp % drift
        /\ VerifyToken(t) /\ stats'.replayed > stats.replayed
             => \A x \in HashBits(t) : \E u \in Source(t.timestamp % drift) : x \in HashBits(u)
<1> DEFINE f == t.timestamp % drift
<1>1. f \in Filter /\ FilterOf(t.timestamp) = f
  BY FilterFacts DEF FilterOf
<1>2. /\ accepted[t] \in Nat /\ accepted \in [Token -> Nat]
      /\ stats \in [failed : Nat, from_future : Nat, delayed : Nat, replayed : Nat]
  BY DEF FilterInv, Types
<1> HIDE DEF f
<1>3. ASSUME accepted'[t] > accepted[t], t \in added[f] PROVE clock # now /\ clock % drift = f
  <2>1. ~(HashBits(t) \subseteq Reset(filters)[f])
    <3>1. CASE Tick \/ SetBack \/ FailAuth \/ UNCHANGED vars
      BY <1>2, <1>3, <3>1 DEF Tick, SetBack, FailAuth, vars
    <3>2. ASSUME NEW u \in Token, VerifyToken(u) PROVE u = t /\ ~(HashBits(t) \subseteq Reset(filters)[f])
      BY <1>1, <1>2, <1>3, <3>2 DEF VerifyToken
    <3> QED
      BY <3>1, <3>2 DEF Next
  <2>2. HashBits(t) \subseteq filters[f]
    BY <1>1, <1>3 DEF FilterInv
  <2> QED
    BY <1>1, <2>1, <2>2, ResetContents
<1>4. ASSUME VerifyToken(t), stats'.replayed > stats.replayed
      PROVE \A x \in HashBits(t) : \E u \in Source(f) : x \in HashBits(u)
  <2>1. HashBits(t) \subseteq Reset(filters)[f]
    BY <1>1, <1>2, <1>4 DEF VerifyToken
  <2> QED
    BY <1>1, <2>1, ResetContents DEF FilterInv
<1> QED
  BY <1>3, <1>4 DEF f

(* The two action properties of the filters. *)
LEMMA FilterSafe == Spec => OncePerReset /\ DropsAreLocal
<1>1. Init => DInv /\ FilterInv
  BY DInvInit DEF Init, DInv, FilterInv
<1>2. FilterInv /\ [Next]_vars =>
        [\A t \in Token :
           accepted'[t] > accepted[t] /\ t \in added[t.timestamp % drift]
             => clock # now /\ clock % drift = t.timestamp % drift]_vars
  BY FilterActions
<1>3. FilterInv /\ [Next]_vars =>
        [\A t \in Token : VerifyToken(t) /\ stats'.replayed > stats.replayed =>
           HashBits(t) \subseteq
             UNION {HashBits(u) : u \in {u \in Token : accepted[u] > 0
                                           /\ u.timestamp % drift = t.timestamp % drift}}]_vars
  BY FilterActions DEF Source
<1> QED
  BY <1>1, <1>2, <1>3, DInvStep, FilterStep, PTL DEF Spec, OncePerReset, DropsAreLocal

(* Whatever the clock does, a token is counted again only after its filter was reset. *)
THEOREM FiltersExact == Spec => OncePerReset
BY FilterSafe, PTL

(* A token is dropped as a replay only when accepted tokens of its own filter cover its
   bits. *)
THEOREM DropsJustified == Spec => DropsAreLocal
BY FilterSafe, PTL
-----------------------------------------------------------------------------
(* Numbers that differ by a multiple of d have the same remainder. *)
LEMMA SameRemainder ==
  ASSUME NEW d \in Nat, d > 0, NEW a \in Nat, NEW b \in Nat, NEW k \in Int, a = b + d * k
  PROVE  a % d = b % d
<1> DEFINE p == a \div d
           q == b \div d
           r == a % d
           t == b % d
<1>1. p \in Int /\ q \in Int /\ r \in 0 .. (d - 1) /\ t \in 0 .. (d - 1)
  BY Remainder
<1>2. a = d * p + r /\ b = d * q + t
  BY <1>1, Division
<1> HIDE DEF p, q, r, t
<1> DEFINE n == q + k - p
<1>3. n \in Int /\ d * n = d * q + d * k - d * p
  BY <1>1
<1> HIDE DEF n
<1>4. r - t = d * n
  BY <1>1, <1>2, <1>3
<1>5. /\ d * n \in Int /\ d * 0 = 0
      /\ n > 0 => d * n >= d * 0 + d
      /\ n < 0 => d * 0 >= d * n + d
  BY <1>3, Multiples
<1>6. n = 0
  BY <1>1, <1>3, <1>4, <1>5
<1> QED
  BY <1>1, <1>4, <1>5, <1>6 DEF r, t

Counter == Stats!Stat

(* What the backend thread has taken of a counter and not reported. *)
Hand(s) == IF taken /\ Stats!Order[i] = s THEN value ELSE 0

(* The shape of the statistics. *)
Shape ==
  /\ live \in [Counter -> Nat] /\ sample \in [Counter -> Nat]
  /\ total \in [Counter -> Nat] /\ reported \in [Counter -> Nat]
  /\ i \in 0 .. 7 /\ value \in Nat /\ taken \in BOOLEAN /\ (taken => i > 0)

(* What was counted of s but is neither reported, in hand nor live was lost in k wraps. *)
Wrapped(s, k) == total[s] = reported[s] + live[s] + Hand(s) + CounterWord * k

CountersInv ==
  \A s \in Counter \ {"unique_keys"} :
    live[s] < CounterWord /\ \E k \in Int : Wrapped(s, k)

(* unique_keys is never reset: what was shown, what is in hand and what is live follow
   each other. *)
KeysInv ==
  LET s == "unique_keys" IN
  total[s] < CounterWord =>
    /\ live[s] = total[s] /\ sample[s] <= live[s]
    /\ taken /\ Stats!Order[i] = s => sample[s] <= value /\ value <= live[s]

StatsInv == Shape /\ CountersInv /\ KeysInv

LEMMA Counters ==
  /\ \A n \in 1 .. 7 : Stats!Order[n] \in Counter
  /\ \A m, n \in 1 .. 7 : Stats!Order[m] = Stats!Order[n] => m = n
  /\ Counter = {"metrics", "errors", "unique_keys", "failed", "from_future", "delayed", "replayed"}
  /\ Len(Stats!Order) = 7
BY DEF Counter, Stats!Stat, Stats!Order

LEMMA StatsInit == SecureInit => StatsInv
<1> SUFFICES ASSUME SecureInit PROVE StatsInv
  OBVIOUS
<1>1. /\ live = [s \in Counter |-> IF s = "unique_keys" THEN 1 ELSE 0] /\ total = live
      /\ sample = [s \in Counter |-> 0] /\ reported = sample
      /\ i = 0 /\ value = 0 /\ taken = FALSE
  BY DEF SecureInit, Stats!Init, Counter
<1>2. Shape /\ KeysInv
  <2>1. /\ live \in [Counter -> Nat] /\ total \in [Counter -> Nat]
        /\ sample \in [Counter -> Nat] /\ reported \in [Counter -> Nat]
    BY <1>1
  <2>2. live["unique_keys"] = 1 /\ sample["unique_keys"] = 0
    BY <1>1, Counters
  <2>3. i \in 0 .. 7 /\ value \in Nat
    BY <1>1
  <2>4. taken \in BOOLEAN /\ ~taken
    BY <1>1, Zenon
  <2>5. KeysInv
    BY <1>1, <2>2 DEF KeysInv
  <2> QED
    BY <2>1, <2>3, <2>4, <2>5 DEF Shape
<1>3. ASSUME NEW s \in Counter \ {"unique_keys"} PROVE live[s] < CounterWord /\ Wrapped(s, 0)
  BY <1>1, CounterAssumption DEF Wrapped, Hand
<1> QED
  BY <1>2, <1>3 DEF StatsInv, CountersInv

(* brubeck_stats_inc of any counter by any thread. *)
LEMMA IncStep == ASSUME StatsInv, NEW c \in Counter, Stats!StatsInc(c) PROVE StatsInv'
<1>1. /\ live' = [live EXCEPT ![c] = (live[c] + 1) % CounterWord]
      /\ total' = [total EXCEPT ![c] = total[c] + 1]
      /\ UNCHANGED <<sample, i, value, taken, reported>>
  BY DEF Stats!StatsInc
<1>2. (live[c] + 1) % CounterWord \in Nat /\ live[c] \in Nat
  BY CounterAssumption, Remainder DEF StatsInv, Shape
<1>3. Shape'
  BY <1>1, <1>2 DEF StatsInv, Shape
<1>4. ASSUME NEW s \in Counter \ {"unique_keys"}
      PROVE  live'[s] < CounterWord /\ \E k \in Int : Wrapped(s, k)'
  <2>1. PICK k \in Int : Wrapped(s, k)
    BY <1>4 DEF StatsInv, CountersInv
  <2>2. live[s] < CounterWord /\ live[s] \in Nat /\ Hand(s)' = Hand(s)
    BY <1>1, <1>4 DEF StatsInv, CountersInv, Shape, Hand
  <2>3. CASE s # c
    BY <1>1, <1>4, <2>1, <2>2, <2>3 DEF Wrapped, StatsInv, Shape
  <2>4. CASE s = c /\ live[s] + 1 < CounterWord
    <3>1. (live[s] + 1) % CounterWord = live[s] + 1
      BY <2>2, <2>4, CounterAssumption
    <3>2. live'[s] = live[s] + 1 /\ total'[s] = total[s] + 1 /\ reported'[s] = reported[s]
      BY <1>1, <1>4, <2>4, <3>1 DEF StatsInv, Shape
    <3>3. total[s] \in Nat /\ reported[s] \in Nat /\ Hand(s) \in Nat /\ CounterWord * k \in Int
      BY <1>4, <2>1, CounterAssumption DEF StatsInv, Shape, Hand
    <3>4. Wrapped(s, k)'
      BY <2>1, <2>2, <3>2, <3>3 DEF Wrapped
    <3> QED
      BY <2>4, <3>2, <3>4
  <2>5. CASE s = c /\ live[s] + 1 = CounterWord
    <3>1. (live[s] + 1) % CounterWord = 0
      BY <2>2, <2>5, CounterAssumption
    <3>2. live'[s] = 0 /\ total'[s] = total[s] + 1 /\ reported'[s] = reported[s]
      BY <1>1, <1>4, <2>5, <3>1 DEF StatsInv, Shape
    <3>3. /\ total[s] \in Nat /\ reported[s] \in Nat /\ Hand(s) \in Nat /\ CounterWord * k \in Int
          /\ CounterWord * (k + 1) = CounterWord * k + CounterWord
      BY <1>4, <2>1, CounterAssumption DEF StatsInv, Shape, Hand
    <3>4. Wrapped(s, k + 1)'
      BY <2>1, <2>2, <2>5, <3>2, <3>3 DEF Wrapped
    <3> QED
      BY <2>1, <3>2, <3>4, CounterAssumption
  <2> QED
    BY <2>2, <2>3, <2>4, <2>5, CounterAssumption
<1>5. KeysInv'
  <2>1. CASE c # "unique_keys"
    BY <1>1, <2>1, Counters DEF StatsInv, Shape, KeysInv
  <2>2. CASE c = "unique_keys" /\ total[c] + 1 < CounterWord
    <3>1. live[c] = total[c] /\ total[c] \in Nat
      BY <2>2, CounterAssumption DEF StatsInv, Shape, KeysInv
    <3>2. (live[c] + 1) % CounterWord = live[c] + 1
      BY <2>2, <3>1, CounterAssumption
    <3>3. live'[c] = live[c] + 1 /\ total'[c] = total[c] + 1
      BY <1>1, <3>2 DEF StatsInv, Shape
    <3> QED
      BY <1>1, <2>2, <3>1, <3>3, CounterAssumption DEF StatsInv, Shape, KeysInv
  <2>3. CASE c = "unique_keys" /\ ~(total[c] + 1 < CounterWord)
    BY <1>1, <2>3 DEF StatsInv, Shape, KeysInv
  <2> QED
    BY <2>1, <2>2, <2>3
<1> QED
  BY <1>3, <1>4, <1>5 DEF StatsInv, CountersInv

(* The backend thread takes a counter: an atomic swap, or a fetch of unique_keys. *)
LEMMA TakeStep == ASSUME StatsInv, Stats!Take PROVE StatsInv'
<1> DEFINE c == Stats!Order[i]
<1>1. /\ i \in 1 .. 7 /\ taken = FALSE /\ value' = live[c] /\ taken' = TRUE
      /\ live' = [live EXCEPT ![c] = IF c = "unique_keys" THEN live[c] ELSE 0]
      /\ UNCHANGED <<sample, i, total, reported>>
  BY DEF Stats!Take, Stats!Left, StatsInv, Shape
<1>2. c \in Counter /\ c' = c
  BY <1>1, Counters DEF Stats!Order
<1> HIDE DEF c
<1>3. Shape'
  BY <1>1, <1>2 DEF StatsInv, Shape
<1>4. ASSUME NEW s \in Counter \ {"unique_keys"}
      PROVE  live'[s] < CounterWord /\ \E k \in Int : Wrapped(s, k)'
  <2>1. PICK k \in Int : Wrapped(s, k)
    BY <1>4 DEF StatsInv, CountersInv
  <2>2. /\ Hand(s) = 0 /\ Hand(s)' = (IF c = s THEN live[c] ELSE 0)
        /\ live'[s] = (IF c = s THEN 0 ELSE live[s])
        /\ live[s] < CounterWord /\ live[s] \in Nat /\ reported[s] \in Nat
    BY <1>1, <1>2, <1>4 DEF StatsInv, CountersInv, Shape, Hand, c
  <2>3. Wrapped(s, k)'
    BY <1>1, <2>1, <2>2 DEF Wrapped
  <2> QED
    BY <2>1, <2>2, <2>3, CounterAssumption
<1>5. KeysInv'
  <2>1. live'["unique_keys"] = live["unique_keys"] /\ live["unique_keys"] \in Nat
    BY <1>1, <1>2, Counters DEF StatsInv, Shape
  <2> QED
    BY <1>1, <1>2, <2>1 DEF StatsInv, KeysInv, c
<1> QED
  BY <1>3, <1>4, <1>5 DEF StatsInv, CountersInv

(* It stores what it took where the HTTP endpoint reads it, and hands it to the backend. *)
LEMMA ReportStep ==
  ASSUME StatsInv, Stats!Report PROVE StatsInv' /\ Stats!KeysNeverFall
<1> DEFINE c == Stats!Order[i]
<1>1. /\ i \in 1 .. 7 /\ i' \in 0 .. 7 /\ taken = TRUE /\ value' = 0 /\ taken' = FALSE
      /\ sample' = [sample EXCEPT ![c] = value] /\ total' = total
      /\ reported' = [reported EXCEPT ![c] = reported[c] + value]
      /\ live' = [live EXCEPT ![c] = live[c]]
  BY Counters DEF Stats!Report, Stats!Untouched, StatsInv, Shape
<1>2. c \in Counter
  BY <1>1, Counters
<1>3. live' = live
  BY <1>1 DEF StatsInv, Shape
<1>4. Shape'
  <2>1. reported[c] \in Nat /\ value \in Nat
    BY <1>2 DEF StatsInv, Shape
  <2>2. sample' \in [Counter -> Nat] /\ reported' \in [Counter -> Nat]
    BY <1>1, <1>2, <2>1 DEF StatsInv, Shape
  <2> QED
    BY <1>1, <1>3, <2>2 DEF StatsInv, Shape
<1>5. ASSUME NEW s \in Counter \ {"unique_keys"}
      PROVE  live'[s] < CounterWord /\ \E k \in Int : Wrapped(s, k)'
  <2>1. PICK k \in Int : Wrapped(s, k)
    BY <1>5 DEF StatsInv, CountersInv
  <2>2. /\ Hand(s) = (IF c = s THEN value ELSE 0) /\ Hand(s)' = 0
        /\ reported'[s] = (IF c = s THEN reported[s] + value ELSE reported[s])
        /\ live[s] < CounterWord /\ live[s] \in Nat /\ reported[s] \in Nat /\ value \in Nat
    BY <1>1, <1>2, <1>5 DEF StatsInv, CountersInv, Shape, Hand
  <2>3. Wrapped(s, k)'
    BY <1>1, <1>3, <2>1, <2>2 DEF Wrapped
  <2> QED
    BY <1>3, <2>1, <2>2, <2>3
<1>6. KeysInv' /\ Stats!KeysNeverFall
  <2> DEFINE u == "unique_keys"
  <2>1. u \in Counter
    BY Counters
  <2>2. sample'[u] = (IF c = u THEN value ELSE sample[u])
    BY <1>1, <2>1 DEF StatsInv, Shape
  <2>3. sample[u] \in Nat /\ live[u] \in Nat /\ value \in Nat
    BY <2>1 DEF StatsInv, Shape
  <2>4. total[u] < CounterWord =>
          /\ live[u] = total[u] /\ sample[u] <= live[u]
          /\ c = u => sample[u] <= value /\ value <= live[u]
    BY <1>1 DEF StatsInv, KeysInv
  <2> QED
    BY <1>1, <1>3, <2>2, <2>3, <2>4 DEF KeysInv, Stats!KeysNeverFall
<1> QED
  BY <1>4, <1>5, <1>6 DEF StatsInv, CountersInv

(* Every step keeps the invariant, and shows unique_keys as it should. *)
LEMMA StatsStep == StatsInv /\ [SecureNext]_allVars => StatsInv' /\ [Stats!KeysNeverFall]_allVars
<1> SUFFICES ASSUME StatsInv, [SecureNext]_allVars
             PROVE  StatsInv' /\ Stats!KeysNeverFall
  OBVIOUS
<1>1. UNCHANGED sample => Stats!KeysNeverFall
  <2>1. sample["unique_keys"] \in Nat /\ live["unique_keys"] \in Nat
    BY Counters DEF StatsInv, Shape
  <2> QED
    BY <2>1 DEF StatsInv, KeysInv, Stats!KeysNeverFall
<1>2. ASSUME UNCHANGED <<live, sample, i, value, taken, total, reported>> PROVE StatsInv'
  BY <1>2 DEF StatsInv, Shape, CountersInv, Wrapped, Hand, KeysInv
<1>3. ASSUME NEW c \in Counter, Stats!StatsInc(c) PROVE StatsInv' /\ Stats!KeysNeverFall
  BY <1>1, <1>3, IncStep DEF Stats!StatsInc
<1>4. CASE SecurePacket \/ OtherWorker
  BY <1>3, <1>4, Counters DEF SecurePacket, OtherWorker, Counter
<1>5. CASE Clock \/ HttpRequest \/ UNCHANGED allVars
  BY <1>1, <1>2, <1>5 DEF Clock, HttpRequest, allVars, statsVars
<1>6. CASE Stats!Begin
  <2>1. /\ UNCHANGED <<live, sample, value, taken, total, reported>> /\ i' = 1 /\ taken = FALSE
    BY <1>6 DEF Stats!Begin, StatsInv, Shape
  <2> QED
    BY <1>1, <2>1 DEF StatsInv, Shape, CountersInv, Wrapped, Hand, KeysInv
<1>7. CASE Stats!Take
  BY <1>1, <1>7, TakeStep DEF Stats!Take
<1>8. CASE Stats!Report
  BY <1>8, ReportStep
<1> QED
  BY <1>4, <1>5, <1>6, <1>7, <1>8 DEF SecureNext, InternalSample

(* For any width of the counters, whenever workers count and the backend thread takes: no
   increment is lost or reported twice. *)
THEOREM IncrementsConserved == SecureSpec => []StatsConserved
<1>1. StatsInv => StatsConserved
  <2> SUFFICES ASSUME StatsInv, NEW s \in Stats!Stat \ {"unique_keys"}
               PROVE  (reported[s] + live[s] + Hand(s)) % CounterWord = total[s] % CounterWord
    BY DEF StatsConserved, Stats!Conserved, Hand
  <2>1. PICK k \in Int : Wrapped(s, k)
    BY DEF StatsInv, CountersInv, Counter
  <2> DEFINE a == total[s]
             b == reported[s] + live[s] + Hand(s)
  <2>2. a \in Nat /\ b \in Nat
    BY DEF StatsInv, Shape, Hand, Counter
  <2>3. a = b + CounterWord * k
    BY <2>1 DEF Wrapped
  <2> HIDE DEF a, b
  <2>4. CounterWord \in Nat /\ CounterWord > 0
    BY CounterAssumption
  <2>5. a % CounterWord = b % CounterWord
    BY <2>1, <2>2, <2>3, <2>4, SameRemainder
  <2> QED
    BY <2>5 DEF a, b
<1> QED
  BY StatsInit, StatsStep, <1>1, PTL DEF SecureSpec

(* The number of unique keys shown never falls and is never ahead of the keys counted. *)
THEOREM KeysMonotonic == SecureSpec => UniqueKeysNeverFall
BY StatsInit, StatsStep, PTL DEF SecureSpec, UniqueKeysNeverFall
-----------------------------------------------------------------------------
Early == {"metrics", "errors", "unique_keys"}

(* brubeck_internal__sample replaces the early counters first: what send_stats has read
   of the others is from no later tick than the early ones are now, or will be. *)
HttpInv ==
  /\ i \in 0 .. 7 /\ ticks \in Nat /\ ticks <= MaxTicks /\ (i > 0 => ticks > 0)
  /\ newest \in Nat /\ oldest \in Nat /\ newest <= oldest
  /\ \A s \in Early : newest <= Stats!SampledIn(s)
  /\ left # None => left \subseteq Counter
  /\ left # None /\ left \cap Stats!Secure # {} => oldest = MaxTicks

LEMMA Before ==
  ASSUME NEW j \in 0 .. 7, NEW n \in 1 .. 7
  PROVE  (\E m \in 1 .. (j - 1) : Stats!Order[m] = Stats!Order[n]) <=> n < j
BY Counters

(* The tick of a counter, by its place in the order. *)
LEMMA Sampling ==
  ASSUME i \in 0 .. 7, NEW n \in 1 .. 7
  PROVE  Stats!SampledIn(Stats!Order[n]) = IF i = 0 \/ n < i THEN ticks ELSE ticks - 1
BY Before DEF Stats!SampledIn

LEMMA HttpStart == SecureInit => HttpInv
<1> SUFFICES ASSUME SecureInit PROVE HttpInv
  OBVIOUS
<1>1. /\ i = 0 /\ ticks = 0 /\ newest = 0 /\ oldest = MaxTicks /\ left = None
  BY DEF SecureInit, Stats!Init, Stats!HttpInit
<1>2. \A s : Stats!SampledIn(s) = 0
  BY <1>1 DEF Stats!SampledIn
<1> QED
  BY <1>1, <1>2, CounterAssumption DEF HttpInv

LEMMA Places ==
  /\ \A s \in Early : \E n \in 1 .. 3 : s = Stats!Order[n]
  /\ \A s \in Stats!Secure : \E n \in 4 .. 7 : s = Stats!Order[n]
  /\ Counter \subseteq Early \cup Stats!Secure
BY Counters DEF Early, Stats!Secure, Stats!Order

(* The backend thread only moves the counters on to a later tick. *)
LEMMA LaterTicks ==
  ASSUME HttpInv, i' \in 0 .. 7, ticks' \in Nat, ticks' <= MaxTicks,
         \/ i = 0 /\ i' = 1 /\ ticks' = ticks + 1
         \/ i > 0 /\ i' \in {0, i + 1} /\ (i' = 0 => i = 7) /\ ticks' = ticks
         \/ UNCHANGED <<i, ticks>>,
         UNCHANGED httpVars
  PROVE  HttpInv'
<1>1. ASSUME NEW s \in Early PROVE newest' <= Stats!SampledIn(s)'
  <2>1. PICK n \in 1 .. 3 : s = Stats!Order[n]
    BY <1>1, Places
  <2>2. Stats!SampledIn(s) = IF i = 0 \/ n < i THEN ticks ELSE ticks - 1
    BY <2>1, Sampling DEF HttpInv
  <2>3. Stats!SampledIn(s)' = IF i' = 0 \/ n < i' THEN ticks' ELSE ticks' - 1
    <3> DEFINE j == i'
    <3>1. j \in 0 .. 7 /\ n \in 1 .. 7
      OBVIOUS
    <3> HIDE DEF j
    <3>2. (\E m \in 1 .. (j - 1) : Stats!Order[m] = Stats!Order[n]) <=> n < j
      BY <3>1, Before
    <3> QED
      BY <2>1, <3>2 DEF Stats!SampledIn, j
  <2>4. newest <= Stats!SampledIn(s) /\ newest \in Nat /\ ticks \in Nat /\ newest' = newest /\ i \in 0 .. 7
    BY <1>1 DEF HttpInv, httpVars
  <2>5. Stats!SampledIn(s) <= Stats!SampledIn(s)' /\ Stats!SampledIn(s) \in Int /\ Stats!SampledIn(s)' \in Int
    <3>1. CASE i = 0 /\ i' = 1 /\ ticks' = ticks + 1
      BY <2>2, <2>3, <2>4, <3>1
    <3>2. CASE i > 0 /\ i' \in {0, i + 1} /\ (i' = 0 => i = 7) /\ ticks' = ticks
      BY <2>2, <2>3, <2>4, <3>2
    <3>3. CASE UNCHANGED <<i, ticks>>
      BY <2>2, <2>3, <2>4, <3>3
    <3> QED
      BY <3>1, <3>2, <3>3
  <2> QED
    BY <2>4, <2>5
<1> QED
  BY <1>1 DEF HttpInv, httpVars

(* send_stats reads one more counter. *)
LEMMA ReadStep == ASSUME HttpInv, Stats!ReadStat, UNCHANGED statsVars PROVE HttpInv'
<1>1. PICK c \in Stats!Readable(left) :
        /\ left' = left \ {c}
        /\ IF c \in Stats!Secure
           THEN newest' = (IF Stats!SampledIn(c) > newest THEN Stats!SampledIn(c) ELSE newest) /\ UNCHANGED oldest
           ELSE oldest' = (IF Stats!SampledIn(c) < oldest THEN Stats!SampledIn(c) ELSE oldest) /\ UNCHANGED newest
  BY DEF Stats!ReadStat
<1>2. left # None /\ left \subseteq Counter /\ c \in left
  BY DEF Stats!ReadStat, HttpInv, Stats!Readable
<1>3. UNCHANGED <<i, ticks>> /\ \A s : Stats!SampledIn(s)' = Stats!SampledIn(s)
  BY DEF statsVars, Stats!SampledIn
<1>4. ASSUME NEW n \in 1 .. 7
      PROVE  Stats!SampledIn(Stats!Order[n]) = IF i = 0 \/ n < i THEN ticks ELSE ticks - 1
  BY Sampling DEF HttpInv
<1>5. CASE c \in Stats!Secure
  <2>1. PICK n \in 4 .. 7 : c = Stats!Order[n]
    BY <1>5, Places
  <2>2. Stats!SampledIn(c) = IF i = 0 \/ n < i THEN ticks ELSE ticks - 1
    BY <1>4, <2>1
  <2>3. oldest = MaxTicks /\ oldest' = MaxTicks
    BY <1>1, <1>2, <1>5 DEF HttpInv
  <2>4. ASSUME NEW s \in Early PROVE Stats!SampledIn(c) <= Stats!SampledIn(s)
    <3>1. PICK m \in 1 .. 3 : s = Stats!Order[m]
      BY <2>4, Places
    <3>2. Stats!SampledIn(s) = IF i = 0 \/ m < i THEN ticks ELSE ticks - 1
      BY <1>4, <3>1
    <3> QED
      BY <2>1, <2>2, <3>1, <3>2 DEF HttpInv
  <2>5. Stats!SampledIn(c) \in Int /\ Stats!SampledIn(c) <= ticks
    BY <2>2 DEF HttpInv
  <2>6. newest' \in Nat /\ newest' <= oldest'
    BY <1>1, <1>5, <2>3, <2>5 DEF HttpInv
  <2>7. \A s \in Early : newest' <= Stats!SampledIn(s)'
    BY <1>1, <1>3, <1>5, <2>4 DEF HttpInv
  <2> QED
    BY <1>1, <1>2, <1>3, <2>3, <2>6, <2>7 DEF HttpInv
<1>6. CASE c \notin Stats!Secure
  <2>1. left \cap Stats!Secure = {}
    BY <1>1, <1>6 DEF Stats!Readable
  <2>2. c \in Early
    BY <1>2, <1>6, Places
  <2>3. newest <= Stats!SampledIn(c)
    BY <2>2 DEF HttpInv
  <2>4. Stats!SampledIn(c) \in Nat
    <3>1. PICK n \in 1 .. 3 : c = Stats!Order[n]
      BY <2>2, Places
    <3> QED
      BY <1>4, <3>1 DEF HttpInv
  <2>5. newest' = newest /\ oldest' \in Nat /\ newest' <= oldest'
    BY <1>1, <1>6, <2>3, <2>4 DEF HttpInv
  <2>6. left' \subseteq Counter /\ left' \cap Stats!Secure = {}
    BY <1>1, <1>2, <2>1
  <2> QED
    BY <1>3, <2>5, <2>6 DEF HttpInv
<1> QED
  BY <1>5, <1>6

LEMMA HttpStep == HttpInv /\ StatsInv /\ [SecureNext]_allVars => HttpInv'
<1> SUFFICES ASSUME HttpInv, StatsInv, [SecureNext]_allVars PROVE HttpInv'
  OBVIOUS
<1>1. ASSUME UNCHANGED <<i, ticks, httpVars>> PROVE HttpInv'
  BY <1>1, LaterTicks DEF HttpInv
<1>2. CASE SecurePacket \/ OtherWorker
  BY <1>1, <1>2 DEF SecurePacket, OtherWorker, Stats!StatsInc
<1>3. CASE Clock \/ UNCHANGED allVars
  BY <1>1, <1>3 DEF Clock, allVars, statsVars
<1>4. CASE InternalSample
  <2>1. UNCHANGED httpVars
    BY <1>4 DEF InternalSample
  <2>2. CASE Stats!Begin
    <3>1. i = 0 /\ i' = 1 /\ ticks' = ticks + 1 /\ ticks' \in Nat /\ ticks' <= MaxTicks
      BY <2>2, CounterAssumption DEF Stats!Begin, HttpInv
    <3> QED
      BY <2>1, <3>1, LaterTicks
  <2>3. CASE Stats!Take
    BY <1>1, <2>1, <2>3 DEF Stats!Take
  <2>4. CASE Stats!Report
    <3>1. i > 0 /\ i' = (IF i = 7 THEN 0 ELSE i + 1) /\ ticks' = ticks
      BY <2>4, Counters DEF Stats!Report, StatsInv, Shape
    <3> QED
      BY <2>1, <3>1, LaterTicks DEF HttpInv
  <2> QED
    BY <1>4, <2>2, <2>3, <2>4 DEF InternalSample
<1>5. CASE HttpRequest
  <2>1. UNCHANGED statsVars
    BY <1>5 DEF HttpRequest
  <2>2. UNCHANGED <<i, ticks>> /\ \A s : Stats!SampledIn(s)' = Stats!SampledIn(s)
    BY <2>1 DEF statsVars, Stats!SampledIn
  <2>3. CASE Stats!SendStats
    <3>1. ASSUME NEW s \in Early PROVE 0 <= Stats!SampledIn(s)'
      <4>1. PICK n \in 1 .. 3 : s = Stats!Order[n]
        BY <3>1, Places
      <4>2. Stats!SampledIn(s) = IF i = 0 \/ n < i THEN ticks ELSE ticks - 1
        BY <4>1, Sampling DEF HttpInv
      <4> QED
        BY <2>2, <4>2 DEF HttpInv
    <3> QED
      BY <2>2, <2>3, <3>1, CounterAssumption DEF Stats!SendStats, HttpInv, Counter
  <2>4. CASE Stats!ReadStat
    BY <2>1, <2>4, ReadStep
  <2>5. CASE Stats!Respond
    BY <2>2, <2>5 DEF Stats!Respond, HttpInv
  <2> QED
    BY <1>5, <2>3, <2>4, <2>5 DEF HttpRequest, Stats!HttpNext
<1> QED
  BY <1>2, <1>3, <1>4, <1>5 DEF SecureNext

(* Whenever GET /stats is served during a tick of the backend: the messages, errors and
   keys of its response are never older than the drops in it. *)
THEOREM ResponsesOrdered == SecureSpec => []StatsInOrder
<1>1. HttpInv => StatsInOrder
  BY DEF HttpInv, StatsInOrder, Stats!NotOlder
<1> QED
  BY HttpStart, HttpStep, StatsInit, StatsStep, <1>1, PTL DEF SecureSpec

(* Counted together with the other workers, statsd_secure__thread does what it does alone:
   all that is proved of StatsdSecure holds here. *)
THEOREM SamplerComposed == SecureSpec => Spec
<1>1. SecureInit => Init
  BY DEF SecureInit
<1>2. [SecureNext]_allVars => [Next]_vars
  BY DEF SecureNext, SecurePacket, OtherWorker, Clock, InternalSample, HttpRequest, Next, allVars
<1> QED
  BY <1>1, <1>2, PTL DEF SecureSpec, Spec
-----------------------------------------------------------------------------
(* A datagram received was passed on, or it was dropped for one of the four reasons, and
   what was ever counted under a reason is what the sampler dropped for it. *)
Reasons == {"failed", "from_future", "delayed", "replayed"}

Dropped == stats.failed + stats.from_future + stats.delayed + stats.replayed

AccountShape ==
  /\ packets \in Nat /\ accepted \in [Token -> Nat]
  /\ stats \in [failed : Nat, from_future : Nat, delayed : Nat, replayed : Nat]

AccountInv ==
  /\ AccountShape
  /\ SumFunction(accepted) \in Nat /\ packets = SumFunction(accepted) + Dropped
  /\ \A s \in Reasons : total[s] = stats[s]

(* A token passed on once more adds one to it. *)
LEMMA AcceptedGrows ==
  ASSUME NEW g \in [Token -> Nat], NEW h, NEW t \in Token, h = [g EXCEPT ![t] = @ + 1]
  PROVE  h \in [Token -> Nat] /\ SumFunction(h) = SumFunction(g) + 1
<1>1. /\ DOMAIN g = Token /\ DOMAIN h = Token
      /\ h[t] = g[t] + 1 /\ g[t] \in Int
      /\ h \in [Token -> Nat]
  OBVIOUS
<1>2. \A u \in Token : g[u] \in Int /\ h[u] \in Int
  OBVIOUS
<1>3. \A u \in Token \ {t} : g[u] = h[u]
  OBVIOUS
<1>4. SumFunctionOnSet(h, Token) = SumFunctionOnSet(g, Token) - g[t] + h[t]
  BY ONLY t \in Token, <1>2, <1>3, TokenAssumption, SumChange
<1>5. SumFunctionOnSet(g, Token) \in Int
  BY <1>2, TokenAssumption, SumType
<1> QED
  BY <1>1, <1>4, <1>5 DEF SumFunction

LEMMA AccountStart == SecureInit => AccountInv
<1> SUFFICES ASSUME SecureInit PROVE AccountInv
  OBVIOUS
<1>1. /\ packets = 0 /\ accepted = [t \in Token |-> 0]
      /\ stats = [failed |-> 0, from_future |-> 0, delayed |-> 0, replayed |-> 0]
  BY DEF SecureInit, Init
<1>2. SumFunction(accepted) = 0
  <2>1. DOMAIN accepted = Token /\ \A t \in Token : accepted[t] = 0
    BY <1>1
  <2> QED
    BY <2>1, TokenAssumption, SumOfZeros DEF SumFunction
<1>3. AccountShape
  BY <1>1 DEF AccountShape
<1>4. ASSUME NEW s \in Reasons PROVE total[s] = stats[s]
  BY <1>1 DEF SecureInit, Stats!Init, Stats!Stat, Stats!Order, Reasons
<1> QED
  BY <1>1, <1>2, <1>3, <1>4 DEF AccountInv, Dropped

(* One turn of the sampler's thread counts in exactly one place. *)
LEMMA TurnCounted ==
  ASSUME AccountShape, FailAuth \/ \E t \in Token : VerifyToken(t)
  PROVE  /\ AccountShape' /\ packets' = packets + 1
         /\ \/ /\ stats' = stats /\ SumFunction(accepted') = SumFunction(accepted) + 1
            \/ /\ accepted' = accepted
               /\ \E r \in Reasons : stats' = [stats EXCEPT ![r] = stats[r] + 1]
<1>1. CASE FailAuth
  <2>1. packets' = packets + 1 /\ accepted' = accepted /\ "failed" \in Reasons
    BY <1>1 DEF FailAuth, Reasons
  <2>2. stats' = [stats EXCEPT !["failed"] = stats["failed"] + 1]
    BY <1>1 DEF FailAuth
  <2>3. AccountShape'
    BY <2>1, <2>2 DEF AccountShape
  <2> QED
    BY <2>1, <2>2, <2>3, Zenon
<1>2. CASE \E t \in Token : VerifyToken(t)
  <2>1. PICK t \in Token : VerifyToken(t)
    BY <1>2
  <2>2. packets' = packets + 1
    BY <2>1 DEF VerifyToken
  <2>3. \/ /\ accepted' = [accepted EXCEPT ![t] = @ + 1] /\ stats' = stats
        \/ /\ accepted' = accepted
           /\ \/ stats' = [stats EXCEPT !.from_future = @ + 1]
              \/ stats' = [stats EXCEPT !.delayed = @ + 1]
              \/ stats' = [stats EXCEPT !.replayed = @ + 1]
    BY <2>1 DEF VerifyToken
  <2>4. CASE accepted' = [accepted EXCEPT ![t] = @ + 1] /\ stats' = stats
    <3>1. accepted' \in [Token -> Nat] /\ SumFunction(accepted') = SumFunction(accepted) + 1
      BY <2>4, AcceptedGrows DEF AccountShape
    <3> QED
      BY <2>2, <2>4, <3>1 DEF AccountShape
  <2>5. CASE accepted' # [accepted EXCEPT ![t] = @ + 1] \/ stats' # stats
    BY <2>2, <2>3, <2>5 DEF AccountShape, Reasons
  <2> QED
    BY <2>4, <2>5
<1> QED
  BY <1>1, <1>2

(* brubeck_stats_inc of a counter that is not one of the reasons. *)
LEMMA OtherCounted ==
  ASSUME StatsInv, NEW c \in Counter \ Reasons, Stats!StatsInc(c), NEW s \in Reasons
  PROVE  total'[s] = total[s]
BY Counters DEF StatsInv, Shape, Stats!StatsInc, Reasons

(* The reason that is counted is the one of the drop. *)
LEMMA PacketCounted == ASSUME StatsInv, AccountInv, SecurePacket PROVE AccountInv'
<1>1. PICK c \in Counter : Outcome(c) /\ Stats!StatsInc(c)
  BY DEF SecurePacket, Counter
<1>2. AccountShape
  BY DEF AccountInv
<1>3. FailAuth \/ \E t \in Token : VerifyToken(t)
  BY DEF SecurePacket
<1>4. AccountShape' /\ packets' = packets + 1
  BY <1>2, <1>3, TurnCounted
<1>5. DOMAIN stats = Reasons /\ Reasons \subseteq Counter
  BY <1>2, Counters DEF AccountShape, Reasons
<1>6. SumFunction(accepted) \in Nat /\ Dropped \in Int
  BY <1>2 DEF AccountInv, AccountShape, Dropped
<1>7. CASE stats' = stats /\ SumFunction(accepted') = SumFunction(accepted) + 1
  <2>1. c \notin Reasons
    BY <1>1, <1>5, <1>7 DEF Outcome
  <2>2. ASSUME NEW s \in Reasons PROVE total'[s] = stats'[s]
    BY <1>1, <1>7, <2>1, <2>2, OtherCounted DEF AccountInv
  <2>3. Dropped' = Dropped
    BY <1>7 DEF Dropped
  <2> QED
    BY <1>4, <1>6, <1>7, <2>2, <2>3 DEF AccountInv
<1>8. CASE accepted' = accepted /\ \E r \in Reasons : stats' = [stats EXCEPT ![r] = stats[r] + 1]
  <2>1. PICK r \in Reasons : stats' = [stats EXCEPT ![r] = stats[r] + 1]
    BY <1>8
  <2>2. stats[r] \in Nat /\ stats'[r] = stats[r] + 1
    BY <1>2, <2>1 DEF AccountShape, Reasons
  <2>3. c = r
    BY <1>1, <1>5, <2>1, <2>2 DEF Outcome
  <2>4. total' = [total EXCEPT ![r] = total[r] + 1]
    BY <1>1, <2>3 DEF Stats!StatsInc
  <2>5. ASSUME NEW s \in Reasons PROVE total'[s] = stats'[s]
    BY <1>5, <2>1, <2>4, <2>5 DEF AccountInv, StatsInv, Shape
  <2>6. Dropped' = Dropped + 1
    BY <1>2, <2>1 DEF AccountShape, Dropped, Reasons
  <2>7. SumFunction(accepted') \in Nat /\ packets' = SumFunction(accepted') + Dropped'
    BY <1>4, <1>6, <1>8, <2>6 DEF AccountInv
  <2> QED
    BY <1>4, <2>5, <2>7 DEF AccountInv
<1> QED
  BY <1>2, <1>3, <1>7, <1>8, TurnCounted

LEMMA AccountStep == StatsInv /\ AccountInv /\ [SecureNext]_allVars => AccountInv'
<1> SUFFICES ASSUME StatsInv, AccountInv, [SecureNext]_allVars PROVE AccountInv'
  OBVIOUS
<1>1. ASSUME UNCHANGED <<packets, accepted, stats>>, \A s \in Reasons : total'[s] = total[s]
      PROVE  AccountInv'
  BY <1>1 DEF AccountInv, AccountShape, Dropped
<1>2. CASE SecurePacket
  BY <1>2, PacketCounted
<1>3. CASE OtherWorker
  <2>1. PICK c \in {"metrics", "errors", "unique_keys"} : Stats!StatsInc(c)
    BY <1>3 DEF OtherWorker
  <2>2. c \in Counter \ Reasons
    BY Counters DEF Reasons
  <2>3. \A s \in Reasons : total'[s] = total[s]
    BY <2>1, <2>2, OtherCounted
  <2> QED
    BY <1>1, <1>3, <2>3 DEF OtherWorker, vars
<1>4. CASE Clock \/ HttpRequest \/ UNCHANGED allVars
  BY <1>1, <1>4 DEF Clock, Tick, SetBack, HttpRequest, allVars, vars, statsVars
<1>5. CASE InternalSample
  BY Zenon, <1>1, <1>5 DEF InternalSample, Stats!Begin, Stats!Take, Stats!Report, vars
<1> QED
  BY <1>2, <1>3, <1>4, <1>5 DEF SecureNext

(* Whenever datagrams are dropped while the backend takes the counters, and however often
   a counter wraps: every datagram was passed on, or was or will be reported under exactly
   one reason. *)
THEOREM DatagramsAccountedAlways == SecureSpec => []DatagramsAccounted
<1>1. StatsInv /\ AccountInv => DatagramsAccounted
  <2> SUFFICES ASSUME StatsInv, AccountInv PROVE DatagramsAccounted
    OBVIOUS
  <2>1. Reasons \subseteq Counter \ {"unique_keys"}
    BY Counters DEF Reasons
  <2>2. ASSUME NEW s \in Reasons
        PROVE  Known(s) \in Nat /\ \E k \in Int : stats[s] = Known(s) + CounterWord * k
    <3>1. PICK k \in Int : Wrapped(s, k)
      BY <2>1 DEF StatsInv, CountersInv
    <3>2. Known(s) = reported[s] + live[s] + Hand(s)
      BY DEF Known, Hand
    <3>3. reported[s] \in Nat /\ live[s] \in Nat /\ Hand(s) \in Nat
      BY <2>1 DEF StatsInv, Shape, Hand
    <3> QED
      BY <3>1, <3>2, <3>3 DEF Wrapped, AccountInv
  <2> DEFINE a == Known("failed")
             b == Known("from_future")
             c == Known("delayed")
             d == Known("replayed")
             n == SumFunction(accepted)
  <2>3. PICK ka \in Int : stats["failed"] = a + CounterWord * ka
    BY <2>2 DEF Reasons
  <2>4. PICK kb \in Int : stats["from_future"] = b + CounterWord * kb
    BY <2>2 DEF Reasons
  <2>5. PICK kc \in Int : stats["delayed"] = c + CounterWord * kc
    BY <2>2 DEF Reasons
  <2>6. PICK kd \in Int : stats["replayed"] = d + CounterWord * kd
    BY <2>2 DEF Reasons
  <2>7. a \in Nat /\ b \in Nat /\ c \in Nat /\ d \in Nat
    BY <2>2 DEF Reasons
  <2>8. n \in Nat
    BY DEF AccountInv
  <2>9. packets = n + stats["failed"] + stats["from_future"] + stats["delayed"] + stats["replayed"]
    BY <2>8 DEF AccountInv, AccountShape, Dropped
  <2>10. packets \in Nat /\ CounterWord \in Nat /\ CounterWord > 0
    BY CounterAssumption DEF AccountInv, AccountShape
  <2> HIDE DEF a, b, c, d, n
  <2> DEFINE k == ka + kb + kc + kd
             m == n + a + b + c + d
  <2>11. CounterWord * k = CounterWord * ka + CounterWord * kb + CounterWord * kc + CounterWord * kd
    BY ONLY <2>10, ka \in Int, kb \in Int, kc \in Int, kd \in Int
  <2>12. packets = m + CounterWord * k /\ k \in Int /\ m \in Nat
    BY <2>3, <2>4, <2>5, <2>6, <2>7, <2>8, <2>9, <2>10, <2>11
  <2> HIDE DEF k, m
  <2>13. packets % CounterWord = m % CounterWord
    BY <2>10, <2>12, SameRemainder
  <2> QED
    BY <2>13 DEF DatagramsAccounted, m, a, b, c, d, n
<1> QED
  BY StatsInit, StatsStep, AccountStart, AccountStep, <1>1, PTL DEF SecureSpec
=============================================================================
