----------------------------- MODULE Histogram -----------------------------
(***************************************************************************)
(* A histogram or timer metric (histogram.c, and histogram__record and     *)
(* histogram__sample of metric.c): values pushed by workers, summarised    *)
(* and emptied by a backend.  Both run under the metric's spinlock, so a   *)
(* push and a sample are one step each.                                    *)
(***************************************************************************)
EXTENDS Naturals, Sequences, FiniteSetsExt, Order

CONSTANTS
  HISTO_INIT_SIZE,
  USHRT_MAX,      \* of uint16_t alloc, size
  Value,          \* values of messages
  Freq,           \* 1 / sample rate of a message, in units of 1/Unit
  Unit,
  MaxPushes,      \* bound: pushes in a behaviour
  Garbage         \* what is read outside of values[0 .. size - 1]

Word16 == 65536   \* the values of a uint16_t

ASSUME HistogramAssumption ==
  /\ HISTO_INIT_SIZE \in Nat \ {0} /\ USHRT_MAX \in Nat /\ HISTO_INIT_SIZE <= USHRT_MAX
  /\ USHRT_MAX < Word16
  /\ Value \subseteq Nat /\ Unit \in Nat \ {0} /\ MaxPushes \in Nat
  /\ Freq \subseteq Nat /\ \A f \in Freq : Unit <= f

VARIABLES
  values,     \* histo->values[0 .. size - 1], and with it histo->size
  alloc, count,
  sample,     \* the last brubeck_histo_sample, and the number of keys reported for it
  recent,     \* history: the values pushed since the last sample
  pushes,     \* history: number of pushes
  weight,     \* history: the sum of their frequencies, in 1/Unit
  reported    \* history: the sum of the counts sampled

vars == <<values, alloc, count, sample, recent, pushes, weight, reported>>

size == Len(values)

(* new_metric: all zero. *)
Init ==
  /\ values = <<>> /\ alloc = 0 /\ count = 0 /\ sample = [count |-> 0, keys |-> 0]
  /\ recent = <<>> /\ pushes = 0 /\ weight = 0 /\ reported = 0
-----------------------------------------------------------------------------
(* The size to reallocate to.  Mutant: the limit is forgotten. *)
Lesser(a, b)  == IF a <= b THEN a ELSE b
Greater(a, b) == IF a >= b THEN a ELSE b
GrownFreely(a) == Greater(a * 2, HISTO_INIT_SIZE)
Grown(a) == Greater(Lesser(a * 2, USHRT_MAX), HISTO_INIT_SIZE)

(* count += sample_freq: the sum is a double, stored in a uint32_t.
   Mutant: it is rounded up. *)
RoundedUp(f) == (count * Unit + f + Unit - 1) \div Unit
Counted(f) == (count * Unit + f) \div Unit

Full == size = alloc /\ size = USHRT_MAX

HistoPush(v, f) ==
  /\ pushes < MaxPushes
  /\ count' = Counted(f)
  /\ \/ Full /\ UNCHANGED <<values, alloc>>
     \/ /\ ~Full
        /\ alloc' = IF size = alloc THEN Grown(alloc) ELSE alloc
        /\ values' = Append(values, v)
  /\ recent' = Append(recent, v)
  /\ pushes' = pushes + 1 /\ weight' = weight + f
  /\ UNCHANGED <<sample, reported>>

(* Numbers of type float, as multiples of 2^-24: those below 1 are whole multiples
   of it, a larger one is rounded to 24 bits, a half to the even side. *)
One == 16777216
Ulps == {2, 4, 8, 16, 32, 64, 128, 256, 512, 1024, 2048, 4096, 8192, 16384, 32768, 65536}
Ulp(x) == IF x < One THEN 1 ELSE CHOOSE u \in Ulps : One <= 2 * (x \div u) /\ x \div u < One
ToFloat(x) ==
  LET u == Ulp(x)
      up == 2 * (x % u) > u \/ (2 * (x % u) = u /\ (x \div u) % 2 = 1) IN
  u * (IF up THEN x \div u + 1 ELSE x \div u)

(* The float nearest to mille/1000: mille * 2^24 / 1000 = mille * 2^21 / 125. *)
FloatRank(mille) == (mille * 2097152 + 62) \div 125

(* floor(rank * size + 0.5f), each operation rounded.  Mutant: no 0.5 is added. *)
Truncated(mille, n) == ToFloat(FloatRank(mille) * n) \div One
Rank(mille, n) == ToFloat(ToFloat(FloatRank(mille) * n) + One \div 2) \div One

Percentile(s, mille) ==
  LET irank == Rank(mille, Len(s)) IN IF irank \in DOMAIN s THEN s[irank] ELSE Garbage

Permille == <<500, 750, 950, 980, 990, 999>>  \* the median first

(* What a sample leaves in the count. *)
CountReset == 0

(* histogram__sample: .count and .count_ps, and the rest unless the count is 0. *)
ReportedKeys(n) == IF n = 0 THEN 2 ELSE 12

(* The mean, sum / size, is left out. *)
HistoSample ==
  LET s == Sorted(values) IN
  /\ \/ /\ size = 0
        /\ sample' = [count |-> 0, keys |-> ReportedKeys(0)]
        /\ UNCHANGED <<values, count>>
     \/ /\ size > 0
        /\ sample' = [count |-> count, keys |-> ReportedKeys(count),
                      min |-> s[1], max |-> s[size], sum |-> SumFunction(s),
                      percentile |-> [i \in DOMAIN Permille |-> Percentile(s, Permille[i])]]
        /\ values' = <<>> /\ count' = CountReset
  /\ reported' = reported + sample'.count
  /\ recent' = <<>>
  /\ UNCHANGED <<alloc, pushes, weight>>

Next == (\E v \in Value, f \in Freq : HistoPush(v, f)) \/ HistoSample

Spec == Init /\ [][Next]_vars
-----------------------------------------------------------------------------
TypeOK ==
  /\ values \in Seq(Value) /\ alloc \in Nat /\ count \in Nat
  /\ pushes \in 0 .. MaxPushes /\ weight \in Nat /\ reported \in Nat

(* values[size++] stays inside the allocated array and size inside uint16_t,
   through every reallocation and after the histogram is full. *)
InBounds == size <= alloc /\ alloc <= USHRT_MAX

(* brubeck_histo_sample returns without touching the count when there is no
   value, and histogram__sample reports only two keys when the count is 0: the
   two tests agree, no value goes unreported. *)
EmptyIffZero == size = 0 <=> count = 0

(* The counts sampled account for all that was pushed, the values beyond
   USHRT_MAX included, up to the fraction of less than one per push that the
   conversion to uint32_t drops. *)
CountAccounted ==
  LET total == (reported + count) * Unit IN
  total <= weight /\ weight <= total + pushes * (Unit - 1)

(* A sample summarises the first USHRT_MAX values pushed since the last one: the
   extremes, the sum, and for a rank q of n values one that has at most q - 1/2
   of them below it and more than q - 1/2 at or below it, up to the hundredth of
   a value that the float arithmetic is off by. *)
NearestRank(s, p, mille) ==
  /\ p \in Range(s)
  /\ 1000 * Below(s, p) + 500 <= mille * Len(s) + 10
  /\ mille * Len(s) < 1000 * AtMost(s, p) + 500 + 10
SampleSummarises ==
  [][HistoSample /\ recent # <<>> =>
       LET kept == SubSeq(recent, 1, Lesser(Len(recent), USHRT_MAX)) IN
       /\ sample'.min = Min(Range(kept)) /\ sample'.max = Max(Range(kept))
       /\ sample'.sum = SumFunction(kept)
       /\ \A i \in DOMAIN Permille : NearestRank(kept, sample'.percentile[i], Permille[i])]_vars
============================================================================
