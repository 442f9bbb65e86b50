--------------------------- MODULE InternalStats ---------------------------
(***************************************************************************)
(* The statistics brubeck keeps of itself (server.h, internal_sampler.c):  *)
(* workers increment the live counters, the backend of the internal metric *)
(* takes them one by one, and the HTTP endpoint shows the last ones taken. *)
(***************************************************************************)
EXTENDS Naturals, Sequences

CONSTANTS
  Word,       \* the modulus of the counters, 2^32 for uint32_t
  MaxIncs,    \* bounds: increments and ticks
  MaxTicks

Order == <<"metrics", "errors", "unique_keys", "failed", "from_future", "delayed", "replayed">>
Stat == {Order[n] : n \in DOMAIN Order}

VARIABLES
  live, sample,  \* server->internal_stats
  i, value,      \* brubeck_internal__sample: the counter taken, 0 outside; its value, 0 when dead
  taken,         \* has that counter been taken already?
  incs, ticks,   \* history: number of increments and of ticks
  total,         \* history: increments of each counter
  reported       \* history: the sum of the values handed to the backend

vars == <<live, sample, i, value, taken, incs, ticks, total, reported>>

(* After brubeck_internal__init, which has counted the internal metric itself. *)
Init ==
  /\ live = [s \in Stat |-> IF s = "unique_keys" THEN 1 ELSE 0]
  /\ total = live
  /\ sample = [s \in Stat |-> 0] /\ reported = sample
  /\ i = 0 /\ value = 0 /\ taken = FALSE
  /\ incs = 0 /\ ticks = 0

StatsInc(s) ==
  /\ incs < MaxIncs
  /\ live' = [live EXCEPT ![s] = (@ + 1) % Word]
  /\ total' = [total EXCEPT ![s] = @ + 1]
  /\ incs' = incs + 1
  /\ UNCHANGED <<sample, i, value, taken, ticks, reported>>

Begin ==
  /\ i = 0 /\ ticks < MaxTicks
  /\ i' = 1 /\ ticks' = ticks + 1
  /\ UNCHANGED <<live, sample, value, taken, incs, total, reported>>

(* What the counter holds after it was taken: unique_keys is only read.
   Mutant: it is reset like the others. *)
AllReset(s) == 0
Left(s) == IF s = "unique_keys" THEN live[s] ELSE 0

(* brubeck_atomic_swap or brubeck_atomic_fetch *)
Take ==
  /\ i > 0 /\ ~taken
  /\ value' = live[Order[i]]
  /\ live' = [live EXCEPT ![Order[i]] = Left(Order[i])]
  /\ taken' = TRUE
  /\ UNCHANGED <<sample, i, incs, ticks, total, reported>>

(* What the counter holds after it was reported.
   Mutant: it is reset here too. *)
ResetLate(s) == 0
Untouched(s) == live[s]

Report ==
  /\ taken
  /\ sample' = [sample EXCEPT ![Order[i]] = value]
  /\ reported' = [reported EXCEPT ![Order[i]] = @ + value]
  /\ live' = [live EXCEPT ![Order[i]] = Untouched(Order[i])]
  /\ i' = IF i = Len(Order) THEN 0 ELSE i + 1
  /\ taken' = FALSE /\ value' = 0
  /\ UNCHANGED <<incs, ticks, total>>

Next == (\E s \in Stat : StatsInc(s)) \/ Begin \/ Take \/ Report

Spec == Init /\ [][Next]_vars
-----------------------------------------------------------------------------
(* What was reported and what is still to be reported add up to what was counted,
   modulo the width of a counter. *)
Conserved ==
  \A s \in Stat \ {"unique_keys"} :
    (reported[s] + live[s] + (IF taken /\ Order[i] = s THEN value ELSE 0)) % Word = total[s] % Word

(* A step that shows the number of unique keys neither lowers it nor is ahead of
   the keys counted, until Word of them have been. *)
KeysNeverFall ==
  LET s == "unique_keys" IN
  total[s] < Word => sample[s] <= sample'[s] /\ sample'[s] <= total[s]
=============================================================================
