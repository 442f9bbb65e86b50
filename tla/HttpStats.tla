----------------------------- MODULE HttpStats -----------------------------
(***************************************************************************)
(* GET /stats (http.c): the thread of the HTTP endpoint reads the counters *)
(* last sampled, one by one, while the backend thread replaces them.       *)
(***************************************************************************)
EXTENDS InternalStats, FiniteSets

CONSTANT MaxRequests   \* bound: requests

VARIABLES
  left,       \* what send_stats has still to read, None outside a request
  newest,     \* history: the newest tick of a counter read for this response
  oldest,     \* history: the oldest tick of metrics, errors and unique_keys in it
  requests    \* history: number of requests

CONSTANT None

httpVars == <<left, newest, oldest, requests>>

Secure == {"failed", "from_future", "delayed", "replayed"}

(* The tick that the sampled value of a counter is from. *)
SampledIn(s) ==
  IF i = 0 \/ (\E n \in 1 .. (i - 1) : Order[n] = s) THEN ticks ELSE ticks - 1

HttpInit == left = None /\ newest = 0 /\ oldest = MaxTicks /\ requests = 0

SendStats ==
  /\ left = None /\ requests < MaxRequests
  /\ left' = Stat /\ newest' = 0 /\ oldest' = MaxTicks
  /\ requests' = requests + 1

(* One json_pack reads the counters of "secure" and a second one the others; the order
   of the arguments of a call is the compiler's.  Mutant: one call reads them all. *)
AnyOf(stats) == stats
Readable(stats) == IF stats \cap Secure # {} THEN stats \cap Secure ELSE stats

ReadStat ==
  /\ left \notin {None, {}}
  /\ \E s \in Readable(left) :
     /\ left' = left \ {s}
     /\ IF s \in Secure
        THEN newest' = (IF SampledIn(s) > newest THEN SampledIn(s) ELSE newest) /\ UNCHANGED oldest
        ELSE oldest' = (IF SampledIn(s) < oldest THEN SampledIn(s) ELSE oldest) /\ UNCHANGED newest
  /\ UNCHANGED requests

Respond ==
  /\ left = {} /\ left' = None
  /\ UNCHANGED <<newest, oldest, requests>>

HttpNext == SendStats \/ ReadStat \/ Respond
-----------------------------------------------------------------------------
(* The messages and errors shown with the drops of a tick are never older than them. *)
NotOlder == newest <= oldest
=============================================================================
