---------------------------- MODULE StatsdSecure ----------------------------
(***************************************************************************)
(* The statsd-secure sampler (samplers/statsd-secure.c) and its rolling    *)
(* bloom filters (bloom.c): one thread that checks the HMAC, the timestamp *)
(* and the filter of every datagram before it is parsed.  The network may  *)
(* delay, reorder and duplicate datagrams, so any token can arrive at any  *)
(* time, any number of times.                                              *)
(***************************************************************************)
EXTENDS Naturals, FiniteSets

CONSTANTS
  drift,       \* statsd->drift, "max_drift"
  bits,        \* bloom->bits
  hashes,      \* bloom->hashes
  Word,        \* 2^32, the modulus of uint32_t
  Token,       \* [timestamp, ha, hb] of a datagram; ha and hb are part of its HMAC
  Start,       \* the clock when the sampler starts
  MaxTime,     \* bound: the clock
  MaxBacks,    \* bound: how often the clock is set back
  MaxPackets   \* bound: datagrams received

ASSUME SecureAssumption ==
  /\ drift \in Nat \ {0} /\ bits \in Nat \ {0} /\ hashes \in Nat \ {0} /\ Word \in Nat \ {0}
  /\ \A t \in Token : t.timestamp \in Nat /\ t.ha \in Nat /\ t.hb \in Nat
  /\ Start \in Nat \ {0} /\ MaxTime \in Nat /\ MaxBacks \in Nat /\ MaxPackets \in Nat

VARIABLES
  clock,     \* CLOCK_REALTIME, in seconds
  now,       \* statsd->now
  filters,   \* statsd->replays: the bits set in each filter
  stats,     \* internal_stats.live.secure
  packets,   \* history: datagrams received
  accepted,  \* history: how often a token was passed on to the parser
  since,     \* history: the same, since the clock was last set back
  added,     \* history: the tokens added to a filter since its reset
  backs      \* history: how often the clock was set back

vars == <<clock, now, filters, stats, packets, accepted, since, added, backs>>

Filter == 0 .. (drift - 1)

Init ==
  /\ clock = Start /\ now = 0
  /\ filters = [f \in Filter |-> {}]
  /\ stats = [failed |-> 0, from_future |-> 0, delayed |-> 0, replayed |-> 0]
  /\ packets = 0
  /\ accepted = [t \in Token |-> 0] /\ since = accepted
  /\ added = filters /\ backs = 0
-----------------------------------------------------------------------------
(* Time passes; whole seconds may pass without a datagram. *)
Tick ==
  /\ clock < MaxTime
  /\ clock' = clock + 1
  /\ UNCHANGED <<now, filters, stats, packets, accepted, since, added, backs>>

(* CLOCK_REALTIME is the time of day, which may be set back to any second. *)
SetBack ==
  /\ backs < MaxBacks
  /\ clock' \in 0 .. (clock - 1) /\ backs' = backs + 1
  /\ since' = [t \in Token |-> 0]
  /\ UNCHANGED <<now, filters, stats, packets, accepted, added>>

(* A datagram that is too short, or whose HMAC is not the one of its content.
   Mutant: it is dropped without being counted. *)
FailSilently ==
  /\ packets < MaxPackets
  /\ packets' = packets + 1
  /\ UNCHANGED <<clock, now, filters, stats, accepted, since, added, backs>>

FailAuth ==
  /\ packets < MaxPackets
  /\ packets' = packets + 1
  /\ stats' = [stats EXCEPT !.failed = @ + 1]
  /\ UNCHANGED <<clock, now, filters, accepted, since, added, backs>>

(* multibloom_check: the bits of a token; they have all been set already, and
   not by this very call, exactly when every one of them was set before it. *)
HashBits(t) == {((t.ha + i * t.hb) % Word) % bits : i \in 0 .. (hashes - 1)}

(* The bits that a call sets.  Mutant: the first hash is only tested. *)
AllButFirst(t) == {((t.ha + i * t.hb) % Word) % bits : i \in 1 .. (hashes - 1)}
SetBits(t) == HashBits(t)

(* The filter of a timestamp.  Mutant: the filter of the current second. *)
CurrentFilter(ts) == now' % drift
FilterOf(ts) == ts % drift

(* When the clock shows a new second, the filter of that second is reset.
   Mutant: it is reset for every datagram. *)
EveryPacket == TRUE
NewSecond == clock # now

Reset(fs) == IF NewSecond THEN [fs EXCEPT ![clock % drift] = {}] ELSE fs

VerifyToken(t) ==
  LET fresh == Reset(filters)
      f     == FilterOf(t.timestamp) IN
  /\ packets < MaxPackets
  /\ packets' = packets + 1
  /\ now' = clock
  /\ \/ /\ now' < t.timestamp
        /\ filters' = fresh /\ added' = Reset(added)
        /\ stats' = [stats EXCEPT !.from_future = @ + 1]
        /\ UNCHANGED <<accepted, since>>
     \/ /\ now' >= t.timestamp /\ now' - t.timestamp > drift
        /\ filters' = fresh /\ added' = Reset(added)
        /\ stats' = [stats EXCEPT !.delayed = @ + 1]
        /\ UNCHANGED <<accepted, since>>
     \/ /\ now' >= t.timestamp /\ now' - t.timestamp <= drift
        /\ HashBits(t) \subseteq fresh[f]
        /\ filters' = fresh /\ added' = Reset(added)
        /\ stats' = [stats EXCEPT !.replayed = @ + 1]
        /\ UNCHANGED <<accepted, since>>
     \/ /\ now' >= t.timestamp /\ now' - t.timestamp <= drift
        /\ ~(HashBits(t) \subseteq fresh[f])
        /\ filters' = [fresh EXCEPT ![f] = @ \cup SetBits(t)]
        /\ added' = [Reset(added) EXCEPT ![f] = @ \cup {t}]
        /\ accepted' = [accepted EXCEPT ![t] = @ + 1]
        /\ since' = [since EXCEPT ![t] = @ + 1]
        /\ UNCHANGED stats
  /\ UNCHANGED <<clock, backs>>

Next == Tick \/ SetBack \/ FailAuth \/ \E t \in Token : VerifyToken(t)

Spec == Init /\ [][Next]_vars
-----------------------------------------------------------------------------
TypeOK ==
  /\ clock \in Nat /\ now \in Nat /\ packets \in Nat
  /\ filters \in [Filter -> SUBSET (0 .. (bits - 1))]
  /\ accepted \in [Token -> Nat]

(* What is left of "prevent replay attacks" (README), however datagrams are delayed,
   reordered and duplicated and wherever the clock was set back to: as long as the
   clock is not set back again, a datagram that is delivered more than once is counted
   once until it is `drift' seconds old, and at most once more when it is exactly that
   old: its filter is reset at that second, and the datagram is not delayed yet. *)
DuplicatesDropped ==
  \A t \in Token : since[t] <= IF now < t.timestamp + drift THEN 1 ELSE 2

(* However the clock moves: a token that was counted is counted again only by a
   datagram for which verify_token has just reset the token's filter. *)
OncePerReset ==
  [][\A t \in Token :
       accepted'[t] > accepted[t] /\ t \in added[t.timestamp % drift]
         => clock # now /\ clock % drift = t.timestamp % drift]_vars

(* Seconds do not disturb each other: a token is only dropped as a replay when
   accepted tokens whose timestamps share its filter cover all of its bits. *)
DropsAreLocal ==
  [][\A t \in Token : VerifyToken(t) /\ stats'.replayed > stats.replayed =>
       HashBits(t) \subseteq
         UNION {HashBits(u) : u \in {u \in Token : accepted[u] > 0
                                       /\ u.timestamp % drift = t.timestamp % drift}}]_vars

(* README: "StatsD-secure uses a bloom filter to prevent replay attacks": a datagram
   is not counted a second time, as long as the clock is not set back. *)
ReplaysPrevented == backs = 0 => \A t \in Token : accepted[t] <= 1
=============================================================================
