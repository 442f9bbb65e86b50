---------------------------- MODULE SecureStats ----------------------------
(***************************************************************************)
(* The statsd-secure sampler together with the statistics that report what *)
(* it drops: the sampler's thread and the workers of the other samplers    *)
(* count while a backend thread takes and resets the counters, and the     *)
(* HTTP endpoint shows them.                                               *)
(***************************************************************************)
EXTENDS StatsdSecure, Sequences, Functions

CONSTANTS CounterWord, MaxIncs, MaxTicks, MaxRequests, None

ASSUME CounterAssumption == CounterWord \in Nat \ {0} /\ MaxIncs \in Nat /\ MaxTicks \in Nat

(* The fields of a token have a fixed width. *)
ASSUME TokenAssumption == IsFiniteSet(Token)

VARIABLES
  live, sample, i, value, taken, incs, ticks, total, reported,
  left, newest, oldest, requests

Stats == INSTANCE HttpStats WITH Word <- CounterWord

statsVars == <<live, sample, i, value, taken, incs, ticks, total, reported>>
httpVars == <<left, newest, oldest, requests>>
allVars == <<vars, statsVars, httpVars>>

SecureInit == Init /\ Stats!Init /\ Stats!HttpInit

(* What the handling of one datagram counts: the reason it was dropped for, or
   what the parser made of its one message. *)
Outcome(s) ==
  IF s \in DOMAIN stats THEN stats'[s] # stats[s]
                        ELSE stats' = stats /\ s \in {"metrics", "errors"}

(* One turn of statsd_secure__thread.  Only the counter is shared with other
   threads, so the turn is one step. *)
SecurePacket ==
  /\ FailAuth \/ \E t \in Token : VerifyToken(t)
  /\ \E s \in Stats!Stat : Outcome(s) /\ Stats!StatsInc(s)
  /\ UNCHANGED httpVars

(* A worker of another sampler counts a message, an error or a new key; or a read
   of this one fails. *)
OtherWorker ==
  /\ \E s \in {"metrics", "errors", "unique_keys"} : Stats!StatsInc(s)
  /\ UNCHANGED <<vars, httpVars>>

(* The time of day goes on, or is set back. *)
Clock ==
  /\ Tick \/ SetBack
  /\ UNCHANGED <<statsVars, httpVars>>

(* The backend thread samples the internal metric. *)
InternalSample ==
  /\ Stats!Begin \/ Stats!Take \/ Stats!Report
  /\ UNCHANGED <<vars, httpVars>>

HttpRequest ==
  /\ Stats!HttpNext
  /\ UNCHANGED <<vars, statsVars>>

SecureNext == SecurePacket \/ OtherWorker \/ Clock \/ InternalSample \/ HttpRequest

SecureSpec == SecureInit /\ [][SecureNext]_allVars
-----------------------------------------------------------------------------
(* No increment is lost or reported twice, whenever a worker counts while the
   backend is taking the counters in brubeck_internal__sample; only a wrap-around
   of the counter loses any. *)
StatsConserved == Stats!Conserved

(* The number of unique keys that /stats, /ping and the backend are shown never
   falls, and is never ahead of the keys counted, until 2^32 of them have been. *)
UniqueKeysNeverFall == [][Stats!KeysNeverFall]_allVars

(* A response of GET /stats can mix two ticks, but only one way: its messages, errors
   and keys are never from an older tick than the drops of statsd-secure it shows. *)
StatsInOrder == Stats!NotOlder

(* What was or will be reported of s. *)
Known(s) == reported[s] + live[s] + (IF taken /\ Stats!Order[i] = s THEN value ELSE 0)

(* Operators can trust the reports: a datagram the sampler received was passed
   on to the parser, or it was or will be reported to the backend under exactly
   one of the four reasons, even when it is dropped while the counters are being
   taken. *)
DatagramsAccounted ==
  packets % CounterWord =
    (SumFunction(accepted)
       + Known("failed") + Known("from_future") + Known("delayed") + Known("replayed")) % CounterWord
=============================================================================
