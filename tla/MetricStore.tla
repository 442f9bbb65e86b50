---------------------------- MODULE MetricStore ----------------------------
(***************************************************************************)
(* The shared metric store of brubeck: the hash table server->metrics, the *)
(* lock-free queue of metrics of every backend, and the expire flag of     *)
(* every metric, as used concurrently by                                   *)
(*   - the statsd workers      (metric.c: brubeck_metric_find, _new, _record)*)
(*   - the backend threads     (backend.c: backend__thread)                *)
(*   - the main thread         (server.c: the expire timer, the dump)      *)
(*   - the HTTP daemon thread  (http.c: POST /expire/...).                 *)
(* One action is one step of one thread between two accesses to shared     *)
(* memory.  The critical section of a metric's spinlock is one step.       *)
(***************************************************************************)
EXTENDS Naturals, FiniteSets

CONSTANTS
  Worker,       \* the statsd worker threads
  Main,         \* the main thread, which created the internal metric
  Key,          \* metric names
  Internal,     \* server->name, the key of the internal statistics
  Backend,      \* the carbon backends
  Shard,        \* CityHash32(key) % active_backends
  Amount,       \* values a meter message can carry, already upsampled
  MaxMessages,  \* bound: messages received in a behaviour
  NULL

BRUBECK_EXPIRE_DISABLED == 0
BRUBECK_EXPIRE_INACTIVE == 1
BRUBECK_EXPIRE_ACTIVE   == 2

(***************************************************************************)
(* A thread allocates a metric for a key only when its lookup failed, and  *)
(* once brubeck_metric_new returned the key is in the table for good, so   *)
(* a thread allocates at most one block per key: <<thread, key>> names it. *)
(***************************************************************************)
Metric == (Worker \cup {Main}) \X Key
InternalMetric == <<Main, Internal>>
ClientKey == Key \ {Internal}
Home(m) == Shard[m[2]]

ASSUME StoreAssumption ==
  /\ Main \notin Worker
  /\ Internal \in Key
  /\ Shard \in [Key -> Backend]
  /\ Amount \subseteq Nat
  /\ MaxMessages \in Nat
  /\ NULL \notin Metric

VARIABLES
  metrics,      \* server->metrics: key -> metric or NULL
  write_mutex,  \* TRUE while the main thread iterates over the table
  queue,        \* backend->queue: head of the backend's list
  next,         \* metric->next
  expire,       \* metric->expire
  value,        \* metric->as.meter.value
  unique_keys,  \* internal_stats.live.unique_keys
  pc, key, amount, metric,   \* locals of a worker
  bpc, mt,                   \* locals of a backend thread
  todo, swept, loaded,       \* locals of the expire sweep
  dumping,      \* is dump_all_metrics, not the sweep, iterating over the table?
  received,     \* history: number of messages received
  recorded,     \* history: what was recorded for a key
  emitted,      \* history: what was handed to the sample callback for a key
  rank,         \* history: position of a metric in its queue, 0 = not queued
  goal,         \* history: length of the queue when the tick began
  visited,      \* history: metrics visited in the current or last tick
  dumped        \* history: metrics the current dump has written

tableVars   == <<metrics, write_mutex>>
queueVars   == <<queue, next, rank>>
workerVars  == <<pc, key, amount, metric, received>>
backendVars == <<bpc, mt, goal, visited>>
dumpVars    == <<dumping, dumped>>
sweepVars   == <<todo, swept, loaded, dumpVars>>
historyVars == <<recorded, emitted>>
vars == <<tableVars, queueVars, expire, value, unique_keys, workerVars,
          backendVars, sweepVars, historyVars>>

Length(b) == IF queue[b] = NULL THEN 0 ELSE rank[queue[b]]

(***************************************************************************)
(* The state after brubeck_server_init: the internal metric is in the      *)
(* table and in the queue of its shard, and no message has arrived.        *)
(***************************************************************************)
Init ==
  /\ metrics = [k \in Key |-> IF k = Internal THEN InternalMetric ELSE NULL]
  /\ write_mutex = FALSE
  /\ queue = [b \in Backend |-> IF b = Shard[Internal] THEN InternalMetric ELSE NULL]
  /\ next = [m \in Metric |-> NULL]
  /\ expire = [m \in Metric |-> IF m = InternalMetric THEN BRUBECK_EXPIRE_ACTIVE
                                                      ELSE BRUBECK_EXPIRE_DISABLED]
  /\ value = [m \in Metric |-> 0]
  /\ unique_keys = 1
  /\ pc = [w \in Worker |-> "idle"]
  /\ key = [w \in Worker |-> Internal]
  /\ amount = [w \in Worker |-> 0]
  /\ metric = [w \in Worker |-> NULL]
  /\ bpc = [b \in Backend |-> "sleep"]
  /\ mt = [b \in Backend |-> NULL]
  /\ todo = {} /\ swept = NULL /\ loaded = 0
  /\ dumping = FALSE /\ dumped = {}
  /\ received = 0
  /\ recorded = [k \in Key |-> 0]
  /\ emitted = [k \in Key |-> 0]
  /\ rank = [m \in Metric |-> IF m = InternalMetric THEN 1 ELSE 0]
  /\ goal = [b \in Backend |-> 0]
  /\ visited = [b \in Backend |-> {}]
-----------------------------------------------------------------------------
(***************************************************************************)
(* Workers.  A table entry never changes once it is set, so a lookup that  *)
(* succeeds and the access to the metric that follows it are one step.     *)
(* server->at_capacity is never assigned, so its early return is dead.     *)
(***************************************************************************)
MetricFindHit(w, k, v) ==
  /\ pc[w] = "idle" /\ received < MaxMessages
  /\ metrics[k] # NULL
  /\ expire' = [expire EXCEPT ![metrics[k]] = BRUBECK_EXPIRE_ACTIVE]
  /\ pc' = [pc EXCEPT ![w] = "record"]
  /\ key' = [key EXCEPT ![w] = k]
  /\ amount' = [amount EXCEPT ![w] = v]
  /\ metric' = [metric EXCEPT ![w] = metrics[k]]
  /\ received' = received + 1
  /\ UNCHANGED <<tableVars, queueVars, value, unique_keys, backendVars,
                 sweepVars, historyVars>>

MetricFindMiss(w, k, v) ==
  /\ pc[w] = "idle" /\ received < MaxMessages
  /\ metrics[k] = NULL
  /\ pc' = [pc EXCEPT ![w] = "new"]
  /\ key' = [key EXCEPT ![w] = k]
  /\ amount' = [amount EXCEPT ![w] = v]
  /\ metric' = [metric EXCEPT ![w] = NULL]
  /\ received' = received + 1
  /\ UNCHANGED <<tableVars, queueVars, expire, value, unique_keys, backendVars,
                 sweepVars, historyVars>>

(* ck_ht_put_spmc fails when the key is there.  Mutant: it replaces the entry. *)
PutReplaces(w) == TRUE
PutSucceeds(w) == metrics[key[w]] = NULL

(* brubeck_hashtable_insert takes write_mutex.  Mutant: it does not. *)
NoMutex == TRUE
MutexFree == ~write_mutex

(* new_metric fills a block no other thread can see; the insert publishes it. *)
MetricNewInsert(w) ==
  LET m == <<w, key[w]>> IN
  /\ pc[w] = "new" /\ MutexFree
  /\ PutSucceeds(w)
  /\ metrics' = [metrics EXCEPT ![key[w]] = m]
  /\ next' = [next EXCEPT ![m] = NULL]
  /\ expire' = [expire EXCEPT ![m] = BRUBECK_EXPIRE_ACTIVE]
  /\ value' = [value EXCEPT ![m] = 0]
  /\ metric' = [metric EXCEPT ![w] = m]
  /\ pc' = [pc EXCEPT ![w] = "register"]
  /\ UNCHANGED <<write_mutex, queue, rank, unique_keys, key, amount, received,
                 backendVars, sweepVars, historyVars>>

(* What brubeck_metric_new returns when the insert fails, and where it goes on.
   Mutants: the loser keeps its own block, or counts a unique key too. *)
OwnBlock(w) == <<w, key[w]>>
FindAgain(w) == metrics[key[w]]
LoserCounts == "inc"
AfterLosing == "record"

(* Another worker inserted the key first: its metric is used, the own block
   is leaked, and the expire flag is not touched. *)
MetricNewLose(w) ==
  /\ pc[w] = "new" /\ MutexFree
  /\ metrics[key[w]] # NULL
  /\ metric' = [metric EXCEPT ![w] = FindAgain(w)]
  /\ pc' = [pc EXCEPT ![w] = AfterLosing]
  /\ UNCHANGED <<tableVars, queueVars, expire, value, unique_keys, key, amount,
                 received, backendVars, sweepVars, historyVars>>

RegisterLink(w) ==
  /\ pc[w] = "register"
  /\ next' = [next EXCEPT ![metric[w]] = queue[Home(metric[w])]]
  /\ pc' = [pc EXCEPT ![w] = "cas"]
  /\ UNCHANGED <<tableVars, queue, rank, expire, value, unique_keys, key, amount,
                 metric, received, backendVars, sweepVars, historyVars>>

(* The comparison of the compare-and-swap, and the retry.  Mutants: the head is
   stored without comparing it; the retry does not read the head again. *)
AlwaysSame(w) == TRUE
HeadUnchanged(w) == queue[Home(metric[w])] = next[metric[w]]
RetrySame == "cas"
Retry == "register"

(* The local `next' of the C loop and metric->next are the same value. *)
RegisterCas(w) ==
  LET m == metric[w]
      b == Home(m) IN
  /\ pc[w] = "cas"
  /\ \/ /\ HeadUnchanged(w)
        /\ queue' = [queue EXCEPT ![b] = m]
        /\ rank' = [rank EXCEPT ![m] = Length(b) + 1]
        /\ pc' = [pc EXCEPT ![w] = "inc"]
     \/ /\ ~HeadUnchanged(w)
        /\ pc' = [pc EXCEPT ![w] = Retry]
        /\ UNCHANGED <<queue, rank>>
  /\ UNCHANGED <<tableVars, next, expire, value, unique_keys, key, amount,
                 metric, received, backendVars, sweepVars, historyVars>>

StatsIncUniqueKeys(w) ==
  /\ pc[w] = "inc"
  /\ unique_keys' = unique_keys + 1
  /\ pc' = [pc EXCEPT ![w] = "record"]
  /\ UNCHANGED <<tableVars, queueVars, expire, value, key, amount, metric,
                 received, backendVars, sweepVars, historyVars>>

MetricRecord(w) ==
  /\ pc[w] = "record"
  /\ value' = [value EXCEPT ![metric[w]] = @ + amount[w]]
  /\ recorded' = [recorded EXCEPT ![key[w]] = @ + amount[w]]
  /\ pc' = [pc EXCEPT ![w] = "idle"]
  /\ UNCHANGED <<tableVars, queueVars, expire, unique_keys, key, amount, metric,
                 received, backendVars, sweepVars, emitted>>
-----------------------------------------------------------------------------
(***************************************************************************)
(* Backend threads.  metric->next of a queued metric never changes, so     *)
(* following it is part of the step that finishes with the metric.         *)
(***************************************************************************)
TickBegin(b) ==
  /\ bpc[b] = "sleep"
  /\ bpc' = [bpc EXCEPT ![b] = "walk"]
  /\ mt' = [mt EXCEPT ![b] = queue[b]]
  /\ goal' = [goal EXCEPT ![b] = Length(b)]
  /\ visited' = [visited EXCEPT ![b] = {}]
  /\ UNCHANGED <<tableVars, queueVars, expire, value, unique_keys, workerVars,
                 sweepVars, historyVars>>

(* connect() failed: the tick is skipped and nothing is sampled. *)
TickNotConnected(b) ==
  /\ bpc[b] = "sleep"
  /\ UNCHANGED vars

Advance(b) ==
  /\ mt' = [mt EXCEPT ![b] = next[mt[b]]]
  /\ visited' = [visited EXCEPT ![b] = @ \cup {mt[b]}]

(* Does a tick sample the metric?  Mutant: only metrics heard of since the sweep. *)
SampledIfActive(m) == expire[m] > BRUBECK_EXPIRE_INACTIVE
Sampled(m) == expire[m] > BRUBECK_EXPIRE_DISABLED

(* mutant: the walk ends at the first disabled metric *)
WalkCheckBreaks(b) ==
  /\ bpc[b] = "walk" /\ mt[b] # NULL
  /\ IF Sampled(mt[b])
       THEN bpc' = [bpc EXCEPT ![b] = "sample"] /\ UNCHANGED <<mt, visited>>
       ELSE mt' = [mt EXCEPT ![b] = NULL] /\ UNCHANGED <<bpc, visited>>
  /\ UNCHANGED <<tableVars, queueVars, expire, value, unique_keys, workerVars,
                 goal, sweepVars, historyVars>>

WalkCheck(b) ==
  /\ bpc[b] = "walk" /\ mt[b] # NULL
  /\ \/ /\ Sampled(mt[b])
        /\ bpc' = [bpc EXCEPT ![b] = "sample"]
        /\ UNCHANGED <<mt, visited>>
     \/ /\ ~Sampled(mt[b])
        /\ Advance(b)
        /\ UNCHANGED bpc
  /\ UNCHANGED <<tableVars, queueVars, expire, value, unique_keys, workerVars,
                 goal, sweepVars, historyVars>>

(* The flag after a sample: the internal metric is marked as active. *)
MarkActive(m) == IF m = InternalMetric THEN BRUBECK_EXPIRE_ACTIVE ELSE expire[m]

(* meter__sample, or brubeck_internal__sample for the internal metric *)
MetricSample(b) ==
  /\ bpc[b] = "sample"
  /\ emitted' = [emitted EXCEPT ![mt[b][2]] = @ + value[mt[b]]]
  /\ value' = [value EXCEPT ![mt[b]] = 0]
  /\ expire' = [expire EXCEPT ![mt[b]] = MarkActive(mt[b])]
  /\ bpc' = [bpc EXCEPT ![b] = "walk"]
  /\ Advance(b)
  /\ UNCHANGED <<tableVars, queueVars, unique_keys, workerVars, goal,
                 sweepVars, recorded>>

TickEnd(b) ==
  /\ bpc[b] = "walk" /\ mt[b] = NULL
  /\ bpc' = [bpc EXCEPT ![b] = "sleep"]
  /\ UNCHANGED <<tableVars, queueVars, expire, value, unique_keys, workerVars,
                 mt, goal, visited, sweepVars, historyVars>>
-----------------------------------------------------------------------------
(***************************************************************************)
(* The expire sweep: brubeck_hashtable_foreach(expire_metric) under the    *)
(* write mutex.  expire_metric loads and stores the flag without the       *)
(* metric's lock, so the load and the store are two steps.                 *)
(***************************************************************************)
Table == {metrics[k] : k \in Key} \ {NULL}

SweepBegin ==
  /\ ~write_mutex
  /\ write_mutex' = TRUE
  /\ todo' = Table
  /\ UNCHANGED <<metrics, queueVars, expire, value, unique_keys, workerVars,
                 backendVars, swept, loaded, dumpVars, historyVars>>

Lowered(m) == expire[m] > BRUBECK_EXPIRE_DISABLED

SweepLoad(m) ==
  /\ write_mutex /\ ~dumping /\ swept = NULL /\ m \in todo
  /\ \/ /\ Lowered(m)
        /\ swept' = m /\ loaded' = expire[m]
        /\ UNCHANGED todo
     \/ /\ ~Lowered(m)
        /\ todo' = todo \ {m}
        /\ UNCHANGED <<swept, loaded>>
  /\ UNCHANGED <<tableVars, queueVars, expire, value, unique_keys, workerVars,
                 backendVars, dumpVars, historyVars>>

SweepStore ==
  /\ swept # NULL
  /\ expire' = [expire EXCEPT ![swept] = loaded - 1]
  /\ todo' = todo \ {swept}
  /\ swept' = NULL /\ loaded' = 0
  /\ UNCHANGED <<tableVars, queueVars, value, unique_keys, workerVars,
                 backendVars, dumpVars, historyVars>>

(* mutant: the sweep returns without releasing the mutex *)
SweepEndLocked ==
  /\ write_mutex /\ ~dumping /\ todo = {} /\ swept = NULL
  /\ UNCHANGED <<tableVars, queueVars, expire, value, unique_keys, workerVars,
                 backendVars, sweepVars, historyVars>>

SweepEnd ==
  /\ write_mutex /\ ~dumping /\ todo = {} /\ swept = NULL
  /\ write_mutex' = FALSE
  /\ UNCHANGED <<metrics, queueVars, expire, value, unique_keys, workerVars,
                 backendVars, sweepVars, historyVars>>

(* SIGUSR2: dump_all_metrics writes a line for every metric of the table, under the
   mutex; without a dump_path, or when fopen fails, it returns at once. *)
DumpBegin ==
  /\ ~write_mutex
  /\ write_mutex' = TRUE /\ dumping' = TRUE /\ dumped' = {}
  /\ todo' = Table
  /\ UNCHANGED <<metrics, queueVars, expire, value, unique_keys, workerVars,
                 backendVars, swept, loaded, historyVars>>

DumpMetric(m) ==
  /\ dumping /\ m \in todo
  /\ todo' = todo \ {m} /\ dumped' = dumped \cup {m}
  /\ UNCHANGED <<tableVars, queueVars, expire, value, unique_keys, workerVars,
                 backendVars, swept, loaded, dumping, historyVars>>

DumpEnd ==
  /\ dumping /\ todo = {}
  /\ write_mutex' = FALSE /\ dumping' = FALSE /\ dumped' = {}
  /\ UNCHANGED <<metrics, queueVars, expire, value, unique_keys, workerVars,
                 backendVars, todo, swept, loaded, historyVars>>

(* POST /expire/{key}: an unknown key is answered 404 and changes nothing. *)
HttpExpire(k) ==
  /\ metrics[k] # NULL
  /\ expire' = [expire EXCEPT ![metrics[k]] = BRUBECK_EXPIRE_DISABLED]
  /\ UNCHANGED <<tableVars, queueVars, value, unique_keys, workerVars,
                 backendVars, sweepVars, historyVars>>
-----------------------------------------------------------------------------
WorkerStep(w) ==
  \/ \E k \in ClientKey, v \in Amount : MetricFindHit(w, k, v) \/ MetricFindMiss(w, k, v)
  \/ MetricNewInsert(w) \/ MetricNewLose(w)
  \/ RegisterLink(w) \/ RegisterCas(w) \/ StatsIncUniqueKeys(w)
  \/ MetricRecord(w)

BackendStep(b) == TickBegin(b) \/ WalkCheck(b) \/ MetricSample(b) \/ TickEnd(b)

SweepStep == (\E m \in todo : SweepLoad(m)) \/ SweepStore \/ SweepEnd

DumpStep == (\E m \in todo : DumpMetric(m)) \/ DumpEnd

(* Any configuration, any carbon, any HTTP client. *)
Next ==
  \/ \E w \in Worker : WorkerStep(w)
  \/ \E b \in Backend : BackendStep(b) \/ TickNotConnected(b)
  \/ SweepBegin \/ SweepStep
  \/ DumpBegin \/ DumpStep
  \/ \E k \in Key : HttpExpire(k)

Spec == Init /\ [][Next]_vars

(***************************************************************************)
(* Threads that can run do run.  A worker waiting for the write mutex      *)
(* eventually gets it (strong fairness): the main thread takes the mutex   *)
(* for one sweep or dump and then sleeps in poll() until the next event.   *)
(* A backend that wakes up eventually finds carbon accepting (TickBegin).  *)
(* Messages, sweeps and HTTP requests are never forced to happen.          *)
(***************************************************************************)
Fairness ==
  /\ \A w \in Worker :
       /\ SF_vars(MetricNewInsert(w) \/ MetricNewLose(w))
       /\ WF_vars(RegisterLink(w) \/ RegisterCas(w) \/ StatsIncUniqueKeys(w) \/ MetricRecord(w))
  /\ \A b \in Backend : WF_vars(BackendStep(b))
  /\ WF_vars(SweepStep \/ DumpStep)

FairSpec == Spec /\ Fairness
-----------------------------------------------------------------------------
TypeOK ==
  /\ metrics \in [Key -> Metric \cup {NULL}]
  /\ write_mutex \in BOOLEAN
  /\ queue \in [Backend -> Metric \cup {NULL}]
  /\ next \in [Metric -> Metric \cup {NULL}]
  /\ expire \in [Metric -> BRUBECK_EXPIRE_DISABLED .. BRUBECK_EXPIRE_ACTIVE]
  /\ value \in [Metric -> Nat]
  /\ unique_keys \in Nat
  /\ pc \in [Worker -> {"idle", "new", "register", "cas", "inc", "record"}]
  /\ key \in [Worker -> Key]
  /\ amount \in [Worker -> Nat]
  /\ metric \in [Worker -> Metric \cup {NULL}]
  /\ bpc \in [Backend -> {"sleep", "walk", "sample"}]
  /\ mt \in [Backend -> Metric \cup {NULL}]
  /\ todo \in SUBSET Metric
  /\ swept \in Metric \cup {NULL}
  /\ loaded \in BRUBECK_EXPIRE_DISABLED .. BRUBECK_EXPIRE_ACTIVE
  /\ dumping \in BOOLEAN /\ dumped \in SUBSET Metric
  /\ received \in Nat
  /\ recorded \in [Key -> Nat]
  /\ emitted \in [Key -> Nat]
  /\ rank \in [Metric -> Nat]
  /\ goal \in [Backend -> Nat]
  /\ visited \in [Backend -> SUBSET Metric]

Queued(m) == rank[m] > 0

(* The lock-free push of brubeck_backend_register_metric never loses and never
   duplicates a metric: the queued metrics of a backend have the positions
   1..Length(b), one metric per position, the head has the last one, and
   following `next' from any of them goes down one position at a time to NULL.
   So the walk from the head reaches every registered metric exactly once. *)
QueueLinked ==
  /\ \A b \in Backend : queue[b] # NULL => Queued(queue[b]) /\ Home(queue[b]) = b
  /\ \A m \in Metric : Queued(m) =>
       /\ rank[m] <= Length(Home(m))
       /\ IF rank[m] = 1 THEN next[m] = NULL
          ELSE next[m] # NULL /\ Home(next[m]) = Home(m) /\ rank[next[m]] = rank[m] - 1
       /\ \A n \in Metric : Home(n) = Home(m) /\ rank[n] = rank[m] => n = m

(* A backend only ever walks metrics of the table, and a metric of the table
   that no backend walks yet is about to be queued by the worker that won the
   insert: no race between two brubeck_metric_new strands a metric. *)
TableRegistered ==
  /\ \A m \in Metric : Queued(m) => metrics[m[2]] = m
  /\ \A k \in Key : metrics[k] # NULL =>
       \/ Queued(metrics[k])
       \/ \E w \in Worker : pc[w] \in {"register", "cas"} /\ metric[w] = metrics[k]

(* No update is lost, duplicated or recorded in a block that is not in the
   table: all that was recorded for a key was either sampled or is still held
   by the one metric the table and the backend know for that key. *)
Held(k) == IF metrics[k] = NULL THEN 0 ELSE value[metrics[k]]
Conservation == \A k \in Key : recorded[k] = emitted[k] + Held(k)

(* Races, retries and failed connections are invisible to the users of the
   store: every step of the threads is a Record, an Emit or nothing of the
   abstract aggregator. *)
A == INSTANCE Aggregator WITH pending <- [k \in Key |-> Held(k)]
ImplementsAggregator == A!Spec

(* A finished walk of backend__thread has visited every metric that was queued
   when it began, although workers push new ones during the walk. *)
Before(b, r) == {m \in Metric : Home(m) = b /\ Queued(m) /\ rank[m] <= r}
WalkComplete == \A b \in Backend : bpc[b] = "sleep" => visited[b] = Before(b, goal[b])

(* unique_keys counts every queued metric once, up to the increments that are
   still to come, whichever worker wins or loses the insert. *)
UniqueKeysExact ==
  unique_keys + Cardinality({w \in Worker : pc[w] = "inc"})
    = Cardinality({m \in Metric : Queued(m)})

(* A key keeps the metric that was first inserted for it, and with it the type of that
   message, however many workers race to create it: brubeck_metric_find never hands out
   two metrics for one key, and a pointer a thread took from the table stays good. *)
EntriesPermanent == [][\A k \in Key : metrics[k] # NULL => metrics'[k] = metrics[k]]_vars

(* A dump has one line for every metric of the table at its end, although workers look
   up, record and try to insert metrics all the while. *)
DumpExact == [][DumpEnd => dumped = Table]_vars

(* Every message that was accepted is recorded: no worker starves in the retry
   loop of the push or at the write mutex. *)
MessagesComplete == \A w \in Worker : pc[w] # "idle" ~> pc[w] = "idle"

(* Nothing stays behind in a metric for ever: what is held for a key is handed to
   the backend, through retried pushes, failed connections and sweeps, unless the
   metric is disabled and so left out of the walk. *)
Disabled(k) == metrics[k] # NULL /\ expire[metrics[k]] = BRUBECK_EXPIRE_DISABLED
PendingDrained == \A k \in Key : Held(k) > 0 ~> Held(k) = 0 \/ Disabled(k)
=============================================================================
