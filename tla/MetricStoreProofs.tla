------------------------- MODULE MetricStoreProofs -------------------------
(***************************************************************************)
(* The inductive invariant of MetricStore, for any number of workers, keys,*)
(* backends and messages and any sharding: the types and the table first,  *)
(* then the push, the walk of a backend, the records and the samples; and  *)
(* the safety theorems and the refinement of Aggregator that follow.       *)
(***************************************************************************)
EXTENDS MetricStore, FiniteSetTheorems, TLAPS

(* Facts about blocks, used instead of the definition of Metric. *)
LEMMA MetricFacts ==
  /\ NULL \notin Metric
  /\ InternalMetric \in Metric /\ InternalMetric[2] = Internal /\ Internal \in Key
  /\ \A m \in Metric : m[2] \in Key /\ Home(m) \in Backend
  /\ \A w \in Worker, k \in Key : <<w, k>> \in Metric /\ <<w, k>>[2] = k
  /\ \A w1, w2 \in Worker, k1, k2 \in Key : <<w1, k1>> = <<w2, k2>> => w1 = w2 /\ k1 = k2
BY StoreAssumption DEF Metric, InternalMetric, Home

(* TypeOK is not inductive by itself: a thread that is about to use a pointer
   must have one, and the sweep only stores what it loaded from an enabled
   metric, so that the flag does not wrap around below zero. *)
TypeInv ==
  /\ TypeOK
  /\ \A w \in Worker : pc[w] \in {"register", "cas", "inc", "record"} => metric[w] # NULL
  /\ \A b \in Backend : bpc[b] = "sample" => mt[b] # NULL
  /\ swept # NULL => loaded > BRUBECK_EXPIRE_DISABLED

LEMMA TypeInvInit == Init => TypeInv
<1> SUFFICES ASSUME Init PROVE TypeInv
  OBVIOUS
<1> USE MetricFacts, StoreAssumption
    DEF Init, BRUBECK_EXPIRE_ACTIVE, BRUBECK_EXPIRE_DISABLED
<1>1. metrics \in [Key -> Metric \cup {NULL}] /\ queue \in [Backend -> Metric \cup {NULL}]
  OBVIOUS
<1>2. expire \in [Metric -> BRUBECK_EXPIRE_DISABLED .. BRUBECK_EXPIRE_ACTIVE]
  OBVIOUS
<1>3. rank \in [Metric -> Nat]
  OBVIOUS
<1>4. write_mutex \in BOOLEAN /\ dumping \in BOOLEAN /\ dumped \in SUBSET Metric
  BY Zenon
<1>5. /\ next \in [Metric -> Metric \cup {NULL}]
      /\ value \in [Metric -> Nat]
      /\ key \in [Worker -> Key] /\ amount \in [Worker -> Nat]
      /\ metric \in [Worker -> Metric \cup {NULL}]
  OBVIOUS
<1>6. /\ pc \in [Worker -> {"idle", "new", "register", "cas", "inc", "record"}]
      /\ \A w \in Worker : pc[w] = "idle"
  OBVIOUS
<1>7. /\ bpc \in [Backend -> {"sleep", "walk", "sample"}]
      /\ \A b \in Backend : bpc[b] = "sleep"
  OBVIOUS
<1>8. /\ mt \in [Backend -> Metric \cup {NULL}]
      /\ goal \in [Backend -> Nat] /\ visited \in [Backend -> SUBSET Metric]
  OBVIOUS
<1>9. /\ todo \in SUBSET Metric /\ swept = NULL
      /\ loaded \in BRUBECK_EXPIRE_DISABLED .. BRUBECK_EXPIRE_ACTIVE
      /\ unique_keys \in Nat /\ received \in Nat
      /\ recorded \in [Key -> Nat] /\ emitted \in [Key -> Nat]
  OBVIOUS
<1> HIDE DEF Init, BRUBECK_EXPIRE_ACTIVE, BRUBECK_EXPIRE_DISABLED
<1> QED
  BY <1>1, <1>2, <1>3, <1>4, <1>5, <1>6, <1>7, <1>8, <1>9 DEF TypeInv, TypeOK

LEMMA TypeInvStep == TypeInv /\ [Next]_vars => TypeInv'
<1> SUFFICES ASSUME TypeInv, [Next]_vars PROVE TypeInv'
  OBVIOUS
<1> USE MetricFacts, StoreAssumption
    DEF TypeInv, TypeOK, tableVars, queueVars, workerVars, backendVars, sweepVars,
        dumpVars, historyVars, BRUBECK_EXPIRE_ACTIVE, BRUBECK_EXPIRE_DISABLED
<1>1. ASSUME NEW w \in Worker, NEW k \in ClientKey, NEW v \in Amount,
             MetricFindHit(w, k, v) \/ MetricFindMiss(w, k, v)
      PROVE TypeInv'
  <2>1. k \in Key /\ v \in Nat
    BY DEF ClientKey
  <2>2. CASE MetricFindHit(w, k, v)
    BY <2>1, <2>2 DEF MetricFindHit
  <2>3. CASE MetricFindMiss(w, k, v)
    BY <2>1, <2>3 DEF MetricFindMiss
  <2> QED
    BY <1>1, <2>2, <2>3
<1>2. ASSUME NEW w \in Worker, MetricNewInsert(w) PROVE TypeInv'
  BY <1>2 DEF MetricNewInsert
<1>3. ASSUME NEW w \in Worker, MetricNewLose(w) PROVE TypeInv'
  BY <1>3 DEF MetricNewLose, FindAgain, AfterLosing
<1>4. ASSUME NEW w \in Worker, RegisterLink(w) PROVE TypeInv'
  BY <1>4 DEF RegisterLink
<1>5. ASSUME NEW w \in Worker, RegisterCas(w) PROVE TypeInv'
  <2> DEFINE b == Home(metric[w])
  <2>1. metric[w] \in Metric /\ b \in Backend /\ Length(b) \in Nat
    BY <1>5 DEF RegisterCas, Length
  <2>2. CASE HeadUnchanged(w)
    <3>1. /\ queue' = [queue EXCEPT ![b] = metric[w]]
          /\ rank' = [rank EXCEPT ![metric[w]] = Length(b) + 1]
          /\ pc' = [pc EXCEPT ![w] = "inc"]
      BY <1>5, <2>2 DEF RegisterCas
    <3>2. /\ queue' \in [Backend -> Metric \cup {NULL}] /\ rank' \in [Metric -> Nat]
          /\ pc' \in [Worker -> {"idle", "new", "register", "cas", "inc", "record"}]
      BY <2>1, <3>1
    <3>3. UNCHANGED <<tableVars, next, expire, value, unique_keys, key, amount, metric,
                      received, backendVars, sweepVars, historyVars>>
      BY <1>5 DEF RegisterCas
    <3>4. \A x \in Worker :
            pc'[x] \in {"register", "cas", "inc", "record"} => metric'[x] # NULL
      BY <2>1, <3>1, <3>3
    <3> QED
      BY <3>2, <3>3, <3>4
  <2>3. CASE ~HeadUnchanged(w)
    BY <1>5, <2>1, <2>3, ZenonT(20) DEF RegisterCas, Retry
  <2> QED
    BY <2>2, <2>3
<1>6. ASSUME NEW w \in Worker, StatsIncUniqueKeys(w) PROVE TypeInv'
  BY <1>6 DEF StatsIncUniqueKeys
<1>7. ASSUME NEW w \in Worker, MetricRecord(w) PROVE TypeInv'
  BY <1>7 DEF MetricRecord
<1>8. ASSUME NEW b \in Backend, TickBegin(b) \/ TickNotConnected(b) \/ TickEnd(b) PROVE TypeInv'
  <2>1. CASE TickBegin(b)
    BY <2>1 DEF TickBegin, Length
  <2>2. CASE TickNotConnected(b)
    BY <2>2 DEF TickNotConnected, vars
  <2>3. CASE TickEnd(b)
    BY <2>3 DEF TickEnd
  <2> QED
    BY <1>8, <2>1, <2>2, <2>3
<1>9. ASSUME NEW b \in Backend, WalkCheck(b) PROVE TypeInv'
  <2>1. CASE Sampled(mt[b])
    <3>1. bpc' = [bpc EXCEPT ![b] = "sample"] /\ mt[b] # NULL
      BY <1>9, <2>1 DEF WalkCheck
    <3>2. UNCHANGED <<tableVars, queueVars, expire, value, unique_keys, workerVars,
                      mt, visited, goal, sweepVars, historyVars>>
      BY <1>9, <2>1 DEF WalkCheck
    <3>3. /\ bpc' \in [Backend -> {"sleep", "walk", "sample"}]
          /\ \A c \in Backend : bpc'[c] = "sample" => mt'[c] # NULL
      BY <3>1, <3>2
    <3> QED
      BY <3>2, <3>3
  <2>2. CASE ~Sampled(mt[b])
    <3>1. mt[b] \in Metric /\ next[mt[b]] \in Metric \cup {NULL}
      BY <1>9 DEF WalkCheck
    <3>2. /\ mt' = [mt EXCEPT ![b] = next[mt[b]]]
          /\ visited' = [visited EXCEPT ![b] = visited[b] \cup {mt[b]}]
          /\ UNCHANGED bpc /\ bpc[b] = "walk"
      BY <1>9, <2>2 DEF WalkCheck, Advance
    <3>3. visited[b] \cup {mt[b]} \in SUBSET Metric
      BY <3>1
    <3>4. /\ mt' \in [Backend -> Metric \cup {NULL}]
          /\ visited' \in [Backend -> SUBSET Metric]
          /\ UNCHANGED bpc /\ bpc[b] = "walk"
          /\ \A c \in Backend : c # b => mt'[c] = mt[c]
      BY <3>1, <3>2, <3>3
    <3>5. UNCHANGED <<tableVars, queueVars, expire, value, unique_keys, workerVars,
                      goal, sweepVars, historyVars>>
      BY <1>9 DEF WalkCheck
    <3>6. \A c \in Backend : bpc'[c] = "sample" => mt'[c] # NULL
      BY <3>4
    <3> QED
      BY <3>4, <3>5, <3>6
  <2> QED
    BY <2>1, <2>2
<1>10. ASSUME NEW b \in Backend, MetricSample(b) PROVE TypeInv'
  BY <1>10 DEF MetricSample, Advance, MarkActive
<1>11. CASE SweepBegin \/ DumpBegin
  <2>1. Table \in SUBSET Metric
    BY DEF Table
  <2>2. CASE SweepBegin
    BY <2>1, <2>2 DEF SweepBegin
  <2>3. CASE DumpBegin
    BY <2>1, <2>3 DEF DumpBegin
  <2> QED
    BY <1>11, <2>2, <2>3
<1>12. CASE SweepStep
  <2>1. ASSUME NEW m \in todo, SweepLoad(m) PROVE TypeInv'
    BY <2>1 DEF SweepLoad, Lowered
  <2>2. CASE SweepStore
    BY <2>2 DEF SweepStore
  <2>3. CASE SweepEnd
    BY <2>3, Zenon DEF SweepEnd
  <2> QED
    BY <1>12, <2>1, <2>2, <2>3 DEF SweepStep
<1>13. ASSUME NEW k \in Key, HttpExpire(k) PROVE TypeInv'
  BY <1>13 DEF HttpExpire
<1>14. CASE UNCHANGED vars
  BY <1>14 DEF vars
<1>15. CASE DumpStep
  <2>1. ASSUME NEW m \in todo, DumpMetric(m) PROVE TypeInv'
    BY <2>1 DEF DumpMetric
  <2>2. CASE DumpEnd
    BY <2>2, Zenon DEF DumpEnd
  <2> QED
    BY <1>15, <2>1, <2>2 DEF DumpStep
<1> QED
  BY <1>1, <1>2, <1>3, <1>4, <1>5, <1>6, <1>7, <1>8, <1>9, <1>10, <1>11, <1>12, <1>13, <1>14, <1>15, Zenon
  DEF Next, WorkerStep, BackendStep

(* The variables keep their types in every behaviour of the store; in
   particular the uint8_t expire flag stays within its three values although
   the sweep, the workers and HTTP store it without a lock. *)
THEOREM TypeCorrect == Spec => []TypeOK
<1>1. TypeInv => TypeOK
  BY DEF TypeInv
<1> QED
  BY <1>1, TypeInvInit, TypeInvStep, PTL DEF Spec
-----------------------------------------------------------------------------
(* While the dump iterates, it holds the mutex, the sweep is not under way, and what
   is written and what is still to do make up the table. *)
DumpInv ==
  /\ write_mutex \in BOOLEAN /\ dumping \in BOOLEAN
  /\ dumping => write_mutex /\ swept = NULL /\ todo \cup dumped = Table
  /\ swept # NULL => write_mutex

LEMMA DumpInvInit == Init => DumpInv
BY ZenonT(20) DEF Init, DumpInv

(* Only brubeck_metric_new changes the table, and only while the mutex is free and
   the key has no metric. *)
LEMMA TableStep ==
  ASSUME TypeInv, [Next]_vars
  PROVE /\ \/ UNCHANGED metrics
           \/ \E w \in Worker : /\ MetricNewInsert(w) /\ metrics[key[w]] = NULL /\ ~write_mutex
                               /\ \A k \in Key \ {key[w]} : metrics'[k] = metrics[k]
        /\ \/ SweepBegin \/ SweepStep \/ DumpBegin \/ DumpStep
           \/ UNCHANGED <<write_mutex, todo, swept, dumping, dumped>>
<1> USE DEF tableVars, queueVars, workerVars, backendVars, sweepVars, dumpVars, historyVars
<1>1. ASSUME NEW w \in Worker, WorkerStep(w)
      PROVE /\ MetricNewInsert(w) \/ UNCHANGED metrics
            /\ UNCHANGED <<write_mutex, todo, swept, dumping, dumped>>
  BY <1>1, ZenonT(20) DEF WorkerStep, MetricFindHit, MetricFindMiss, MetricNewInsert, MetricNewLose,
     RegisterLink, RegisterCas, StatsIncUniqueKeys, MetricRecord
<1>2. ASSUME NEW w \in Worker, MetricNewInsert(w)
      PROVE /\ metrics[key[w]] = NULL /\ ~write_mutex
            /\ \A k \in Key \ {key[w]} : metrics'[k] = metrics[k]
  <2>1. metrics \in [Key -> Metric \cup {NULL}]
    BY DEF TypeInv, TypeOK
  <2> QED
    BY <1>2, <2>1, Zenon DEF MetricNewInsert, PutSucceeds, MutexFree
<1>3. ASSUME NEW b \in Backend, BackendStep(b) \/ TickNotConnected(b)
      PROVE UNCHANGED <<metrics, write_mutex, todo, swept, dumping, dumped>>
  BY <1>3, Zenon DEF BackendStep, TickBegin, TickNotConnected, WalkCheck, MetricSample, TickEnd, vars
<1>4. ASSUME (\E k \in Key : HttpExpire(k)) \/ UNCHANGED vars
      PROVE UNCHANGED <<metrics, write_mutex, todo, swept, dumping, dumped>>
  BY <1>4 DEF HttpExpire, vars
<1>5. ASSUME SweepBegin \/ SweepStep \/ DumpBegin \/ DumpStep PROVE UNCHANGED metrics
  BY <1>5 DEF SweepBegin, SweepStep, SweepLoad, SweepStore, SweepEnd, DumpBegin, DumpStep,
     DumpMetric, DumpEnd
<1> QED
  BY <1>1, <1>2, <1>3, <1>4, <1>5 DEF Next

LEMMA DumpInvStep == TypeInv /\ DumpInv /\ [Next]_vars => DumpInv'
<1> SUFFICES ASSUME TypeInv, DumpInv, [Next]_vars PROVE DumpInv'
  OBVIOUS
<1> USE DEF DumpInv
<1>1. ASSUME NEW w \in Worker, MetricNewInsert(w), ~write_mutex PROVE DumpInv'
  BY <1>1 DEF MetricNewInsert, sweepVars, dumpVars
<1>2. ASSUME UNCHANGED <<metrics, write_mutex, todo, swept, dumping, dumped>> PROVE DumpInv'
  BY <1>2 DEF Table
<1>3. CASE SweepBegin
  BY <1>3 DEF SweepBegin, dumpVars
<1>4. CASE SweepStep
  <2>1. UNCHANGED <<metrics, dumping, dumped>> /\ ~dumping
    BY <1>4 DEF SweepStep, SweepLoad, SweepStore, SweepEnd, tableVars, sweepVars, dumpVars
  <2>2. swept' # NULL => write_mutex'
    BY <1>4 DEF SweepStep, SweepLoad, SweepStore, SweepEnd, tableVars, sweepVars
  <2>3. write_mutex' \in BOOLEAN
    BY <1>4, Zenon DEF SweepStep, SweepLoad, SweepStore, SweepEnd, tableVars
  <2> QED
    BY <2>1, <2>2, <2>3
<1>5. CASE DumpBegin
  BY <1>5 DEF DumpBegin, Table
<1>6. CASE DumpStep
  BY <1>6, ZenonT(20) DEF DumpStep, DumpMetric, DumpEnd, tableVars, Table
<1> QED
  BY <1>1, <1>2, <1>3, <1>4, <1>5, <1>6, TableStep

(* Only inserts change the table, and none while the mutex is held. *)
LEMMA TableInv == Spec => EntriesPermanent /\ DumpExact
<1>1. TypeInv /\ [Next]_vars => [\A k \in Key : metrics[k] # NULL => metrics'[k] = metrics[k]]_vars
  BY TableStep
<1>2. DumpInv => [DumpEnd => dumped = Table]_vars
  BY DEF DumpInv, DumpEnd
<1> QED
  BY <1>1, <1>2, TypeInvInit, TypeInvStep, DumpInvInit, DumpInvStep, PTL
  DEF Spec, EntriesPermanent, DumpExact

(* For any number of workers racing for it, a key never changes its metric, and so its
   type, once it has one. *)
THEOREM KeyKeepsMetric == Spec => EntriesPermanent
BY TableInv, PTL

(* A dump misses no metric of the table and writes no other, whatever workers do meanwhile. *)
THEOREM DumpComplete == Spec => DumpExact
BY TableInv, PTL
-----------------------------------------------------------------------------
(***************************************************************************)
(* The inductive invariant.  A worker that registers or records a metric   *)
(* holds the one of the table, and registers only its own, unqueued block; *)
(* the cursor of a walk is a queued metric of the backend, and the walk    *)
(* has visited the positions between the cursor and the length of the      *)
(* queue at the beginning of the tick.                                     *)
(***************************************************************************)
HoldsTableMetric ==
  /\ \A k \in Key : metrics[k] # NULL => metrics[k][2] = k
  /\ \A w \in Worker :
       /\ pc[w] \in {"register", "cas"} => metric[w] = <<w, key[w]>> /\ rank[metric[w]] = 0
       /\ pc[w] \in {"register", "cas", "inc", "record"} => metrics[key[w]] = metric[w]

Cursor(b) == IF mt[b] = NULL THEN 0 ELSE rank[mt[b]]

WalkAt(b) ==
  /\ mt[b] # NULL => rank[mt[b]] > 0 /\ Home(mt[b]) = b
  /\ bpc[b] = "sleep" => mt[b] = NULL
  /\ Cursor(b) <= goal[b] /\ goal[b] <= Length(b)
  /\ \A m \in Metric :
       m \in visited[b] <=> Home(m) = b /\ Cursor(b) < rank[m] /\ rank[m] <= goal[b]

WalkProgress == \A b \in Backend : WalkAt(b)

IInv == TypeInv /\ HoldsTableMetric /\ TableRegistered /\ QueueLinked /\ WalkProgress /\ Conservation

(* Which actions touch which part of the state. *)
LEMMA Frames ==
  ASSUME [Next]_vars
  PROVE
  /\ \/ \E w \in Worker : WorkerStep(w)
     \/ UNCHANGED <<metrics, pc, metric, key, rank>>
  /\ \/ \E w \in Worker : MetricNewInsert(w) \/ RegisterLink(w) \/ RegisterCas(w)
     \/ UNCHANGED <<queue, rank, next>>
  /\ \/ \E w \in Worker : RegisterCas(w)
     \/ \E b \in Backend : BackendStep(b)
     \/ UNCHANGED <<mt, bpc, goal, visited, rank, queue>>
  /\ \/ \E w \in Worker : MetricNewInsert(w) \/ MetricRecord(w)
     \/ \E b \in Backend : MetricSample(b)
     \/ UNCHANGED <<recorded, emitted, value, metrics>>
<1> USE DEF tableVars, queueVars, workerVars, backendVars, sweepVars, dumpVars, historyVars
<1>1. ASSUME NEW w \in Worker, WorkerStep(w)
      PROVE /\ \/ MetricNewInsert(w) \/ RegisterLink(w) \/ RegisterCas(w)
               \/ UNCHANGED <<queue, rank, next>>
            /\ RegisterCas(w) \/ UNCHANGED <<mt, bpc, goal, visited, rank, queue>>
            /\ \/ MetricNewInsert(w) \/ MetricRecord(w)
               \/ UNCHANGED <<recorded, emitted, value, metrics>>
  BY <1>1, ZenonT(20) DEF WorkerStep, MetricFindHit, MetricFindMiss, MetricNewInsert, MetricNewLose,
     RegisterLink, RegisterCas, StatsIncUniqueKeys, MetricRecord
<1>2. ASSUME NEW b \in Backend, BackendStep(b) \/ TickNotConnected(b)
      PROVE /\ UNCHANGED <<metrics, pc, metric, key, rank, queue, next>>
            /\ BackendStep(b) \/ UNCHANGED <<mt, bpc, goal, visited>>
            /\ MetricSample(b) \/ UNCHANGED <<recorded, emitted, value>>
  BY <1>2, ZenonT(20) DEF BackendStep, TickBegin, TickNotConnected, WalkCheck, MetricSample, TickEnd, vars
<1>3. ASSUME SweepBegin \/ SweepStep \/ DumpBegin \/ DumpStep \/ (\E k \in Key : HttpExpire(k))
             \/ UNCHANGED vars
      PROVE UNCHANGED <<metrics, pc, metric, key, rank, queue, next, mt, bpc, goal, visited,
                        recorded, emitted, value>>
  BY <1>3, Zenon DEF SweepBegin, SweepStep, SweepLoad, SweepStore, SweepEnd, DumpBegin, DumpStep,
     DumpMetric, DumpEnd, HttpExpire, vars
<1> QED
  BY <1>1, <1>2, <1>3 DEF Next

LEMMA IInvInit == Init => IInv
<1> SUFFICES ASSUME Init PROVE IInv
  OBVIOUS
<1> USE MetricFacts
<1>1. TypeInv
  BY TypeInvInit
<1>2. \A m \in Metric : rank[m] = IF m = InternalMetric THEN 1 ELSE 0
  BY ZenonT(20) DEF Init
<1>3. HoldsTableMetric
  BY DEF Init, HoldsTableMetric
<1>4. TableRegistered
  BY <1>2 DEF Init, TableRegistered, Queued
<1>5. QueueLinked
  BY <1>2 DEF Init, QueueLinked, Queued, Length, Home
<1>6. WalkProgress
  <2>1. ASSUME NEW b \in Backend
        PROVE /\ mt[b] = NULL /\ goal[b] = 0 /\ visited[b] = {} /\ Length(b) \in Nat
              /\ \A m \in Metric : rank[m] \in Nat
    BY <1>1 DEF Init, Length, TypeInv, TypeOK
  <2> QED
    BY <2>1 DEF WalkProgress, WalkAt, Cursor
<1>7. Conservation
  BY DEF Init, Conservation, Held
<1> QED
  BY <1>1, <1>3, <1>4, <1>5, <1>6, <1>7 DEF IInv

LEMMA HoldsStep == ASSUME IInv, [Next]_vars PROVE HoldsTableMetric' /\ TableRegistered'
<1>t. /\ metrics \in [Key -> Metric \cup {NULL}] /\ rank \in [Metric -> Nat]
      /\ pc \in [Worker -> {"idle", "new", "register", "cas", "inc", "record"}]
      /\ key \in [Worker -> Key] /\ metric \in [Worker -> Metric \cup {NULL}]
      /\ \A w \in Worker : pc[w] \in {"register", "cas", "inc", "record"} => metric[w] # NULL
      /\ NULL \notin Metric /\ \A m \in Metric : m[2] \in Key
      /\ HoldsTableMetric /\ TableRegistered
  BY MetricFacts DEF IInv, TypeInv, TypeOK
<1> USE <1>t DEF HoldsTableMetric, TableRegistered, Queued
<1>1. ASSUME NEW w \in Worker, NEW k \in ClientKey, NEW v \in Amount,
             MetricFindHit(w, k, v) \/ MetricFindMiss(w, k, v)
      PROVE HoldsTableMetric' /\ TableRegistered'
  <2>1. /\ UNCHANGED <<metrics, rank>> /\ pc[w] = "idle" /\ k \in Key
        /\ key' = [key EXCEPT ![w] = k]
        /\ \A x \in Worker : x # w => pc'[x] = pc[x] /\ metric'[x] = metric[x]
        /\ pc'[w] = "new" \/ (pc'[w] = "record" /\ metric'[w] = metrics[k])
    BY <1>1 DEF MetricFindHit, MetricFindMiss, tableVars, queueVars, ClientKey
  <2>2. HoldsTableMetric'
    BY <2>1
  <2>3. TableRegistered'
    BY <2>1
  <2> QED
    BY <2>2, <2>3
<1>2. ASSUME NEW w \in Worker, MetricNewInsert(w) PROVE HoldsTableMetric' /\ TableRegistered'
  <2> DEFINE m == <<w, key[w]>>
  <2>0. m \in Metric /\ m[2] = key[w] /\ metrics[key[w]] = NULL /\ pc[w] = "new"
    BY <1>2, MetricFacts DEF MetricNewInsert, PutSucceeds
  <2>2. /\ UNCHANGED <<key, rank>>
        /\ metrics' = [metrics EXCEPT ![key[w]] = m]
        /\ metric' = [metric EXCEPT ![w] = m]
        /\ pc' = [pc EXCEPT ![w] = "register"]
    BY <1>2 DEF MetricNewInsert
  <2> HIDE DEF m
  <2>1. m \in Metric /\ m[2] = key[w] /\ metrics[key[w]] = NULL /\ rank[m] = 0 /\ pc[w] = "new"
    BY <2>0
  <2>3. \A x \in Worker : x # w /\ pc[x] \in {"register", "cas", "inc", "record"} => key[x] # key[w]
    BY <2>1
  <2>4. HoldsTableMetric'
    BY <2>1, <2>2, <2>3, MetricFacts DEF m
  <2>5. TableRegistered'
    BY <2>1, <2>2, <2>3
  <2> QED
    BY <2>4, <2>5
<1>3. ASSUME NEW w \in Worker, MetricNewLose(w) PROVE HoldsTableMetric' /\ TableRegistered'
  BY <1>3 DEF MetricNewLose, FindAgain, AfterLosing, tableVars, queueVars
<1>4. ASSUME NEW w \in Worker, RegisterLink(w) PROVE HoldsTableMetric' /\ TableRegistered'
  BY <1>4 DEF RegisterLink, tableVars
<1>5. ASSUME NEW w \in Worker, RegisterCas(w) PROVE HoldsTableMetric' /\ TableRegistered'
  <2>1. /\ UNCHANGED <<metrics, key, metric>> /\ pc[w] = "cas"
        /\ metric[w] \in Metric /\ metrics[key[w]] = metric[w] /\ metric[w][2] = key[w]
    <3>1. UNCHANGED <<metrics, key, metric>> /\ pc[w] = "cas"
      BY <1>5 DEF RegisterCas, tableVars
    <3>2. metrics[key[w]] = metric[w] /\ metric[w] \in Metric /\ metric[w] = <<w, key[w]>>
      BY <3>1
    <3> QED
      BY <3>1, <3>2
  <2>2. CASE ~HeadUnchanged(w)
    <3>1. pc' = [pc EXCEPT ![w] = "register"] /\ UNCHANGED rank
      BY <1>5, <2>2 DEF RegisterCas, Retry
    <3> QED
      BY <2>1, <3>1
  <2>3. CASE HeadUnchanged(w)
    <3>1. /\ pc' = [pc EXCEPT ![w] = "inc"]
          /\ \A m \in Metric : m # metric[w] => rank'[m] = rank[m]
          /\ rank'[metric[w]] > 0
      <4>1. Length(Home(metric[w])) \in Nat
        <5>1. queue \in [Backend -> Metric \cup {NULL}] /\ Home(metric[w]) \in Backend
          BY <2>1, MetricFacts DEF IInv, TypeInv, TypeOK
        <5> HIDE DEF HoldsTableMetric, TableRegistered
        <5> QED
          BY <5>1 DEF Length
      <4> QED
        BY <1>5, <2>1, <2>3, <4>1 DEF RegisterCas
    <3>2. \A x \in Worker : x # w /\ pc[x] \in {"register", "cas"} => metric[x] # metric[w]
      BY <2>1, MetricFacts
    <3>3. HoldsTableMetric'
      BY <2>1, <3>1, <3>2
    <3>4. ASSUME NEW k \in Key, metrics[k] # NULL
          PROVE \/ rank'[metrics[k]] > 0
                \/ \E x \in Worker : pc'[x] \in {"register", "cas"} /\ metric[x] = metrics[k]
      <4>1. CASE metrics[k] = metric[w]
        BY <3>1, <4>1
      <4>2. CASE metrics[k] # metric[w] /\ rank[metrics[k]] > 0
        <5>1. metrics[k] \in Metric
          BY <3>4
        <5> QED
          BY <3>1, <4>2, <5>1
      <4>3. ASSUME NEW x \in Worker, metrics[k] # metric[w],
                   pc[x] \in {"register", "cas"}, metric[x] = metrics[k]
            PROVE pc'[x] \in {"register", "cas"}
        <5>1. x # w
          BY <4>3
        <5> QED
          BY <3>1, <4>3, <5>1
      <4> QED
        BY <3>4, <4>1, <4>2, <4>3
    <3>5. TableRegistered'
      BY <2>1, <3>1, <3>4
    <3> QED
      BY <3>3, <3>5
  <2> QED
    BY <2>2, <2>3
<1>6. ASSUME NEW w \in Worker, StatsIncUniqueKeys(w) \/ MetricRecord(w)
      PROVE HoldsTableMetric' /\ TableRegistered'
  <2>1. /\ UNCHANGED <<metrics, rank, metric, key>> /\ pc[w] \in {"inc", "record"}
        /\ pc' = [pc EXCEPT ![w] = "record"] \/ pc' = [pc EXCEPT ![w] = "idle"]
    BY <1>6 DEF StatsIncUniqueKeys, MetricRecord, tableVars, queueVars
  <2>2. HoldsTableMetric'
    BY <2>1
  <2>3. TableRegistered'
    BY <2>1
  <2> QED
    BY <2>2, <2>3
<1>7. CASE UNCHANGED <<metrics, pc, metric, key, rank>>
  BY <1>7
<1> QED
  BY <1>1, <1>2, <1>3, <1>4, <1>5, <1>6, <1>7, Frames, ZenonT(20) DEF WorkerStep
-----------------------------------------------------------------------------
(* What a successful compare-and-swap does, and a failed one does not. *)
LEMMA CasFacts ==
  ASSUME IInv, NEW w \in Worker, RegisterCas(w)
  PROVE LET m == metric[w]
            b == Home(m) IN
        /\ m \in Metric /\ b \in Backend /\ rank[m] = 0
        /\ next[m] \in Metric \cup {NULL} /\ UNCHANGED <<next, mt, bpc, goal, visited>>
        /\ \/ /\ queue[b] = next[m]
              /\ queue' = [queue EXCEPT ![b] = m]
              /\ rank' = [rank EXCEPT ![m] = Length(b) + 1]
           \/ UNCHANGED <<queue, rank>>
<1>1. metric[w] \in Metric /\ Home(metric[w]) \in Backend /\ rank[metric[w]] = 0
  <2>1. pc[w] = "cas"
    BY DEF RegisterCas
  <2>2. metric[w] \in Metric
    BY <2>1 DEF IInv, TypeInv, TypeOK
  <2>3. rank[metric[w]] = 0
    BY <2>1 DEF IInv, HoldsTableMetric
  <2> QED
    BY <2>2, <2>3, MetricFacts
<1>2. next[metric[w]] \in Metric \cup {NULL}
  BY <1>1 DEF IInv, TypeInv, TypeOK
<1> QED
  BY <1>1, <1>2 DEF RegisterCas, HeadUnchanged, backendVars

(* The length of a queue grows by one with a push to it and is the highest
   position in it. *)
LEMMA CasLength ==
  ASSUME IInv, NEW w \in Worker, RegisterCas(w), ~UNCHANGED <<queue, rank>>
  PROVE \A c \in Backend :
          /\ Length(c) \in Nat
          /\ Length(c)' = IF c = Home(metric[w]) THEN Length(c) + 1 ELSE Length(c)
<1> DEFINE m == metric[w]
           b == Home(m)
<1>1. /\ m \in Metric /\ b \in Backend /\ rank[m] = 0
      /\ queue' = [queue EXCEPT ![b] = m]
      /\ rank' = [rank EXCEPT ![m] = Length(b) + 1]
  BY CasFacts
<1>2. \A c \in Backend : queue[c] # NULL => queue[c] \in Metric /\ queue[c] # m
  <2> HIDE DEF m, b
  <2>1. queue \in [Backend -> Metric \cup {NULL}]
    BY DEF IInv, TypeInv, TypeOK
  <2>2. \A c \in Backend : queue[c] # NULL => rank[queue[c]] > 0
    BY DEF IInv, QueueLinked, Queued
  <2> QED
    BY <1>1, <2>1, <2>2
<1> HIDE DEF m, b
<1>3. rank \in [Metric -> Nat] /\ queue \in [Backend -> Metric \cup {NULL}] /\ NULL \notin Metric
  BY MetricFacts DEF IInv, TypeInv, TypeOK
<1>4. \A c \in Backend : /\ Length(c) \in Nat
                          /\ Length(c)' = IF c = b THEN Length(c) + 1 ELSE Length(c)
  BY <1>1, <1>2, <1>3 DEF Length
<1> QED
  BY <1>4 DEF m, b

LEMMA QueueStep == ASSUME IInv, [Next]_vars PROVE QueueLinked'
<1>t. /\ queue \in [Backend -> Metric \cup {NULL}] /\ next \in [Metric -> Metric \cup {NULL}]
      /\ rank \in [Metric -> Nat] /\ NULL \notin Metric
      /\ \A m \in Metric : Home(m) \in Backend
      /\ QueueLinked
  BY MetricFacts DEF IInv, TypeInv, TypeOK
<1> USE <1>t DEF QueueLinked, Queued
<1>1. ASSUME NEW w \in Worker, MetricNewInsert(w) \/ RegisterLink(w) PROVE QueueLinked'
  <2>1. /\ UNCHANGED <<queue, rank>>
        /\ \A m \in Metric : rank[m] > 0 => next'[m] = next[m]
    <3>1. CASE MetricNewInsert(w)
      <4>1. \A m \in Metric : rank[m] > 0 => m # <<w, key[w]>>
        <5>1. key[w] \in Key /\ <<w, key[w]>> \in Metric /\ <<w, key[w]>>[2] = key[w]
          BY MetricFacts DEF IInv, TypeInv, TypeOK
        <5>2. metrics[key[w]] = NULL /\ TableRegistered
          BY <3>1 DEF IInv, MetricNewInsert, PutSucceeds
        <5> QED
          BY <5>1, <5>2 DEF TableRegistered
      <4>2. next' = [next EXCEPT ![<<w, key[w]>>] = NULL] /\ UNCHANGED <<queue, rank>>
        BY <3>1 DEF MetricNewInsert
      <4> QED
        BY <4>1, <4>2
    <3>2. CASE RegisterLink(w)
      <4>1. rank[metric[w]] = 0
        BY <3>2 DEF IInv, HoldsTableMetric, RegisterLink
      <4>2. /\ next' = [next EXCEPT ![metric[w]] = queue[Home(metric[w])]]
            /\ UNCHANGED <<queue, rank>>
        BY <3>2 DEF RegisterLink
      <4> QED
        BY <4>1, <4>2
    <3> QED
      BY <1>1, <3>1, <3>2
  <2> QED
    BY <2>1 DEF Length
<1>2. ASSUME NEW w \in Worker, RegisterCas(w) PROVE QueueLinked'
  <2>1. CASE UNCHANGED <<queue, rank>>
    BY <1>2, <2>1, CasFacts DEF Length
  <2>2. CASE ~UNCHANGED <<queue, rank>>
    <3>m. PICK m \in Metric : m = metric[w]
      BY <1>2, CasFacts
    <3>b. PICK b \in Backend : b = Home(m)
      OBVIOUS
    <3>1. /\ rank[m] = 0
          /\ queue[b] = next[m] /\ UNCHANGED next
          /\ queue' = [queue EXCEPT ![b] = m]
          /\ rank' = [rank EXCEPT ![m] = Length(b) + 1]
      BY <1>2, <2>2, <3>m, <3>b, CasFacts
    <3>2. \A c \in Backend : /\ Length(c) \in Nat
                              /\ Length(c)' = IF c = b THEN Length(c) + 1 ELSE Length(c)
      BY <1>2, <2>2, <3>m, <3>b, CasLength
    <3>3. \A n \in Metric : n # m => rank'[n] = rank[n]
      BY <3>1
    <3>4. rank'[m] = Length(b) + 1
      BY <3>1
    <3>5. \A c \in Backend : queue'[c] # NULL => rank'[queue'[c]] > 0 /\ Home(queue'[c]) = c
      BY <3>1, <3>2, <3>3, <3>4, <3>b
    <3>6. Length(b) = 0 => next[m] = NULL
      BY <3>1 DEF Length
    <3>7. Length(b) > 0 => /\ next[m] \in Metric /\ next[m] # m
                           /\ Home(next[m]) = b /\ rank[next[m]] = Length(b)
      BY <3>1 DEF Length
    <3>8. ASSUME NEW n \in Metric, n # m, rank[n] > 0
          PROVE /\ rank[n] <= Length(Home(n))'
                /\ IF rank[n] = 1 THEN next[n] = NULL
                   ELSE next[n] # NULL /\ Home(next[n]) = Home(n) /\ rank'[next[n]] = rank[n] - 1
                /\ Home(n) = b => rank[n] < rank'[m]
      <4>1. Home(n) \in Backend /\ rank[n] <= Length(Home(n))
        BY <3>8
      <4>2. IF rank[n] = 1 THEN next[n] = NULL
            ELSE next[n] # NULL /\ Home(next[n]) = Home(n) /\ rank[next[n]] = rank[n] - 1
        BY <3>8
      <4>3. rank[n] # 1 => next[n] \in Metric /\ next[n] # m
        BY <3>1, <3>8
      <4> HIDE DEF QueueLinked
      <4>4. rank[n] <= Length(Home(n))' /\ (Home(n) = b => rank[n] < rank'[m])
        BY <3>2, <3>4, <4>1
      <4>5. rank[n] # 1 => rank'[next[n]] = rank[next[n]]
        BY <3>3, <4>3
      <4> QED
        BY <4>2, <4>4, <4>5
    <3>9. \A n, x \in Metric : Home(x) = Home(n) /\ rank[n] > 0 /\ rank[x] = rank[n] => x = n
      OBVIOUS
    <3> HIDE DEF QueueLinked
    <3>10. /\ rank'[m] <= Length(Home(m))'
           /\ IF rank'[m] = 1 THEN next'[m] = NULL
              ELSE next'[m] # NULL /\ Home(next'[m]) = Home(m) /\ rank'[next'[m]] = rank'[m] - 1
      <4>1. Length(b) \in Nat /\ Length(b)' = Length(b) + 1 /\ Home(m) = b
        BY <3>1, <3>2, <3>b
      <4>2. CASE Length(b) = 0
        BY <3>1, <3>4, <3>6, <4>1, <4>2
      <4>3. CASE Length(b) > 0
        BY <3>1, <3>3, <3>4, <3>7, <4>1, <4>3
      <4> QED
        BY <4>1, <4>2, <4>3
    <3>11. ASSUME NEW n \in Metric, NEW x \in Metric, rank'[n] > 0,
                  Home(x) = Home(n), rank'[x] = rank'[n]
           PROVE x = n
      <4>1. CASE n # m /\ x # m
        BY <3>3, <3>9, <3>11, <4>1
      <4>2. CASE n = m /\ x # m
        <5>1. rank[x] > 0 /\ Home(x) = b /\ rank[x] = rank'[m]
          BY <3>3, <3>11, <4>2, <3>b
        <5>2. rank[x] < rank'[m]
          BY <3>8, <4>2, <5>1
        <5> QED
          BY <5>1, <5>2
      <4>3. CASE n # m /\ x = m
        <5>1. rank[n] > 0 /\ Home(n) = b /\ rank[n] = rank'[m]
          BY <3>3, <3>11, <4>3, <3>b
        <5>2. rank[n] < rank'[m]
          BY <3>8, <4>3, <5>1
        <5> QED
          BY <5>1, <5>2
      <4> QED
        BY <4>1, <4>2, <4>3
    <3>12. ASSUME NEW n \in Metric, rank'[n] > 0
           PROVE /\ rank'[n] <= Length(Home(n))'
                 /\ IF rank'[n] = 1 THEN next'[n] = NULL
                    ELSE next'[n] # NULL /\ Home(next'[n]) = Home(n) /\ rank'[next'[n]] = rank'[n] - 1
      <4>1. CASE n = m
        BY <3>10, <4>1
      <4>2. CASE n # m
        <5>1. rank'[n] = rank[n] /\ next'[n] = next[n]
          BY <3>1, <3>3, <4>2
        <5>2. rank[n] > 0
          BY <3>12, <5>1
        <5> QED
          BY <3>8, <4>2, <5>1, <5>2
      <4> QED
        BY <4>1, <4>2
    <3> QED
      BY <3>5, <3>11, <3>12 DEF QueueLinked
  <2> QED
    BY <2>1, <2>2
<1>3. CASE UNCHANGED <<queue, rank, next>>
  BY <1>3 DEF Length
<1> QED
  BY <1>1, <1>2, <1>3, Frames

(* A backend whose cursor and bookkeeping a step leaves alone stays where it is. *)
LEMMA WalkKept ==
  ASSUME NEW c \in Backend, WalkAt(c), rank' = rank, queue'[c] = queue[c], mt'[c] = mt[c],
         goal'[c] = goal[c], visited'[c] = visited[c], bpc'[c] = "sleep" => mt[c] = NULL
  PROVE WalkAt(c)'
<1>1. Cursor(c)' = Cursor(c) /\ Length(c)' = Length(c)
  BY DEF Cursor, Length
<1> QED
  BY <1>1 DEF WalkAt

(* Advancing the cursor visits exactly the metric at its position. *)
LEMMA AdvanceStep ==
  ASSUME IInv, NEW b \in Backend, mt[b] # NULL, bpc[b] # "sleep", Advance(b),
         UNCHANGED <<queue, rank, next, goal>>,
         bpc' \in [Backend -> {"sleep", "walk", "sample"}],
         \A c \in Backend : IF c = b THEN bpc'[c] # "sleep" ELSE bpc'[c] = bpc[c]
  PROVE WalkProgress'
<1>t. /\ queue \in [Backend -> Metric \cup {NULL}] /\ next \in [Metric -> Metric \cup {NULL}]
      /\ rank \in [Metric -> Nat] /\ goal \in [Backend -> Nat]
      /\ mt \in [Backend -> Metric \cup {NULL}] /\ visited \in [Backend -> SUBSET Metric]
      /\ NULL \notin Metric /\ WalkProgress /\ QueueLinked
  BY MetricFacts DEF IInv, TypeInv, TypeOK
<1> USE <1>t
<1> DEFINE p == mt[b]
<1>0. \A c \in Backend : WalkAt(c)
  BY DEF WalkProgress
<1>1. p \in Metric /\ rank[p] > 0 /\ Home(p) = b
  BY <1>0 DEF WalkAt
<1>2. /\ mt' = [mt EXCEPT ![b] = next[p]]
      /\ visited' = [visited EXCEPT ![b] = visited[b] \cup {p}]
      /\ Cursor(b) = rank[p]
  BY DEF Advance, Cursor
<1> HIDE DEF p
<1>3. /\ next[p] # NULL => next[p] \in Metric /\ rank[next[p]] > 0 /\ Home(next[p]) = b
      /\ Cursor(b)' = rank[p] - 1
  BY <1>1, <1>2 DEF QueueLinked, Queued, Cursor
<1>4. \A m \in Metric : Home(m) = b /\ rank[m] = rank[p] => m = p
  BY <1>1 DEF QueueLinked, Queued
<1>5. \A c \in Backend : c # b => mt'[c] = mt[c] /\ visited'[c] = visited[c]
  BY <1>2
<1>6. /\ rank[p] <= goal[b] /\ goal[b] <= Length(b)
      /\ goal[b] \in Nat /\ rank[p] \in Nat /\ Length(b) \in Nat
      /\ mt'[b] = next[p] /\ visited'[b] = visited[b] \cup {p}
      /\ \A m \in Metric : rank[m] \in Nat
  <2>1. rank[p] <= goal[b] /\ goal[b] <= Length(b)
    BY <1>0, <1>2 DEF WalkAt
  <2>2. Length(b) \in Nat
    BY DEF Length
  <2> QED
    BY <1>1, <1>2, <2>1, <2>2
<1>8. ASSUME NEW m \in Metric
      PROVE m \in visited'[b] <=> Home(m) = b /\ Cursor(b)' < rank'[m] /\ rank'[m] <= goal'[b]
  <2>1. m \in visited[b] <=> Home(m) = b /\ rank[p] < rank[m] /\ rank[m] <= goal[b]
    BY <1>0, <1>2 DEF WalkAt
  <2>2. rank[p] <= goal[b] /\ goal[b] \in Nat /\ rank[m] \in Nat /\ rank[p] \in Nat
    BY <1>6
  <2>3. m \in visited'[b] <=> m \in visited[b] \/ m = p
    BY <1>6
  <2>4. rank' = rank /\ goal' = goal /\ Cursor(b)' = rank[p] - 1
    BY <1>3
  <2>5. rank[p] - 1 < rank[m] <=> rank[p] < rank[m] \/ rank[m] = rank[p]
    BY <2>2
  <2> QED
    BY <1>1, <1>4, <2>1, <2>2, <2>3, <2>4, <2>5
<1>9. /\ mt'[b] # NULL => rank'[mt'[b]] > 0 /\ Home(mt'[b]) = b
      /\ Cursor(b)' <= goal'[b] /\ goal'[b] <= Length(b)'
  <2>1. rank' = rank /\ goal'[b] = goal[b] /\ Length(b)' = Length(b)
    BY DEF Length
  <2>2. rank[p] - 1 <= goal[b]
    BY ONLY <1>6
  <2> QED
    BY <1>3, <1>6, <2>1, <2>2
<1>10. WalkAt(b)'
  BY <1>8, <1>9 DEF WalkAt
<1>11. ASSUME NEW c \in Backend, c # b PROVE WalkAt(c)'
  <2>1. bpc'[c] = bpc[c] /\ WalkAt(c)
    BY <1>0, <1>11
  <2>2. bpc'[c] = "sleep" => mt[c] = NULL
    BY <2>1 DEF WalkAt
  <2> QED
    BY <1>5, <1>11, <2>1, <2>2, WalkKept
<1> QED
  BY <1>10, <1>11 DEF WalkProgress

LEMMA WalkStep == ASSUME IInv, [Next]_vars PROVE WalkProgress'
<1>t. /\ queue \in [Backend -> Metric \cup {NULL}] /\ rank \in [Metric -> Nat]
      /\ mt \in [Backend -> Metric \cup {NULL}] /\ goal \in [Backend -> Nat]
      /\ bpc \in [Backend -> {"sleep", "walk", "sample"}]
      /\ visited \in [Backend -> SUBSET Metric]
      /\ \A b \in Backend : bpc[b] = "sample" => mt[b] # NULL
      /\ NULL \notin Metric /\ WalkProgress /\ QueueLinked
  BY MetricFacts DEF IInv, TypeInv, TypeOK
<1> USE <1>t
<1>0. \A c \in Backend : WalkAt(c) /\ (bpc[c] = "sleep" => mt[c] = NULL)
  BY DEF WalkProgress, WalkAt
<1>1. ASSUME NEW w \in Worker, RegisterCas(w) PROVE WalkProgress'
  <2>1. CASE UNCHANGED <<queue, rank>>
    <3>1. UNCHANGED <<mt, bpc, goal, visited>>
      BY <1>1, CasFacts
    <3>2. ASSUME NEW c \in Backend PROVE WalkAt(c)'
      BY <1>0, <2>1, <3>1, WalkKept
    <3> QED
      BY <3>2 DEF WalkProgress
  <2>2. CASE ~UNCHANGED <<queue, rank>>
    <3> DEFINE n == metric[w]
    <3>1. /\ n \in Metric /\ Home(n) \in Backend /\ rank[n] = 0
          /\ UNCHANGED <<mt, bpc, goal, visited>>
          /\ rank' = [rank EXCEPT ![n] = Length(Home(n)) + 1]
      BY <1>1, <2>2, CasFacts
    <3>2. \A c \in Backend : /\ Length(c) \in Nat
                              /\ Length(c)' = IF c = Home(n) THEN Length(c) + 1 ELSE Length(c)
      BY <1>1, <2>2, CasLength
    <3> HIDE DEF n
    <3>3. \A c \in Backend : Cursor(c)' = Cursor(c)
      BY <1>0, <3>1 DEF WalkAt, Cursor
    <3>4. \A c \in Backend : Cursor(c) \in Nat /\ goal[c] \in Nat /\ goal[c] <= Length(c)
      BY <1>0 DEF WalkAt, Cursor
    <3>5. ASSUME NEW c \in Backend, NEW m \in Metric
          PROVE m \in visited'[c] <=> Home(m) = c /\ Cursor(c)' < rank'[m] /\ rank'[m] <= goal'[c]
      <4>1. m \in visited[c] <=> Home(m) = c /\ Cursor(c) < rank[m] /\ rank[m] <= goal[c]
        BY <1>0 DEF WalkAt
      <4> QED
        BY <3>1, <3>2, <3>3, <3>4, <4>1
    <3>6. ASSUME NEW c \in Backend
          PROVE /\ mt'[c] # NULL => rank'[mt'[c]] > 0 /\ Home(mt'[c]) = c
                /\ bpc'[c] = "sleep" => mt'[c] = NULL
                /\ Cursor(c)' <= goal'[c] /\ goal'[c] <= Length(c)'
      <4>1. /\ mt[c] # NULL => rank[mt[c]] > 0 /\ Home(mt[c]) = c
            /\ bpc[c] = "sleep" => mt[c] = NULL
            /\ Cursor(c) <= goal[c]
        BY <1>0 DEF WalkAt
      <4>2. mt[c] # NULL => rank'[mt[c]] = rank[mt[c]]
        BY <3>1, <4>1
      <4>3. goal[c] <= Length(c)'
        BY <3>2, <3>4
      <4> QED
        BY <3>1, <3>3, <4>1, <4>2, <4>3
    <3> QED
      BY <3>5, <3>6 DEF WalkProgress, WalkAt
  <2> QED
    BY <2>1, <2>2
<1>2. ASSUME NEW b \in Backend, TickBegin(b) PROVE WalkProgress'
  <2>1. /\ bpc[b] = "sleep" /\ mt[b] = NULL
        /\ mt' = [mt EXCEPT ![b] = queue[b]]
        /\ bpc' = [bpc EXCEPT ![b] = "walk"]
        /\ goal' = [goal EXCEPT ![b] = Length(b)]
        /\ visited' = [visited EXCEPT ![b] = {}]
        /\ UNCHANGED <<queue, rank>>
    BY <1>0, <1>2 DEF TickBegin, queueVars
  <2>2. \A c \in Backend : Length(c)' = Length(c) /\ Length(c) \in Nat
    BY <2>1 DEF Length
  <2>3. /\ Cursor(b)' = Length(b) /\ goal'[b] = Length(b) /\ visited'[b] = {}
        /\ mt'[b] # NULL => rank'[mt'[b]] > 0 /\ Home(mt'[b]) = b
    BY <2>1 DEF Cursor, Length, QueueLinked, Queued
  <2>4. \A m \in Metric : ~(Length(b) < rank'[m] /\ rank'[m] <= Length(b))
    BY <2>1, <2>2
  <2>5. WalkAt(b)'
    <3>1. bpc'[b] # "sleep" /\ Length(b)' = Length(b) /\ Length(b) \in Nat
      BY <2>1, <2>2
    <3> QED
      BY <2>3, <2>4, <3>1 DEF WalkAt
  <2>6. ASSUME NEW c \in Backend, c # b PROVE WalkAt(c)'
    <3>1. /\ rank' = rank /\ queue'[c] = queue[c] /\ mt'[c] = mt[c] /\ goal'[c] = goal[c]
          /\ visited'[c] = visited[c] /\ bpc'[c] = bpc[c]
      BY <2>1, <2>6
    <3> QED
      BY <1>0, <3>1, WalkKept
  <2> QED
    BY <2>5, <2>6 DEF WalkProgress
<1>3. ASSUME NEW b \in Backend, TickEnd(b) PROVE WalkProgress'
  <2>1. /\ UNCHANGED <<mt, visited, goal, queue, rank>> /\ mt[b] = NULL
        /\ bpc' = [bpc EXCEPT ![b] = "sleep"]
    BY <1>3 DEF TickEnd, queueVars
  <2>2. ASSUME NEW c \in Backend PROVE WalkAt(c)'
    <3>1. bpc'[c] = "sleep" => mt[c] = NULL
      BY <1>0, <2>1
    <3> QED
      BY <1>0, <2>1, <3>1, WalkKept
  <2> QED
    BY <2>2 DEF WalkProgress
<1>4. ASSUME NEW b \in Backend, WalkCheck(b) PROVE WalkProgress'
  <2>1. CASE Sampled(mt[b])
    <3>1. UNCHANGED <<mt, visited, goal, queue, rank>> /\ bpc' = [bpc EXCEPT ![b] = "sample"]
      BY <1>4, <2>1 DEF WalkCheck, queueVars
    <3>2. ASSUME NEW c \in Backend PROVE WalkAt(c)'
      <4>1. bpc'[c] = "sleep" => mt[c] = NULL
        BY <1>0, <3>1
      <4> QED
        BY <1>0, <3>1, <4>1, WalkKept
    <3> QED
      BY <3>2 DEF WalkProgress
  <2>2. CASE ~Sampled(mt[b])
    <3>1. /\ bpc[b] = "walk" /\ mt[b] # NULL /\ Advance(b)
          /\ UNCHANGED <<queue, rank, next, goal, bpc>>
      BY <1>4, <2>2 DEF WalkCheck, queueVars
    <3> QED
      BY <3>1, AdvanceStep
  <2> QED
    BY <2>1, <2>2
<1>5. ASSUME NEW b \in Backend, MetricSample(b) PROVE WalkProgress'
  <2>1. /\ bpc[b] = "sample" /\ mt[b] # NULL /\ Advance(b)
        /\ UNCHANGED <<queue, rank, next, goal>> /\ bpc' = [bpc EXCEPT ![b] = "walk"]
    BY <1>5 DEF MetricSample, queueVars
  <2> QED
    BY <2>1, AdvanceStep
<1>6. CASE UNCHANGED <<mt, bpc, goal, visited, rank, queue>>
  <2>1. ASSUME NEW c \in Backend PROVE WalkAt(c)'
    BY <1>0, <1>6, WalkKept
  <2> QED
    BY <2>1 DEF WalkProgress
<1> QED
  BY <1>1, <1>2, <1>3, <1>4, <1>5, <1>6, Frames DEF BackendStep

(* A sample empties the metric of the table for its key. *)
LEMMA SampleFacts ==
  ASSUME IInv, NEW b \in Backend, MetricSample(b)
  PROVE /\ mt[b] \in Metric /\ mt[b][2] \in Key /\ metrics[mt[b][2]] = mt[b]
        /\ emitted' = [emitted EXCEPT ![mt[b][2]] = emitted[mt[b][2]] + value[mt[b]]]
        /\ value' = [value EXCEPT ![mt[b]] = 0]
        /\ UNCHANGED <<metrics, recorded>>
<1>1. mt[b] \in Metric /\ mt[b] # NULL
  BY DEF IInv, TypeInv, TypeOK, MetricSample
<1>2. rank[mt[b]] > 0
  BY <1>1 DEF IInv, WalkProgress, WalkAt
<1>3. mt[b][2] \in Key /\ metrics[mt[b][2]] = mt[b]
  BY <1>1, <1>2, MetricFacts DEF IInv, TableRegistered, Queued
<1> QED
  BY <1>1, <1>3 DEF MetricSample, tableVars

(* A record adds to the metric of the table for its key. *)
LEMMA RecordFacts ==
  ASSUME IInv, NEW w \in Worker, MetricRecord(w)
  PROVE /\ metric[w] \in Metric /\ key[w] \in Key /\ metrics[key[w]] = metric[w]
        /\ value' = [value EXCEPT ![metric[w]] = value[metric[w]] + amount[w]]
        /\ recorded' = [recorded EXCEPT ![key[w]] = recorded[key[w]] + amount[w]]
        /\ UNCHANGED <<metrics, emitted>>
<1>1. pc[w] = "record"
  BY DEF MetricRecord
<1>2. metric[w] \in Metric /\ key[w] \in Key
  BY <1>1 DEF IInv, TypeInv, TypeOK
<1>3. metrics[key[w]] = metric[w]
  BY <1>1 DEF IInv, HoldsTableMetric
<1> QED
  BY <1>2, <1>3 DEF MetricRecord, tableVars

LEMMA ConservationStep == ASSUME IInv, [Next]_vars PROVE Conservation'
<1>t. /\ metrics \in [Key -> Metric \cup {NULL}] /\ value \in [Metric -> Nat]
      /\ recorded \in [Key -> Nat] /\ emitted \in [Key -> Nat]
      /\ key \in [Worker -> Key] /\ amount \in [Worker -> Nat]
      /\ NULL \notin Metric /\ Conservation
      /\ \A k \in Key : metrics[k] # NULL => metrics[k][2] = k
  BY MetricFacts DEF IInv, TypeInv, TypeOK, HoldsTableMetric
<1> USE <1>t DEF Conservation, Held
<1>1. ASSUME NEW w \in Worker, MetricNewInsert(w) PROVE Conservation'
  <2> DEFINE m == <<w, key[w]>>
  <2>1. /\ m \in Metric /\ metrics[key[w]] = NULL /\ m[2] = key[w]
        /\ metrics' = [metrics EXCEPT ![key[w]] = m]
        /\ value' = [value EXCEPT ![m] = 0] /\ UNCHANGED <<recorded, emitted>>
    BY <1>1, MetricFacts DEF MetricNewInsert, PutSucceeds, historyVars
  <2> HIDE DEF m
  <2>2. \A k \in Key : k # key[w] => metrics[k] # m
    BY <2>1
  <2> QED
    BY <2>1, <2>2
<1>2. ASSUME NEW w \in Worker, MetricRecord(w) PROVE Conservation'
  <2>1. /\ metric[w] \in Metric /\ metrics[key[w]] = metric[w]
        /\ value' = [value EXCEPT ![metric[w]] = value[metric[w]] + amount[w]]
        /\ recorded' = [recorded EXCEPT ![key[w]] = recorded[key[w]] + amount[w]]
        /\ UNCHANGED <<metrics, emitted>>
    BY <1>2, RecordFacts
  <2>2. \A k \in Key : k # key[w] => metrics[k] # metric[w]
    BY <2>1
  <2>3. ASSUME NEW k \in Key, k # key[w] PROVE recorded'[k] = emitted'[k] + Held(k)'
    BY <2>1, <2>2, <2>3
  <2>4. ASSUME NEW k \in Key, k = key[w] PROVE recorded'[k] = emitted'[k] + Held(k)'
    <3>1. /\ recorded[k] = emitted[k] + value[metric[w]]
          /\ value[metric[w]] \in Nat /\ amount[w] \in Nat /\ emitted[k] \in Nat
      BY <2>1, <2>4
    <3>2. Held(k)' = value[metric[w]] + amount[w]
      BY <2>1, <2>4
    <3>3. recorded'[k] = recorded[k] + amount[w] /\ emitted'[k] = emitted[k]
      BY <2>1, <2>4
    <3>4. recorded'[k] = emitted[k] + (value[metric[w]] + amount[w])
      BY <3>1, <3>3
    <3> HIDE DEF Conservation, Held
    <3> QED
      BY <3>2, <3>3, <3>4
  <2> QED
    BY <2>3, <2>4
<1>3. ASSUME NEW b \in Backend, MetricSample(b) PROVE Conservation'
  <2> DEFINE m == mt[b]
  <2>1. /\ m \in Metric /\ m[2] \in Key /\ metrics[m[2]] = m
        /\ emitted' = [emitted EXCEPT ![m[2]] = emitted[m[2]] + value[m]]
        /\ value' = [value EXCEPT ![m] = 0]
        /\ UNCHANGED <<metrics, recorded>>
    BY <1>3, SampleFacts
  <2> HIDE DEF m
  <2>2. \A k \in Key : k # m[2] => metrics[k] # m
    BY <2>1
  <2>3. ASSUME NEW k \in Key PROVE recorded'[k] = emitted'[k] + Held(k)'
    BY <2>1, <2>2
  <2> QED
    BY <2>3
<1>4. CASE UNCHANGED <<recorded, emitted, value, metrics>>
  BY <1>4
<1> QED
  BY <1>1, <1>2, <1>3, <1>4, Frames

LEMMA IInvStep == IInv /\ [Next]_vars => IInv'
<1> SUFFICES ASSUME IInv, [Next]_vars PROVE IInv'
  OBVIOUS
<1>1. TypeInv'
  BY TypeInvStep DEF IInv
<1> QED
  BY <1>1, HoldsStep, QueueStep, WalkStep, ConservationStep DEF IInv

LEMMA Inductive == Spec => []IInv
BY IInvInit, IInvStep, PTL DEF Spec

(* Two conjuncts of the inductive invariant. *)
LEMMA QueueInv == Spec => []QueueLinked /\ []TableRegistered
<1>1. IInv => QueueLinked /\ TableRegistered
  BY DEF IInv
<1> QED
  BY <1>1, Inductive, PTL

(* The lists that concurrent pushes of brubeck_backend_register_metric build stay complete
   and acyclic. *)
THEOREM QueueCorrect == Spec => []QueueLinked
BY QueueInv, PTL

(* Every metric of the table is in its backend's list, or about to be pushed by the worker
   that won the insert; and only those are walked. *)
THEOREM TableComplete == Spec => []TableRegistered
BY QueueInv, PTL

(* No update is lost or counted twice, whatever the races for a new key, the
   failed connections and the expiry of metrics. *)
THEOREM NoLostUpdate == Spec => []Conservation
<1>1. IInv => Conservation
  BY DEF IInv
<1> QED
  BY <1>1, Inductive, PTL

(* A tick that ended has visited every metric that was queued when it began. *)
THEOREM TickVisitsAll == Spec => []WalkComplete
<1>1. ASSUME IInv PROVE WalkComplete
  <2>1. ASSUME NEW b \in Backend, bpc[b] = "sleep" PROVE visited[b] = Before(b, goal[b])
    <3>1. Cursor(b) = 0
      BY <1>1, <2>1 DEF IInv, WalkProgress, WalkAt, Cursor
    <3>2. visited[b] \subseteq Metric /\ \A m \in Metric : rank[m] \in Nat
      BY <1>1 DEF IInv, TypeInv, TypeOK
    <3>3. \A m \in Metric :
            m \in visited[b] <=> Home(m) = b /\ 0 < rank[m] /\ rank[m] <= goal[b]
      BY <1>1, <3>1 DEF IInv, WalkProgress, WalkAt
    <3> QED
      BY <3>2, <3>3 DEF Before, Queued
  <2> QED
    BY <2>1 DEF WalkComplete
<1> QED
  BY <1>1, Inductive, PTL
-----------------------------------------------------------------------------
(* The count of keys.  Both sets grow and shrink by one element at a time, from finite
   ones, so they are finite whatever the number of workers and keys. *)
QueuedMetrics == {m \in Metric : Queued(m)}
Counting == {w \in Worker : pc[w] = "inc"}

CountInv ==
  /\ IsFiniteSet(QueuedMetrics) /\ IsFiniteSet(Counting)
  /\ unique_keys + Cardinality(Counting) = Cardinality(QueuedMetrics)

LEMMA CountInvInit == Init => CountInv
<1> SUFFICES ASSUME Init PROVE CountInv
  OBVIOUS
<1>1. \A m \in Metric : rank[m] = IF m = InternalMetric THEN 1 ELSE 0
  BY DEF Init
<1>a. unique_keys = 1 /\ \A w \in Worker : pc[w] = "idle"
  BY DEF Init
<1>b. QueuedMetrics = {InternalMetric}
  BY <1>1, MetricFacts DEF QueuedMetrics, Queued
<1>c. Counting = {}
  BY <1>a DEF Counting
<1>2. QueuedMetrics = {InternalMetric} /\ Counting = {} /\ unique_keys = 1
  BY <1>a, <1>b, <1>c
<1>3. IsFiniteSet(QueuedMetrics) /\ Cardinality(QueuedMetrics) = 1
  BY <1>2, FS_Singleton, Zenon
<1>4. IsFiniteSet(Counting) /\ Cardinality(Counting) = 0
  BY <1>2, FS_EmptySet
<1> QED
  BY <1>2, <1>3, <1>4 DEF CountInv

LEMMA CountStep == IInv /\ CountInv /\ [Next]_vars => CountInv'
<1> SUFFICES ASSUME IInv, CountInv, [Next]_vars PROVE CountInv'
  OBVIOUS
<1>t. /\ pc \in [Worker -> {"idle", "new", "register", "cas", "inc", "record"}]
      /\ rank \in [Metric -> Nat] /\ unique_keys \in Nat
  BY DEF IInv, TypeInv, TypeOK
<1>c. Cardinality(Counting) \in Nat /\ Cardinality(QueuedMetrics) \in Nat
  BY FS_CardinalityType DEF CountInv
<1>1. ASSUME NEW w \in Worker, RegisterCas(w), ~UNCHANGED <<queue, rank>> PROVE CountInv'
  <2>1. /\ metric[w] \in Metric /\ Home(metric[w]) \in Backend /\ rank[metric[w]] = 0
        /\ rank' = [rank EXCEPT ![metric[w]] = Length(Home(metric[w])) + 1]
    BY <1>1, CasFacts
  <2>2. Length(Home(metric[w])) \in Nat
    BY <1>1, <2>1, CasLength
  <2>3. pc[w] = "cas" /\ pc' = [pc EXCEPT ![w] = "inc"] /\ UNCHANGED unique_keys
    BY <1>1 DEF RegisterCas
  <2>4. QueuedMetrics' = QueuedMetrics \cup {metric[w]} /\ metric[w] \notin QueuedMetrics
    BY <1>t, <2>1, <2>2 DEF QueuedMetrics, Queued
  <2>5. Counting' = Counting \cup {w} /\ w \notin Counting
    BY <1>t, <2>3 DEF Counting
  <2>6. /\ IsFiniteSet(QueuedMetrics') /\ Cardinality(QueuedMetrics') = Cardinality(QueuedMetrics) + 1
        /\ IsFiniteSet(Counting') /\ Cardinality(Counting') = Cardinality(Counting) + 1
    BY <2>4, <2>5, FS_AddElement DEF CountInv
  <2> QED
    BY <1>t, <1>c, <2>3, <2>6 DEF CountInv
<1>2. ASSUME NEW w \in Worker, StatsIncUniqueKeys(w) PROVE CountInv'
  <2>1. /\ pc[w] = "inc" /\ pc' = [pc EXCEPT ![w] = "record"]
        /\ unique_keys' = unique_keys + 1 /\ UNCHANGED rank
    BY <1>2 DEF StatsIncUniqueKeys, queueVars
  <2>2. Counting' = Counting \ {w} /\ w \in Counting /\ QueuedMetrics' = QueuedMetrics
    BY <1>t, <2>1 DEF Counting, QueuedMetrics, Queued
  <2>3. IsFiniteSet(Counting') /\ Cardinality(Counting') = Cardinality(Counting) - 1
    BY <2>2, FS_RemoveElement DEF CountInv
  <2> QED
    BY <1>t, <1>c, <2>1, <2>2, <2>3 DEF CountInv
<1>3. ASSUME UNCHANGED <<rank, unique_keys>>, Counting' = Counting PROVE CountInv'
  BY <1>3 DEF CountInv, QueuedMetrics, Queued
<1>4. ASSUME NEW w \in Worker, WorkerStep(w), ~StatsIncUniqueKeys(w),
             ~RegisterCas(w) \/ UNCHANGED <<queue, rank>>
      PROVE UNCHANGED <<rank, unique_keys>> /\ Counting' = Counting
  <2>1. /\ UNCHANGED <<rank, unique_keys>> /\ pc[w] # "inc"
        /\ \E p \in {"new", "register", "cas", "record", "idle"} : pc' = [pc EXCEPT ![w] = p]
    <3>1. CASE RegisterCas(w)
      <4>1. ~HeadUnchanged(w)
        <5>1. rank[metric[w]] = 0 /\ metric[w] \in Metric /\ Home(metric[w]) \in Backend
          BY <3>1, CasFacts
        <5>2. queue \in [Backend -> Metric \cup {NULL}]
          BY DEF IInv, TypeInv, TypeOK
        <5>3. HeadUnchanged(w) => rank'[metric[w]] = Length(Home(metric[w])) + 1
          BY <1>t, <3>1, <5>1 DEF RegisterCas
        <5>4. Length(Home(metric[w])) \in Nat
          BY <1>t, <5>1, <5>2 DEF Length
        <5>5. HeadUnchanged(w) => rank'[metric[w]] # rank[metric[w]]
          BY <5>1, <5>3, <5>4
        <5>6. rank' = rank
          BY <1>4, <3>1
        <5> QED
          BY <5>5, <5>6
      <4> QED
        BY <3>1, <4>1 DEF RegisterCas, Retry
    <3>2. CASE ~RegisterCas(w)
      BY <1>4, <3>2, ZenonT(20) DEF WorkerStep, MetricFindHit, MetricFindMiss, MetricNewInsert, MetricNewLose,
         AfterLosing, RegisterLink, MetricRecord, queueVars
    <3> QED
      BY <3>1, <3>2
  <2> QED
    BY <1>t, <2>1 DEF Counting
<1>5. ASSUME ~ \E w \in Worker : WorkerStep(w) PROVE UNCHANGED <<rank, unique_keys, pc>>
  BY <1>5, ZenonT(20) DEF Next, BackendStep, TickBegin, TickNotConnected, WalkCheck, MetricSample, TickEnd,
     SweepBegin, SweepStep, SweepLoad, SweepStore, SweepEnd, DumpBegin, DumpStep, DumpMetric,
     DumpEnd, HttpExpire, workerVars, queueVars, vars
<1>6. CASE ~ \E w \in Worker : WorkerStep(w)
  BY <1>3, <1>5, <1>6 DEF Counting
<1> QED
  BY <1>1, <1>2, <1>3, <1>4, <1>6

(* The statistic counts every key once, whichever worker wins the race for it. *)
THEOREM KeysCounted == Spec => []UniqueKeysExact
<1>1. CountInv => UniqueKeysExact
  BY DEF CountInv, UniqueKeysExact, QueuedMetrics, Counting
<1> QED
  BY <1>1, Inductive, IInvStep, CountInvInit, CountStep, PTL DEF Spec
-----------------------------------------------------------------------------
(* A worker only carries amounts that messages carry. *)
AmountInv == \A w \in Worker : pc[w] # "idle" => amount[w] \in Amount

LEMMA AmountStep == IInv /\ AmountInv /\ [Next]_vars => AmountInv'
<1> SUFFICES ASSUME IInv, AmountInv, [Next]_vars PROVE AmountInv'
  OBVIOUS
<1>t. /\ amount \in [Worker -> Nat] /\ AmountInv
      /\ pc \in [Worker -> {"idle", "new", "register", "cas", "inc", "record"}]
  BY DEF IInv, TypeInv, TypeOK
<1> USE <1>t DEF AmountInv
<1>1. ASSUME NEW w \in Worker, WorkerStep(w) PROVE AmountInv'
  <2>1. CASE \E k \in ClientKey, v \in Amount : MetricFindHit(w, k, v) \/ MetricFindMiss(w, k, v)
    BY <2>1 DEF MetricFindHit, MetricFindMiss
  <2>2. CASE ~ \E k \in ClientKey, v \in Amount : MetricFindHit(w, k, v) \/ MetricFindMiss(w, k, v)
    <3>1. /\ UNCHANGED amount /\ pc[w] # "idle"
          /\ \A x \in Worker : x # w => pc'[x] = pc[x]
      BY <1>1, <2>2, ZenonT(20) DEF WorkerStep, MetricNewInsert, MetricNewLose, RegisterLink, RegisterCas,
         StatsIncUniqueKeys, MetricRecord
    <3> QED
      BY <3>1
  <2> QED
    BY <2>1, <2>2
<1>2. CASE ~ \E w \in Worker : WorkerStep(w)
  <2>1. UNCHANGED <<pc, amount>>
    BY <1>2, ZenonT(20) DEF Next, BackendStep, TickBegin, TickNotConnected, WalkCheck, MetricSample, TickEnd,
       SweepBegin, SweepStep, SweepLoad, SweepStore, SweepEnd, DumpBegin, DumpStep,
       DumpMetric, DumpEnd, HttpExpire, workerVars, vars
  <2> QED
    BY <2>1
<1> QED
  BY <1>1, <1>2, ZenonT(20)

(* A step of the threads is a step of the abstract aggregator or leaves it as
   it is. *)
LEMMA RefinementStep == IInv /\ AmountInv /\ [Next]_vars => [A!Next]_(A!vars)
<1> SUFFICES ASSUME IInv, AmountInv, [Next]_vars PROVE [A!Next]_(A!vars)
  OBVIOUS
<1> DEFINE pending == [k \in Key |-> Held(k)]
<1>t. /\ metrics \in [Key -> Metric \cup {NULL}] /\ value \in [Metric -> Nat]
      /\ recorded \in [Key -> Nat] /\ emitted \in [Key -> Nat]
      /\ key \in [Worker -> Key] /\ amount \in [Worker -> Nat]
      /\ NULL \notin Metric
      /\ \A k \in Key : metrics[k] # NULL => metrics[k][2] = k
  BY MetricFacts DEF IInv, TypeInv, TypeOK, HoldsTableMetric
<1> USE <1>t DEF Held
<1>1. ASSUME NEW w \in Worker, MetricNewInsert(w) PROVE UNCHANGED <<recorded, pending, emitted>>
  <2> DEFINE m == <<w, key[w]>>
  <2>1. /\ m \in Metric /\ metrics[key[w]] = NULL /\ m[2] = key[w]
        /\ metrics' = [metrics EXCEPT ![key[w]] = m]
        /\ value' = [value EXCEPT ![m] = 0] /\ UNCHANGED <<recorded, emitted>>
    BY <1>1, MetricFacts, ZenonT(20) DEF MetricNewInsert, PutSucceeds, historyVars
  <2> HIDE DEF m
  <2>2. \A k \in Key : k # key[w] => metrics[k] # m
    BY <2>1
  <2>3. \A k \in Key : Held(k)' = Held(k)
    BY <2>1, <2>2
  <2> QED
    BY <2>1, <2>3
<1>2. ASSUME NEW w \in Worker, MetricRecord(w) PROVE A!Record(key[w], amount[w]) /\ amount[w] \in Amount
  <2>1. /\ metric[w] \in Metric /\ metrics[key[w]] = metric[w] /\ key[w] \in Key
        /\ value' = [value EXCEPT ![metric[w]] = value[metric[w]] + amount[w]]
        /\ recorded' = [recorded EXCEPT ![key[w]] = recorded[key[w]] + amount[w]]
        /\ UNCHANGED <<metrics, emitted>> /\ amount[w] \in Amount
    BY <1>2, RecordFacts, ZenonT(20) DEF MetricRecord, AmountInv
  <2>2. \A k \in Key : k # key[w] => metrics[k] # metric[w]
    BY <2>1
  <2>3. \A k \in Key : Held(k)' = IF k = key[w] THEN Held(k) + amount[w] ELSE Held(k)
    BY <2>1, <2>2
  <2>4. pending' = [pending EXCEPT ![key[w]] = @ + amount[w]]
    <3> HIDE DEF Held
    <3> QED
      BY <2>1, <2>3, ZenonT(20)
  <2> QED
    BY <2>1, <2>4 DEF A!Record
<1>3. ASSUME NEW b \in Backend, MetricSample(b)
      PROVE mt[b][2] \in Key /\ (A!Emit(mt[b][2]) \/ UNCHANGED <<recorded, pending, emitted>>)
  <2> DEFINE m == mt[b]
             q == m[2]
  <2>1. /\ m \in Metric /\ q \in Key /\ metrics[q] = m
        /\ emitted' = [emitted EXCEPT ![q] = emitted[q] + value[m]]
        /\ value' = [value EXCEPT ![m] = 0]
        /\ UNCHANGED <<metrics, recorded>>
    BY <1>3, SampleFacts
  <2> HIDE DEF m, q
  <2>2. \A k \in Key : k # q => metrics[k] # m
    BY <2>1
  <2>3. \A k \in Key : Held(k)' = IF k = q THEN 0 ELSE Held(k)
    BY <2>1, <2>2
  <2>4. Held(q) = value[m] /\ value[m] \in Nat
    BY <2>1
  <2>5. pending' = [pending EXCEPT ![q] = 0] /\ pending[q] = value[m]
    <3> HIDE DEF Held
    <3> QED
      BY <2>1, <2>3, <2>4, Zenon
  <2>6. CASE value[m] > 0
    BY <2>1, <2>5, <2>6, Zenon DEF A!Emit, q, m
  <2>7. CASE value[m] = 0
    <3>1. emitted' = emitted
      BY <2>1, <2>7
    <3>2. \A k \in Key : Held(k)' = Held(k)
      BY <2>3, <2>4, <2>7
    <3> HIDE DEF Held
    <3>3. UNCHANGED pending
      BY <3>2
    <3> QED
      BY <2>1, <3>1, <3>3 DEF q, m
  <2> HIDE DEF Held, pending
  <2>8. value[m] > 0 \/ value[m] = 0
    BY <2>4
  <2> QED
    BY <2>6, <2>7, <2>8
<1>4. CASE UNCHANGED <<recorded, emitted, value, metrics>>
  BY <1>4 DEF A!vars
<1> HIDE DEF Held, pending
<1>5. ASSUME UNCHANGED <<recorded, pending, emitted>> PROVE UNCHANGED A!vars
  BY <1>5 DEF A!vars, pending
<1>6. \A w \in Worker : key[w] \in Key
  OBVIOUS
<1>7. ASSUME NEW w \in Worker, MetricRecord(w) PROVE A!Next
  BY <1>2, <1>6, <1>7 DEF A!Next
<1>8. ASSUME NEW b \in Backend, MetricSample(b) PROVE A!Next \/ UNCHANGED A!vars
  BY <1>3, <1>5, <1>8 DEF A!Next
<1> QED
  BY <1>1, <1>4, <1>5, <1>7, <1>8, Frames

(* The store with all its threads implements the abstract aggregator. *)
THEOREM Refinement == Spec => ImplementsAggregator
<1>1. Init => A!Init /\ AmountInv
  BY MetricFacts DEF Init, A!Init, Held, AmountInv
<1> QED
  BY <1>1, Inductive, AmountStep, RefinementStep, PTL DEF Spec, ImplementsAggregator, A!Spec
=============================================================================
