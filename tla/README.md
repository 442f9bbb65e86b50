# A TLA+ model of brubeck

brubeck is a statsd-compatible aggregator written in C. Worker threads receive
UDP datagrams, parse them and record their values in metrics shared by all
threads. Backend threads sample the metrics periodically and send the samples to
carbon. The main thread serves signals and timers. The specifications here are
written from the sources under `src/`. TLC checks them on small instances, and
TLAPS proves the main safety properties for every value of the constants.

`PROJECT.json` has the exact correspondence between definitions and source lines
("map"), the list of runs, and the list of hazards the properties are aimed at.

## The system

| part | state | operations that change it | who runs them |
|---|---|---|---|
| metric store (`metric.c`, `ht.c`, `backend.c`) | hash table, one lock-free list per backend, flag `expire` and value of every metric | find or create, insert, register, record, walk, sample | workers, backends |
| expiry and dump (`server.c`, `http.c`) | `expire` flags, table mutex | sweep on a timer, dump on `SIGUSR2`, `POST /expire` | main thread, HTTP thread |
| metric types (`metric.c`) | value and previous reading | record, sample, under a spinlock | workers, backends |
| histogram (`histogram.c`) | growing array, count | push, sample, under a spinlock | workers, backends |
| carbon backend (`carbon.c`, `utils.h`) | socket, pickle buffer, message being written | connect, each, flush, write | its backend thread |
| number formatting (`utils.c`) | none | `itoa`, `ftoa` | backend threads |
| statsd sampler (`statsd.c`) | receive buffers, flow | receive, parse | workers |
| secure sampler (`statsd-secure.c`, `bloom.c`) | one bloom filter per second of drift, counters | verify a token | one thread |
| slab allocator (`slab.c`) | nodes and fill levels | alloc, under a mutex | workers, main thread |
| start-up (`brubeck.c`, `server.c`, `sampler.c`) | signal mask, backends and samplers loaded, sockets | load, bind, die | main thread, workers |
| main loop (`server.c`) | signals, timers, `running`, flows | poll, serve, stop | main thread |
| internal statistics (`internal_sampler.c`, `server.h`, `http.c`) | live and sampled counters | increment, take, show | all threads |
| log (`log.c`) | current `FILE` | open, reopen, write | all threads |
| CityHash, process title, socket helpers | - | - | not modelled |

What is hard in this system is mostly concurrency without locks:

- two workers create the same metric at once;
- pushes onto a backend's list race with each other and with its walk;
- a plain load and store lowers a flag that three other threads store to;
- counters and flows are taken while workers add to them;
- the sampled counters are shown by the HTTP thread while they are replaced;
- `FILE`s are closed while other threads log;
- workers receive, and signals arrive, while the server is still loading.

The rest is partial failure and boundaries:

- a connection lost in the middle of a batch, or of one message;
- receive buffers that still hold old datagrams;
- histograms that reach their limit;
- filters that are reused after `max_drift` seconds, and a clock that is set back;
- doubles narrowed to floats and printed with integer arithmetic;
- indices of percentiles computed with floats.

## Modules

| module | models | uses |
|---|---|---|
| `MetricStore` | the store with its threads, one action per step between shared accesses | instantiates `Aggregator` |
| `TimedStore` | the store without HTTP clients and dumps, with a sweep only after every backend's tick | extends `MetricStore` |
| `Aggregator` | abstract specification: record adds to what is pending, emit takes all of it | |
| `MetricTypes` | gauges, meters and counters | |
| `Histogram` | histograms and timers | extends `Order` |
| `Order` | what `qsort` makes of the values of a histogram | |
| `Metric` | one metric of any type, against the history of its messages | extends `Histogram`, instantiates `MetricTypes` |
| `Carbon` | the connection, plain text and pickle protocols, writing in pieces | |
| `Decimals` | powers and the number that digits stand for, used by both conversions | |
| `Format` | the conversion from double to float, `brubeck_itoa` and `brubeck_ftoa`, and how a text reads back | extends `Decimals` |
| `PlainText` | the carbon backend with the texts of its values | extends `Carbon` and `Format` |
| `StatsdMsg` | the message scanner, as operators on texts | extends `Decimals` |
| `Statsd` | a worker's receive loop; also states the grammar of a message | extends `StatsdMsg` |
| `StatsdSecure` | token verification and rolling filters | |
| `Slab` | the allocator, split at its shared accesses | |
| `ServerLoop` | poll loop, signals, timers, `update_flows`, shutdown | |
| `LogFile` | opening and reopening the log | |
| `Server` | the process from `main` to its end: loading, then the loop, with the log | extends `ServerLoop` and `LogFile` |
| `Log` | the threads that write to the log while it is reopened | extends `LogFile` |
| `InternalStats` | live and sampled counters | |
| `HttpStats` | `GET /stats` reading the sampled counters | extends `InternalStats` |
| `SecureStats` | the secure sampler and other workers counting while the counters are taken and shown | extends `StatsdSecure`, instantiates `HttpStats` |
| `MC*` | values for constants that a configuration file cannot express | the module they are named after; `MCCarbon` extends `PlainText` |
| `*Proofs` | theorems about the module they are named after; `MetricProofs` also has those about `Histogram`, `SecureStatsProofs` those about `StatsdSecure`, `CarbonProofs` those about `Format` | that module, `TLAPS` |
| `DataLemmas` | lemmas about induction, sums, powers, decimal numbers and parts of sequences | used by `MetricProofs`, `SecureStatsProofs`, `CarbonProofs` and `StatsdProofs` |

Variables and actions carry the names of the C code where TLA+ permits it.
Variables marked `history` record the past for the properties and guard nothing,
except where a counter is compared with one of the named bounds. Definitions
commented as mutants are small changes of the definition that follows them. They
are used to test that a property notices the change.

### How steps were chosen

`MetricStore` has one step per access to memory another thread writes. Some
accesses are merged, for these reasons:

- A table entry never changes once set, so a successful lookup and the first
  access to the metric are one step.
- `new_metric` fills a block that only its thread can see, so it is part of the
  insert.
- The critical section of a metric's spinlock is one step.
- `metric->next` of a queued metric never changes, so following it belongs to the
  step that finishes with the metric.
- `server->at_capacity` is never assigned, so its early return is dead code.

`expire_metric` is two steps, a load and a store, because neither is protected
against the stores of other threads. Metrics in this module are meters; the other
types are in `MetricTypes` and `Histogram`, where each operation is one step
because it holds the spinlock. The sweep and the dump are the two users of
`brubeck_hashtable_foreach`; both run in the main thread, so there is at most one
at a time. Clients are assumed not to use the server's own
name, the key of the internal statistics, as a metric name.

`Carbon` keeps lengths, and counts of samples, instead of bytes. `pos` and `pt`
are 16 bits wide and the key length in a pickle 8 bits, as in the code. A message
is written by `write_in_full` in one step per `write`, and each may take a part of
it, all of it, or fail. The length of a plain text line is the length of its key
and of the texts that `Format` computes. It is taken to fit the 1024 bytes of the
buffer that `plaintext_each` puts it together in.

`Format` has the widths of the code's types as constants. A sample is a `double`,
which the call at `carbon.c:65` converts to the nearest `float`. `ftoa` works on the
bit pattern of that. So a value is a record of a sign, an exponent and a mantissa,
and a text is a sign and two sequences of digits.

`Histogram` computes the index of a percentile as the code does, with 24 bits and
rounding after the product and after the sum. Numbers are multiples of 2^-24. Compared
with exact arithmetic the index is one higher for the rank 0.999 at a few sizes; the
smallest is 16501.

`Server` has one step per backend, per sampler and per other statement of
`brubeck_server_init` that another thread or a signal can notice. Threads inherit
the signal mask of the main thread. A signal that some thread does not block ends
the process. A worker of a sampler without `multisock` can receive as soon as it is
started; with it, once the worker has bound its own socket.

`HttpStats` has one step per counter read. The two calls of `json_pack` in
`send_stats` are in order, the arguments of one call are not.

`StatsdMsg` works on sequences of characters because what it computes is about
characters. The lines of a datagram are named by the positions they start at, so that
the loop of `brubeck_statsd_packet_parse` is a set of starts. When a key is empty the
parser looks at the byte before it. For the first line this is a byte that is not part
of the text: of the header of a block of `malloc` in the statsd sampler, the last byte
of the nonce in the secure one. `Preceding` has the bytes it may be, and each parse picks
one. A number is an integer and a scale, so a sampling rate is compared with 1 exactly.
The code compares doubles: a rate that differs from 1 only after some 16 digits is
1 to it. Exponents, which the code hands to `strtod`, are not in the alphabet.

`StatsdSecure` abstracts the HMAC to its
verdict and keeps the two words that index the filter. Its clock is the time of
day, which can be set back to any earlier second.

## What is model-checked

State counts are distinct states.

| run | configuration | checks | states |
|---|---|---|---|
| `store_safety` | 2 workers, 2 client keys, 1 backend, 2 messages | list well-formed, table and lists agree, no update lost, walk complete, `unique_keys` exact, a dump shows the whole table; the store implements `Aggregator` | 428,506 |
| `store_liveness` | 2 workers, 1 client key, 1 backend | every message is recorded; what a metric holds is sampled or the metric disabled | 66,748 |
| `carbon` | both protocols, keys of 1, 230, 255 and 300 bytes, buffer of 700, 7 samples or 3 lines, every third value of a double format of 7 bits, floats of 5 bits | buffer bounds, no stale sample, accounting, no message after a torn one, texts read back as the sample up to the float's rounding and four decimals | 453,113 |
| `slab` | 2 threads, 4 requests from 1 to 129 bytes, nodes of 128 | blocks disjoint; only a request larger than a node leaves its node, and has it alone | 51,529 |
| `metric` | histogram: limit of 5 values, 6 pushes, rates 1 and 1/3.3; others: 4 messages, 2 samples, values -1, 0, 1, 3 | bounds, count, percentiles; gauge, meter and counter agree with the history | 2,347,169 |
| `secure` | drift 2, 4 seconds, clock set back once, 3 datagrams of 5 tokens, counters modulo 3, 2 ticks, 1 request | duplicates dropped but for the last second of the window, counted again only after a reset, drops explained by the same filter, every datagram passed on or reported once, no increment lost, a response mixes ticks one way only, `unique_keys` never falls until it wraps | 570,822 |
| `statsd` | 1 buffer: all texts one edit from 4 datagrams; 2 buffers: 3 reads | scanner agrees with the grammar, whatever precedes a datagram; old buffers yield no message | 13,312 |
| `server_loop` | 1 sampler with and without `multisock`, 2 backends, `SIGHUP`, `SIGUSR2` and `SIGTERM` once, each timer once, 1 rotation | signals cannot kill a loaded server, shards fixed, reads never block, flows accounted, one log open; events and rotations served, shutdown completes | 143,684 |

`Metric` and `SecureStats` put modules together: `Metric` dispatches on the type as
`_prototypes` does. `SecureStats` lets one turn of the secure sampler's thread
increment the counter that a backend may be taking at that moment. `Server` puts the
poll loop behind the start-up, and handles `SIGHUP` by the steps of `LogFile`. The setting
that selects a variant of the code (`pickle`, `multimsg`, the type of a metric) is
a variable that `Init` chooses and no action changes, so one run covers all
variants.

### Why the bounds are enough to be interesting

- Two workers and two messages give every race for one key and every race of two
  pushes for one list. A third worker adds only longer chains of retries, and the
  theorems cover any number. `store_safety` uses the symmetry of the workers and of
  the client keys, which differ in nothing when there is one backend.
- The pickle buffer is scaled down so that two or three samples fill it. Its keys
  include one longer than 255 bytes. The theorem covers the real size of 4096.
- The histogram limit is reached and exceeded within six pushes, after a growth to
  a size that is not a power of two.
- Four seconds at drift 2 reuse both filters, leave seconds without any datagram
  and let a token return exactly `max_drift` seconds late. Three datagrams suffice
  to cover the bits of a third token by two others, and to send one token three
  times. The theorem covers any number of them.
- Counters modulo 3 take two increments before they wrap with the third, so `unique_keys`
  can be shown, grow and be shown again.
- `MCSecureStats` explores four kinds of behaviours: three datagrams with the clock
  set back, ticks with two increments, ticks and a request with one, and ticks with
  increments only. The clock does
  not touch the counters, and a request does not look at their values. The theorems
  are about `SecureSpec`, which has no such bound.
- The double format has 7 bits of mantissa instead of 53, so that the conversion rounds
  down, up, to even and over a power of 2. The run takes every third mantissa, and all
  exponents. The float format has 5 bits instead of 24, and the other widths are
  scaled so that `WidthAssumption` is as tight as with the real ones: ten times a
  fraction just fits, and an exponent is below the range printed, inside it, beyond
  the 32 and beyond the 64 bits. Both chunk sizes split a batch, and the larger one
  leaves a second part in a long line.
- Two backends and a sampler are enough for a worker to meet a wrong number of
  backends. The theorems cover any number.

### Fairness

- `MetricStore`: weak fairness for a worker's steps after the insert, for the
  backends and for a sweep or a dump under way: threads that can run do run. Strong fairness
  for the insert: the main thread holds the mutex for one sweep and then sleeps in
  `poll` for a whole expire period, so a waiting worker gets it. A backend is
  assumed to find carbon accepting again eventually. The arrival of messages,
  sweeps and HTTP requests is never assumed.
- `Server`: weak fairness of the main thread only, in every phase. That a worker
  binds its socket, that a timer expires or a signal comes is never assumed.
- The outage and sweep race runs let a sweep begin only after every backend has
  ended a tick begun since the last one, or has failed to connect. An `expire`
  period of at least twice the backends' frequency gives that.

### Where the code and its documentation disagree

Each of these runs is expected to end with a counterexample.

| run | what the text says | what the model does |
|---|---|---|
| `store_outage` | sampling keeps the internal metric active so that it is not pruned | two sweeps while carbon is unreachable disable it, and a disabled metric is never sampled again |
| `store_sweep_race` | a sweep turns active into inactive and inactive into disabled | a message between the load and the store is overwritten: active becomes disabled |
| `secure_roll` | a bloom filter prevents replays, with one filter for every drift second | a copy that is exactly `max_drift` seconds old is accepted again: it is not delayed yet, and shares the filter of the current second, which was just reset |
| `log_race` | `SIGHUP` reopens the log | a thread logging at that moment can use the closed `FILE` |

Further remarks of this kind, which need no run of their own:

- The store at `server.c:73` that overwrites a message also overwrites a
  `POST /expire` that came after its load: the metric is enabled again.
- With `multimsg`, the flow of a sampler grows by the number of buffers at every
  read (`statsd.c:54`), not by the number of datagrams.
- `ftoa` passes its 64 bit integer part to `itoa`, which takes 32 bits
  (`utils.c:184`): in the plain text protocol values from 2^32 on lose their high bits.
  `Truncated`, a part of `TextCloseToSample`, says so.
- `slab.c` does not compare a request with the size of a node. A metric whose key makes
  it larger than a node gets a block that ends behind its node. `NoBlockStraddles` says
  that this is the only case, and that no other block is in that node.
- "Client-sent sampling rates are ignored", says the README of the repository.
  `MeterConserves` and `CounterTotal` hold with each value multiplied by the
  inverse of its rate.

## What is proved

| module | theorems | inductive invariant |
|---|---|---|
| `MetricStoreProofs` | `TypeCorrect`: types, `expire` stays in 0..2. `KeyKeepsMetric`: entries are never replaced. `DumpComplete`: a dump shows the whole table | `TypeInv`: adds that a metric in use is not `NULL`, and that the flag a sweep loaded is above 0; `DumpInv` |
| `MetricStoreProofs` | `QueueCorrect`: lists well-formed. `TableComplete`: table and lists agree. `NoLostUpdate`: recorded = emitted + held. `TickVisitsAll`: a finished walk saw all that was queued at its start. `Refinement`: the store implements `Aggregator` (safety) | `IInv`, and `AmountInv` for the refinement |
| `MetricStoreProofs` | `KeysCounted`: `unique_keys` exact | `CountInv` |
| `CarbonProofs` | `TypeCorrect`, `PicklerInBounds`, `NothingStale`, `AllAccounted`, `FramesIntact`: types, and one for each property of the run but the last. `LossDisconnects`: samples are dropped only with the connection | `CInv` |
| `CarbonProofs` | `FtoaCuts`: for every bit pattern, and every width of the types that the assumption allows, `ftoa` prints the float cut to four decimals and to 32 bits, in canonical form. `TextsClose`: every line the backend sends has this text for the float nearest to the sample, and below 2^23 it differs from the sample by less than half a unit of the float and 0.0001 | - |
| `SlabProofs` | `SlabDisjoint`: blocks disjoint, for requests of any size. `SlabNoStraddle`: only a block larger than any node leaves its node, and has it alone | `SInv` |
| `MetricProofs` | `HistogramInBounds`: writes stay inside the array. `EmptinessAgrees`, `CountsCorrect`: the count | `HInv`, `CountInv` |
| `MetricProofs` | `RankInRange`: percentile indices, with the rounding of floats, are valid and ordered for every size of 16 bits | - |
| `MetricProofs` | `SamplesSummarise`: a sample has the true extremes and sum, and percentiles within a hundredth of the nearest rank, of the values pushed since the last one, up to the limit | `KeptInv` |
| `MetricProofs` | `GaugeFollows`, `MeterConserved`, `CounterFollowed`: the value of each type agrees with the history of its messages | `SimpleInv` |
| `MetricProofs` | `HistogramComposed`: `Metric` implements `Histogram`, so the theorems above hold in the composition | - |
| `SecureStatsProofs` | `DuplicatesDroppedAlways`: since the clock was last set back a token was accepted at most once before it is `drift` seconds old, and twice in all | `DInv` |
| `SecureStatsProofs` | `FiltersExact`: accepted again only after a reset. `DropsJustified`: dropped only because of tokens of its own filter | `FilterInv` |
| `SecureStatsProofs` | `IncrementsConserved`: nothing counted is lost or reported twice. `KeysMonotonic`: `unique_keys` as shown never falls | `StatsInv` |
| `SecureStatsProofs` | `ResponsesOrdered`: a response mixes ticks one way only | `HttpInv` |
| `SecureStatsProofs` | `DatagramsAccountedAlways`: a datagram is passed on, or reported under one reason | `AccountInv`, with `StatsInv` |
| `SecureStatsProofs` | `SamplerComposed`: `SecureStats` implements `StatsdSecure`, so the theorems above hold in the composition | - |
| `ServerProofs` | `ReadsReady`: reads never block. `FlowsPublished`: flows accounted | `LoopInv` |
| `ServerProofs` | `SignalsBlockedFirst`: signals cannot kill a loaded server. `ShardingStable`: shards fixed | `BootInv` |
| `ServerProofs` | `ShutdownOrderly`: exactly the threads started are told to stop, none while the loop goes on | `StopInv`, with `BootInv` |
| `ServerProofs` | `LoopComposed`: `Server` implements `ServerLoop` | - |
| `ServerProofs` | `NoLogLeaked`: no `FILE` leaked. `ReopenFollows`: rotation followed, whichever `fopen` fails | `LInv` |
| `StatsdProofs` | `RecordedOnceAlways`: an old buffer yields no message. `StaleBounded`: it costs at most one error | `WorkerInv` |
| `StatsdProofs` | `ParserReads`: of every text, the parser accepts what the grammar can read, with that reading. `ParserExactAlways`: so does the worker, for every line of a fresh datagram, but for a first line with an empty key, which the byte before it may refuse | `WorkerInv` for the texts in the buffers |

How the arguments go:

- `IInv` of the store. The properties are not inductive alone. `HoldsTableMetric`
  adds that a worker past the insert holds the metric of the table for its key.
  This is what makes a record by the loser of an insert count, and what makes the
  pusher of a metric unique. `WalkProgress` adds that what a walk has visited is
  exactly the part of the list above its cursor and at or below the length at its
  start. The ghost variable `rank`, the position of a metric in its list, turns
  "following `next`" into arithmetic, so that no induction over lists is needed.
- `DumpInv`. While a dump holds the mutex, the table is what was written and what is
  left to write: inserts need the mutex, and no other step changes an entry.
- `CountInv` of the store. A worker about to count holds a queued metric that is not
  counted, and no two of them hold the same one. The cardinalities then change by one
  together.
- `CInv`. The buffer grows by 26 bytes and the key per sample, and is flushed when
  32 bytes and the key do not fit. The bound holds because a key has at most 255
  bytes after the cut to 8 bits, and a lead with one sample fits. `BufferAssumption`
  states that. `CInv` also says what is left to write at each point of a message, and
  that the connection is torn only then or after it was given up.
- `CountInv` of the histogram. A frequency is at least 1, so each push counts at least
  one, and the division loses less than one unit per push.
- `KeptInv`. The array holds the values pushed since the last sample, in the order they
  came, up to the limit. The rest is about sorting: a sorted sequence has as many
  copies of each value as the original. So it has the same sum, the same number of
  values below any other, and its extremes at its ends.
- `SimpleInv`. Each type has a summary of its history that one more message extends. A
  gauge has the sum since the last absolute value. A meter has the sum of everything. A
  counter has the sum of the readings at peaks so far, and the last reading.
- `DataLemmas`. A sum over a finite set, a power, the number that digits stand for and
  the loop of `itoa` are recursive functions. That such a function exists and satisfies
  its equation is shown once for each, from the functions on the numbers up to a bound
  (`StepsExist`, `SumExists`, `LowUpTo`). These lemmas rest on `SetInduction` and
  `StrongInduction`, which have a set of numbers in the place of a predicate and follow
  from the well-foundedness of the natural numbers.
- `FtoaCuts`. `ItoaPrints` shows that the digits of `itoa`, swapped, are the number in
  decimal, without a leading 0. `FracTurn` is one turn of the loop of `ftoa`: ten times
  the fraction is the digit and the fraction that is left. Ten times a fraction never
  wraps, because `WidthAssumption` leaves four bits above it. Four turns give the first
  four decimals (`FracExpands`), trimming zeros does not change what they stand for
  (`TrimmedReads`), and the cases by exponent put the two parts together (`TinyCut`,
  `FractionCut`, `WholeCut`, `HugeCut`). The branch that prints 0 is right because
  10^4 is at most 2^36.
- `TextsClose`. `NearestIs` bounds the rounding of the mantissa by half a unit,
  `ToFloatIs` carries this over the change of exponent when the mantissa rounds up to a
  power of 2, and `CutNear` adds the cut of `FtoaCuts`.
- `RankInRange`. A float differs from the number it is rounded from by at most its
  2^-24th part (`FloatFacts`), so two roundings move the product by at most 2n units of
  2^-24 (`ProductFacts`). Two ranks are at least 150000n units apart, and n values of
  16 bits keep the error below a hundredth. An index is never 0, because rounding does
  not cross a power of 2.
- `ParserReads`. `Scan` describes the walk of `parse_float` by the positions where its
  loops stop. There is exactly one walk from every position (`ScanFacts`). What it passes
  is a number of the grammar (`ScanNum`), and a number that `|` or the end follows is
  passed as a whole (`NumScan`). The grammar weighs each digit by the digits behind it,
  the code multiplies by ten as it goes: `WorthDigit` shows, from the last digit to
  the first, that both give the same value. `Split` then lists the positions of the four
  fields. A line that has them is accepted with their reading (`SplitParses`). A line that
  is accepted has them (`ParseSplits`), up to its first nul, because no character that the
  scanner passes is a nul. Since the parser is a function, a line has at most one reading.
- `SInv`. A thread past the lock owns the mutex, and all blocks of a node end at or
  below its fill level. A node that is not full has no block that leaves it, so an
  oversize block is followed by a new node. Requests may have any size.
- `DInv`. For each token: once accepted, its bits stay in the filter until a second
  that maps to the same filter begins, which within the drift window can only be
  `timestamp + drift`. A clock that is set back starts this anew: `since` counts from
  there, and while no datagram has come since, it is 0.
- `FilterInv`. The bits of a filter are exactly those of the tokens added to it since
  its reset, and these have its timestamps.
- `StatsInv`. For each counter the difference between what was counted and what is
  reported, in hand or live is a multiple of the width; for `unique_keys` what was
  shown, what is in hand and what is live are in order.
- `AccountInv`. The datagrams received are those passed on and those dropped, added up
  over all tokens and reasons; `SecurePacket` moves exactly one of these by one. What
  was counted under a reason is what the sampler dropped for it. `StatsInv` carries
  this from the counter to the reports. `TokenAssumption`, that there are finitely
  many tokens, is what makes the sum a number: the fields of a token have a fixed width.
- `HttpInv`. The backend replaces messages, errors and keys first and `send_stats`
  reads them last, so what it has read of the others is never from a later tick.
- `LoopInv`. Only the main thread takes signals and expirations away, so what
  `poll` reported is still there when it is read.
- `BootInv`. It ties the signal mask, the backends loaded and the sockets to the step
  that `brubeck_server_init` has reached.
- `StopInv`. The loops that stop the threads have reached the first `at - 1` of them;
  with `BootInv`, the threads they go through are the ones that were started.
- `WorkerInv`. A buffer that does not wait to be parsed is spent: it is one line in which
  no `:` ends a key. `CutSpent` shows that for what the parser leaves of any text. It
  writes a nul over the end of each line and of each key, and a later read of the same
  buffer stops at the first nul or space, before it finds a `:`. A text without a
  newline is one line, so it costs one error. This is why old datagrams are not recorded twice although
  `statsd_run_recvmmsg` parses all its buffers after every read.
- `LInv`. It says which `FILE`s are open at every point of `gh_log_open`, and that
  a new one was opened on the file that had the log's name at the last `fopen`.

The theorems assume only the named `ASSUME`s of the modules, which TLC evaluates
on every run. For the texts of datagrams that is only that they are sequences over
`Char`, the alphabet of the model. `WidthAssumption` relates the widths of the types that
`ftoa` uses; 24, 36, 64 and 32 bits satisfy it, and so does the smaller format of the
run. `ValueAssumption` says that values are doubles of that format. `HistogramAssumption`
has `USHRT_MAX` below 2^16, the width of `size`.

### Only proved

Types, `EntriesPermanent`, `LossBreaksConnection`, `EmptyIffZero` and `StoppedInOrder`
hold by theorems
for every value of the constants and are not repeated in the runs.

### Only model-checked

- Liveness, that is `MessagesComplete`, `PendingDrained`, `ShutdownCompletes`,
  `EventsServed` and `RotationServed`: fairness is out of this prover's reach.

Every other property of a passing run is a theorem as well.

## What is not modelled

- The text of the configuration. `Server` takes it as a number of backends and
  samplers, or as a failure. More than eight of either, or no backend at all, are
  outside the model.
- Three short windows of the start-up: a tick between the two statements of
  `brubeck_internal__init` that create the internal metric and give it its counters,
  `GET /ping` before `sample_freq` is set, and a client that uses the server's name as
  a key before the internal metric exists. The modules begin after them.
- The responses of `GET /metric` and `GET /ping`: they read single values and format
  them. `GET /flow_stats` exists only in builds with `BRUBECK_METRICS_FLOW`.
- The hash function: a pure function without a specification beyond its code.
  `MetricStore` takes the shard of a key as a constant.
- The hash table of Concurrency Kit: external, modelled as an atomic put that fails
  when the key is present, an atomic get, and an iteration under the mutex.
- The process title and the socket options: output without state of the daemon.
- Memory exhaustion. The code ends the process when an allocation fails.
- The programs under `test-bin/`: they are not part of the daemon.
- What the metrics and a half-filled pickle buffer hold when the backends are
  cancelled is never sent. Nothing in the code or its documentation promises that it
  is, so there is no property to check.
- Plain text lines of more than 1024 bytes, which do not fit the buffer of
  `plaintext_each`: the key is copied without a test of its length.
- The rounding of doubles in values, rates and sums: numbers are exact, but for the
  texts of values and the indices of percentiles, where the conversions are modelled.
- `max_drift` of 0, which the assumptions exclude; counts of a histogram beyond 32
  bits; exponents in the values of messages.
