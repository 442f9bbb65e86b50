------------------------------- MODULE Server -------------------------------
(***************************************************************************)
(* The process: main opens the log, brubeck_server_init loads the server   *)
(* step by step while the threads it has started already run, then         *)
(* brubeck_server_run (module ServerLoop) serves signals and timers; on    *)
(* SIGHUP it reopens the log (module LogFile).                             *)
(***************************************************************************)
EXTENDS ServerLoop, LogFile

VARIABLES
  boot,       \* the step of brubeck_server_init under way
  multisock,  \* the configuration: one socket per worker?
  active_backends, active_samplers,   \* loaded so far, with their threads started
  unmasked,   \* threads that do not block the signals of load_signalfd
  online,     \* samplers whose workers have their socket
  end,        \* how the process ended early: "die", "killed" or not at all
  sharded,    \* history: the values of active_backends that workers have sharded by
  refused     \* history: did the last fopen of gh_log_reopen fail?

active == <<active_backends, active_samplers>>
startup == <<boot, multisock, active, unmasked, online, end, sharded>>
log == <<fileVars, refused>>
allVars == <<vars, startup, log>>

MainId == <<"main", 0>>
Started == ({"backend"} \X (1 .. active_backends)) \cup ({"sampler"} \X (1 .. active_samplers))

(* The order of brubeck_server_init and load_config.  Mutants: the samplers are loaded
   before the backends, the signals are blocked last. *)
SamplersFirst == <<"signalfd", "timerfd", "sampler", "backend", "http", "expire", "internal">>
MaskLast == <<"timerfd", "backend", "sampler", "http", "expire", "internal", "signalfd">>
BootOrder == <<"signalfd", "timerfd", "backend", "sampler", "http", "expire", "internal">>

Running == end = "no" /\ pc # "exit"
Ready == boot > Len(BootOrder)
Passed(step) == \E n \in DOMAIN BootOrder : n < boot /\ BootOrder[n] = step
Doing(step) == end = "no" /\ boot \in DOMAIN BootOrder /\ BootOrder[boot] = step

ServerInit ==
  /\ Init /\ FileInit /\ refused = FALSE
  /\ boot = 1 /\ multisock \in BOOLEAN
  /\ active_backends = 0 /\ active_samplers = 0 /\ unmasked = {MainId} /\ online = {}
  /\ end = "no" /\ sharded = {}
-----------------------------------------------------------------------------
LoadSignalfd ==
  /\ Doing("signalfd")
  /\ unmasked' = unmasked \ {MainId} /\ boot' = boot + 1
  /\ UNCHANGED <<vars, log, multisock, active, online, end, sharded>>

(* load_timerfd for either timer, the HTTP endpoint and the internal metric: nothing
   of this state but the step.  What they set up is in ServerLoop, HttpStats and
   InternalStats. *)
LoadStep(step) ==
  /\ Doing(step) /\ boot' = boot + 1
  /\ UNCHANGED <<vars, log, multisock, active, unmasked, online, end, sharded>>

(* A thread inherits the signal mask of its creator. *)
Unmasked(thread) == IF MainId \in unmasked THEN {thread} ELSE {}

LoadBackend ==
  /\ Doing("backend") /\ active_backends < Backends
  /\ active_backends' = active_backends + 1
  /\ unmasked' = unmasked \cup Unmasked(<<"backend", active_backends'>>)
  /\ UNCHANGED <<vars, log, boot, multisock, active_samplers, online, end, sharded>>

(* All workers of a sampler share one socket, bound before, unless it is multisock. *)
LoadSampler ==
  /\ Doing("sampler") /\ active_samplers < Samplers
  /\ active_samplers' = active_samplers + 1
  /\ unmasked' = unmasked \cup Unmasked(<<"sampler", active_samplers'>>)
  /\ online' = IF multisock THEN online ELSE online \cup {active_samplers'}
  /\ UNCHANGED <<vars, log, boot, multisock, active_backends, end, sharded>>

AllLoaded ==
  /\ \/ Doing("backend") /\ active_backends = Backends
     \/ Doing("sampler") /\ active_samplers = Samplers
  /\ boot' = boot + 1
  /\ UNCHANGED <<vars, log, multisock, active, unmasked, online, end, sharded>>

(* die() and a failed assertion end the process: a bad configuration, a port in use,
   a thread or a timer that cannot be had. *)
Die ==
  /\ end = "no" /\ ~Ready
  /\ end' = "die"
  /\ UNCHANGED <<vars, log, boot, multisock, active, unmasked, online, sharded>>

Boot ==
  \/ LoadSignalfd \/ Die
  \/ \E step \in {"timerfd", "http", "expire", "internal"} : LoadStep(step)
  \/ LoadBackend \/ LoadSampler \/ AllLoaded

(* brubeck_sampler_socket: a socket bound to the sampler's address, or the process dies. *)
SamplerSocket(s) ==
  \/ online' = online \cup {s} /\ UNCHANGED end
  \/ end' = "die" /\ UNCHANGED online

(* statsd__thread with multisock: a worker opens a socket of its own, whatever the main
   thread is doing. *)
WorkerSocket(s) ==
  /\ Running /\ multisock /\ <<"sampler", s>> \in Started \ cancelled /\ s \notin online
  /\ SamplerSocket(s)
  /\ UNCHANGED <<vars, log, boot, multisock, active, unmasked, sharded>>
-----------------------------------------------------------------------------
(* A signal that some thread does not block has its default action. *)
Signalled(s) ==
  /\ Running
  /\ \/ unmasked = {} /\ Raise(s) /\ UNCHANGED end
     \/ unmasked # {} /\ end' = "killed" /\ UNCHANGED vars
  /\ UNCHANGED <<log, boot, multisock, active, unmasked, online, sharded>>

TimerFires(t) ==
  /\ Running /\ Passed(IF t = "update" THEN "timerfd" ELSE "expire")
  /\ Expire(t) /\ UNCHANGED <<startup, log>>

(* A worker receives a datagram with a new key and picks a backend for it. *)
Received(s) ==
  /\ Running /\ s \in online /\ Receive(s)
  /\ sharded' = sharded \cup {active_backends}
  /\ UNCHANGED <<log, boot, multisock, active, unmasked, online, end>>

LogRotated ==
  /\ Running /\ Rotate /\ UNCHANGED <<vars, startup, refused>>

(* What a signal does besides ending the loop.  The dump is in MetricStore. *)
Reopen ==
  \/ gh_log_path /\ Fopen /\ refused' = (opened' = opened)
  \/ ~gh_log_path /\ UNCHANGED log

Loop ==
  /\ Ready /\ end = "no" /\ log_pc = "idle"
  /\ MainThread
  /\ IF pc = "signal" /\ SIGHUP \in pending \ pending' THEN Reopen ELSE UNCHANGED log
  /\ UNCHANGED startup

ReopenEnds ==
  /\ Running /\ (Fclose \/ Assign)
  /\ UNCHANGED <<vars, startup, refused>>

Main == Boot \/ Loop \/ ReopenEnds

ServerNext ==
  \/ Main
  \/ \E s \in Signal : Signalled(s)
  \/ \E t \in {"update", "expire"} : TimerFires(t)
  \/ \E s \in Sampler : WorkerSocket(s) \/ Received(s)
  \/ LogRotated

(* The main thread is scheduled like any thread; nothing else is assumed. *)
ServerSpec == ServerInit /\ [][ServerNext]_allVars /\ WF_allVars(Main)
-----------------------------------------------------------------------------
(* A signal has its default action, which ends the process at once, only before the
   first thread is started: from then on every thread blocks it, and it waits for the
   main loop, also while the server is still loading. *)
KilledOnlyUnloaded == end = "killed" => Started = {}

(* Whenever a worker picks the backend of a new key, all backends are loaded: the shard
   of a key (hash % active_backends) never depends on when its first message came. *)
ShardsFixed == sharded \subseteq {Backends}

(* SIGINT and SIGTERM, sent while the server is loading or at any moment after, end the
   process with every thread that was started told to stop, whatever else is pending;
   unless die() ends it first. *)
ShutdownCompletes ==
  \A s \in Signal \cap {SIGINT, SIGTERM} :
    s \in pending ~> (pc = "exit" /\ cancelled = Started) \/ end = "die"

(* Every other signal and every expiration of a timer is served, also one that came
   while the server was loading, unless the server is told to stop or dies. *)
EventsServed ==
  /\ \A s \in Signal \cap {SIGHUP, SIGUSR2} : s \in pending ~> s \in served \/ ~running \/ end = "die"
  /\ \A t \in {"update", "expire"} : t \in expired ~> t \notin expired \/ ~running \/ end = "die"

(* logrotate renames the log and sends SIGHUP: in the end the log is the renamed file's
   successor, or a later one, unless fopen failed or the server stopped. *)
RotationServed ==
  \A r \in 1 .. MaxRotations :
    (SIGHUP \in pending /\ gh_log_path /\ current = r)
      ~> (gh_log_path /\ opened[gh_log_file] >= r) \/ refused \/ ~running \/ end = "die"
=============================================================================
