----------------------------- MODULE ServerLoop -----------------------------
(***************************************************************************)
(* The main thread of the server (server.c): brubeck_server_run polls the  *)
(* signal and timer descriptors, publishes the flow of every sampler while *)
(* their workers keep counting, and on SIGINT or SIGTERM stops the other   *)
(* threads.  The sweep itself is in module MetricStore.                    *)
(***************************************************************************)
EXTENDS Naturals, FiniteSetsExt

CONSTANTS
  Samplers, Backends,   \* server->active_samplers, active_backends
  Garbage,              \* what the memory that xmalloc returns may hold
  Signal,               \* the signals that are sent, some of the four below
  MaxSends,             \* bound: how often each signal is sent
  MaxTicks,             \* bound: expirations of each timer
  MaxReceived           \* bound: datagrams of each sampler

SIGHUP == 1
SIGINT == 2
SIGUSR2 == 12
SIGTERM == 15
Sampler == 1 .. Samplers
Backend == 1 .. Backends

ASSUME ServerAssumption ==
  /\ Samplers \in Nat /\ Backends \in Nat /\ Garbage \subseteq Nat
  /\ Signal \subseteq {SIGHUP, SIGINT, SIGUSR2, SIGTERM}

VARIABLES
  pending,    \* signals blocked and waiting in the signalfd
  expired,    \* timerfds that have expired since they were last read
  fd_expire,  \* is there an expire timer?
  running,
  fds,        \* revents of the last poll
  pc, at,     \* the main thread; at is its loop index
  inflow, current_flow,   \* of each sampler
  cancelled,  \* threads that pthread_cancel was called for
  garbage,    \* history: what inflow and current_flow held when the sampler was allocated
  sends, ticks, received, \* history: signals, expirations, datagrams
  served,     \* history: signals served since they were last sent
  published,  \* history: the sum of the values current_flow had
  lost        \* history: datagrams counted between the two statements of update_flows

loop == <<running, fds, pc, at>>
flow == <<inflow, current_flow, garbage, received, published, lost>>
env  == <<pending, expired, sends, ticks>>
vars == <<loop, flow, env, fd_expire, cancelled, served>>

(* The descriptors poll finds readable.  Mutant: nfd is not raised for fd_expire. *)
DueOfTwo == (IF pending = {} THEN {} ELSE {"signal"}) \cup (expired \cap {"update"})
Due == (IF pending = {} THEN {} ELSE {"signal"}) \cup expired

Init ==
  /\ pending = {} /\ expired = {} /\ fd_expire \in BOOLEAN
  /\ running = TRUE /\ fds = {} /\ pc = "poll" /\ at = 1
  /\ garbage \in [Sampler -> Garbage] /\ inflow = garbage /\ current_flow = garbage
  /\ received = [s \in Sampler |-> 0] /\ published = received /\ lost = received
  /\ cancelled = {} /\ served = {}
  /\ sends = [s \in Signal |-> 0] /\ ticks = [t \in {"update", "expire"} |-> 0]
-----------------------------------------------------------------------------
(* The environment.  A signal that is pending already is not queued again, and
   a timerfd counts expirations, which one read collects. *)
Raise(s) ==
  /\ pc # "exit" /\ sends[s] < MaxSends
  /\ pending' = pending \cup {s}
  /\ sends' = [sends EXCEPT ![s] = @ + 1]
  /\ served' = served \ {s}
  /\ UNCHANGED <<loop, flow, expired, ticks, fd_expire, cancelled>>

Expire(t) ==
  /\ pc # "exit" /\ ticks[t] < MaxTicks
  /\ t = "expire" => fd_expire
  /\ expired' = expired \cup {t}
  /\ ticks' = [ticks EXCEPT ![t] = @ + 1]
  /\ UNCHANGED <<loop, flow, pending, sends, fd_expire, cancelled, served>>

(* A worker counts a datagram; it ends at its next read once it is cancelled. *)
Receive(s) ==
  /\ <<"sampler", s>> \notin cancelled /\ pc # "exit" /\ received[s] < MaxReceived
  /\ inflow' = [inflow EXCEPT ![s] = @ + 1]
  /\ received' = [received EXCEPT ![s] = @ + 1]
  /\ UNCHANGED <<loop, env, current_flow, garbage, published, lost, fd_expire, cancelled, served>>
-----------------------------------------------------------------------------
(* poll overwrites the revents.  Mutant: what was reported before stays. *)
AddedTo(due) == fds \cup due
Reported(due) == due

Poll ==
  /\ pc = "poll" /\ Due # {}
  /\ fds' = Reported(Due) /\ pc' = "signal"
  /\ UNCHANGED <<running, at, flow, env, fd_expire, cancelled, served>>

(* The kernel hands out the pending signal with the lowest number. *)
SignalTriggered ==
  /\ pc = "signal" /\ "signal" \in fds /\ pending # {}
  /\ LET s == Min(pending) IN
     /\ pending' = pending \ {s}
     /\ running' = (running /\ s \notin {SIGINT, SIGTERM})
     /\ served' = served \cup {s}
  /\ pc' = "update"
  /\ UNCHANGED <<fds, at, flow, expired, sends, ticks, fd_expire, cancelled>>

NoSignal ==
  /\ pc = "signal" /\ "signal" \notin fds
  /\ pc' = "update"
  /\ UNCHANGED <<running, fds, at, flow, env, fd_expire, cancelled, served>>

TimerElapsed(t, go, skip) ==
  /\ pc = t
  /\ \/ /\ t \in fds /\ t \in expired
        /\ expired' = expired \ {t} /\ pc' = go
     \/ /\ t \notin fds
        /\ pc' = skip /\ UNCHANGED expired
  /\ at' = 1
  /\ UNCHANGED <<running, fds, flow, pending, sends, ticks, fd_expire, cancelled, served>>

UpdateTimer == TimerElapsed("update", "load", "expire")

(* update_flows: two statements per sampler, no atomic operation. *)
FlowLoad ==
  /\ pc = "load" /\ at <= Samplers
  /\ current_flow' = [current_flow EXCEPT ![at] = inflow[at]]
  /\ published' = [published EXCEPT ![at] = @ + inflow[at]]
  /\ pc' = "store"
  /\ UNCHANGED <<running, fds, at, inflow, garbage, received, lost, env, fd_expire, cancelled, served>>

(* What is stored to inflow.  Mutant: nothing is. *)
NotReset(s) == inflow[s]
FlowReset(s) == 0

FlowStore ==
  /\ pc = "store"
  /\ inflow' = [inflow EXCEPT ![at] = FlowReset(at)]
  /\ lost' = [lost EXCEPT ![at] = @ + inflow[at] - current_flow[at]]
  /\ at' = at + 1 /\ pc' = "load"
  /\ UNCHANGED <<running, fds, current_flow, garbage, received, published, env, fd_expire, cancelled, served>>

(* update_proctitle only reads. *)
UpdateProctitle ==
  /\ pc = "load" /\ at > Samplers
  /\ pc' = "expire"
  /\ UNCHANGED <<running, fds, at, flow, env, fd_expire, cancelled, served>>

AfterLoop == IF running THEN "poll" ELSE "cancel"
ExpireTimer == TimerElapsed("expire", AfterLoop, AfterLoop)

(* The threads that the main thread stops on the way out.  Mutant: backends only. *)
BackendsOnly == [n \in 1 .. Backends |-> <<"backend", n>>]
Threads == [n \in 1 .. Backends + Samplers |->
              IF n <= Backends THEN <<"backend", n>> ELSE <<"sampler", n - Backends>>]

Cancel ==
  /\ pc = "cancel"
  /\ \/ /\ at \in DOMAIN Threads
        /\ cancelled' = cancelled \cup {Threads[at]}
        /\ at' = at + 1 /\ UNCHANGED pc
     \/ /\ at \notin DOMAIN Threads
        /\ pc' = "exit" /\ UNCHANGED <<at, cancelled>>
  /\ UNCHANGED <<running, fds, flow, env, fd_expire, served>>

MainThread ==
  \/ Poll \/ SignalTriggered \/ NoSignal \/ UpdateTimer \/ FlowLoad \/ FlowStore
  \/ UpdateProctitle \/ ExpireTimer \/ Cancel

Next ==
  \/ \E s \in Signal : Raise(s)
  \/ \E t \in {"update", "expire"} : Expire(t)
  \/ \E s \in Sampler : Receive(s)
  \/ MainThread
-----------------------------------------------------------------------------
(* A descriptor that poll reported, and that this iteration has not read yet, is
   still readable: the reads of signal_triggered and timer_elapsed, on blocking
   descriptors, never hold up the loop. *)
ReadsNeverBlock ==
  /\ pc = "signal" /\ "signal" \in fds => pending # {}
  /\ pc \in {"signal", "update"} /\ "update" \in fds => "update" \in expired
  /\ pc \notin {"poll", "cancel", "exit"} /\ "expire" \in fds => "expire" \in expired

(* No datagram is published twice, and none is missing from the flows but those
   counted between the two statements of update_flows.  What inflow held before the
   first datagram, since brubeck_statsd_new leaves it uninitialized, is published
   once and never again. *)
FlowAccounted ==
  \A s \in Sampler :
    published[s] + inflow[s] + lost[s]
      = garbage[s] + received[s] + (IF pc = "store" /\ at = s THEN current_flow[s] ELSE 0)
=============================================================================
