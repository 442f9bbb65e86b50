-------------------------- MODULE ServerProofs --------------------------
(***************************************************************************)
(* The main loop, the start-up and the log file, for any number of         *)
(* samplers and backends, rotations of the log and failures of fopen.      *)
(***************************************************************************)
EXTENDS Server, TLAPS, FiniteSetTheorems

(* The counters are functions on the samplers and the loop index is one of them
   while update_flows runs: what the accounting needs to be preserved. *)
Counters ==
  /\ inflow \in [Sampler -> Int] /\ current_flow \in [Sampler -> Int]
  /\ garbage \in [Sampler -> Int] /\ received \in [Sampler -> Int] /\ published \in [Sampler -> Int]
  /\ lost \in [Sampler -> Int]
  /\ at \in Nat \ {0} /\ (pc = "store" => at \in Sampler)

TimersOnly == expired \subseteq {"update", "expire"}

LoopInv == TimersOnly /\ ReadsNeverBlock /\ Counters /\ FlowAccounted

LEMMA InitLoop == Init => LoopInv
<1> SUFFICES ASSUME Init PROVE LoopInv
  OBVIOUS
<1>1. garbage \in [Sampler -> Int] /\ inflow = garbage /\ current_flow = garbage
  <2>1. garbage \in [Sampler -> Garbage] /\ inflow = garbage /\ current_flow = garbage
    BY DEF Init
  <2>2. \A x \in Garbage : x \in Int
    BY ServerAssumption
  <2> QED
    BY <2>1, <2>2
<1>2. Counters /\ FlowAccounted
  BY <1>1 DEF Init, Counters, FlowAccounted
<1> QED
  BY <1>2 DEF Init, LoopInv, TimersOnly, ReadsNeverBlock

LEMMA ReadsStep ==
  ASSUME TimersOnly, ReadsNeverBlock, [Next]_vars
  PROVE  TimersOnly' /\ ReadsNeverBlock'
<1> USE DEF TimersOnly, ReadsNeverBlock
<1>1. ASSUME NEW s \in Signal, Raise(s) PROVE TimersOnly' /\ ReadsNeverBlock'
  BY <1>1 DEF Raise, loop
<1>2. ASSUME NEW t \in {"update", "expire"}, Expire(t) PROVE TimersOnly' /\ ReadsNeverBlock'
  BY <1>2 DEF Expire, loop
<1>3. ASSUME NEW s \in Sampler, Receive(s) PROVE TimersOnly' /\ ReadsNeverBlock'
  BY <1>3 DEF Receive, loop, env
<1>4. CASE Poll
  BY <1>4 DEF Poll, Reported, Due, env
<1>5. CASE SignalTriggered \/ NoSignal
  BY <1>5 DEF SignalTriggered, NoSignal, env
<1>6. CASE UpdateTimer
  BY <1>6 DEF UpdateTimer, TimerElapsed
<1>7. CASE FlowLoad \/ FlowStore \/ UpdateProctitle
  BY <1>7 DEF FlowLoad, FlowStore, UpdateProctitle, env
<1>8. CASE ExpireTimer
  BY <1>8 DEF ExpireTimer, TimerElapsed, AfterLoop
<1>9. CASE Cancel
  BY <1>9 DEF Cancel, env
<1>10. CASE UNCHANGED vars
  BY <1>10 DEF vars, loop, env
<1> QED
  BY <1>1, <1>2, <1>3, <1>4, <1>5, <1>6, <1>7, <1>8, <1>9, <1>10 DEF Next, MainThread

(* A step that leaves the flows alone, and is not about to store. *)
LEMMA FlowsUnchanged ==
  ASSUME Counters, FlowAccounted, UNCHANGED flow, at' \in Nat \ {0},
         (pc # "store" /\ pc' # "store") \/ UNCHANGED <<pc, at>>
  PROVE  Counters' /\ FlowAccounted'
BY DEF Counters, FlowAccounted, flow

LEMMA FlowStep ==
  ASSUME Counters, FlowAccounted, [Next]_vars
  PROVE  Counters' /\ FlowAccounted'
<1>1. ASSUME NEW s \in Signal, Raise(s) PROVE Counters' /\ FlowAccounted'
  BY <1>1, FlowsUnchanged DEF Raise, loop, Counters
<1>2. ASSUME NEW t \in {"update", "expire"}, Expire(t) PROVE Counters' /\ FlowAccounted'
  BY <1>2, FlowsUnchanged DEF Expire, loop, Counters
<1>3. ASSUME NEW s \in Sampler, Receive(s) PROVE Counters' /\ FlowAccounted'
  BY <1>3 DEF Receive, loop, Counters, FlowAccounted
<1>4. CASE Poll \/ SignalTriggered \/ NoSignal \/ UpdateProctitle
  BY <1>4, FlowsUnchanged DEF Poll, SignalTriggered, NoSignal, UpdateProctitle, Counters
<1>5. CASE UpdateTimer
  BY <1>5, FlowsUnchanged DEF UpdateTimer, TimerElapsed
<1>6. CASE FlowLoad
  <2>1. at \in Sampler
    BY <1>6, ServerAssumption DEF FlowLoad, Counters, Sampler
  <2>2. Counters'
    BY <1>6, <2>1 DEF FlowLoad, Counters
  <2>3. ASSUME NEW s \in Sampler PROVE FlowAccounted!(s)'
    <3>1. FlowAccounted!(s)
      BY <2>3 DEF FlowAccounted
    <3>2. CASE s = at
      BY <1>6, <2>1, <3>1, <3>2 DEF FlowLoad, Counters
    <3>3. CASE s # at
      BY <1>6, <2>1, <2>3, <3>1, <3>3 DEF FlowLoad, Counters
    <3> QED
      BY <3>2, <3>3
  <2> QED
    BY <2>2, <2>3 DEF FlowAccounted
<1>7. CASE FlowStore
  <2>1. at \in Sampler
    BY <1>7 DEF FlowStore, Counters
  <2>2. Counters'
    BY <1>7, <2>1 DEF FlowStore, FlowReset, Counters
  <2>3. ASSUME NEW s \in Sampler PROVE FlowAccounted!(s)'
    <3>1. FlowAccounted!(s)
      BY <2>3 DEF FlowAccounted
    <3>2. CASE s = at
      BY <1>7, <2>1, <3>1, <3>2 DEF FlowStore, FlowReset, Counters
    <3>3. CASE s # at
      BY <1>7, <2>1, <2>3, <3>1, <3>3 DEF FlowStore, FlowReset, Counters
    <3> QED
      BY <3>2, <3>3
  <2> QED
    BY <2>2, <2>3 DEF FlowAccounted
<1>8. CASE ExpireTimer
  BY <1>8, FlowsUnchanged DEF ExpireTimer, TimerElapsed, AfterLoop
<1>9. CASE Cancel
  BY <1>9, FlowsUnchanged DEF Cancel, Counters
<1>10. CASE UNCHANGED vars
  BY <1>10, FlowsUnchanged DEF vars, loop, Counters
<1> QED
  BY <1>1, <1>2, <1>3, <1>4, <1>5, <1>6, <1>7, <1>8, <1>9, <1>10 DEF Next, MainThread

(* The start-up adds no step to the loop: whatever else happens, the variables of
   ServerLoop change as Next says or not at all. *)
LEMMA LoopSteps == [ServerNext]_allVars => [Next]_vars
<1> SUFFICES ASSUME [ServerNext]_allVars PROVE [Next]_vars
  OBVIOUS
<1>1. CASE Boot \/ ReopenEnds \/ LogRotated \/ (\E s \in Sampler : WorkerSocket(s))
  BY <1>1 DEF Boot, LoadSignalfd, LoadStep, LoadBackend, LoadSampler, AllLoaded, Die,
              ReopenEnds, LogRotated, WorkerSocket, SamplerSocket
<1>2. CASE Loop
  BY <1>2 DEF Loop, Next
<1>3. ASSUME NEW s \in Signal, Signalled(s) PROVE [Next]_vars
  BY <1>3 DEF Signalled, Next
<1>4. ASSUME NEW t \in {"update", "expire"}, TimerFires(t) PROVE [Next]_vars
  BY <1>4 DEF TimerFires, Next
<1>5. ASSUME NEW s \in Sampler, Received(s) PROVE [Next]_vars
  BY <1>5 DEF Received, Next
<1>6. CASE UNCHANGED allVars
  BY <1>6 DEF allVars
<1> QED
  BY <1>1, <1>2, <1>3, <1>4, <1>5, <1>6 DEF ServerNext, Main

(* The two invariants of the main loop. *)
LEMMA LoopSafe == ServerSpec => []ReadsNeverBlock /\ []FlowAccounted
<1>1. LoopInv /\ [ServerNext]_allVars => LoopInv'
  BY ReadsStep, FlowStep, LoopSteps DEF LoopInv
<1>2. LoopInv => ReadsNeverBlock /\ FlowAccounted
  BY DEF LoopInv
<1> QED
  BY InitLoop, <1>1, <1>2, PTL DEF ServerSpec, ServerInit

(* For any number of samplers and any order of events, the main thread never blocks in a
   read of its signal or timer descriptors. *)
THEOREM ReadsReady == ServerSpec => []ReadsNeverBlock
BY LoopSafe, PTL

(* update_flows publishes no datagram twice and loses only the ones that a worker counts
   between its two statements. *)
THEOREM FlowsPublished == ServerSpec => []FlowAccounted
BY LoopSafe, PTL

(* What each step of brubeck_server_init may rely on: the signals are blocked from the
   second step on, and no sampler runs before the last backend is loaded. *)
BootInv ==
  /\ boot \in 1 .. 8 /\ active_backends \in Nat /\ active_samplers \in Nat
  /\ unmasked = IF boot = 1 THEN {MainId} ELSE {}
  /\ boot < 3 => active_backends = 0
  /\ boot < 4 => active_samplers = 0 /\ online = {}
  /\ boot > 3 => active_backends = Backends
  /\ KilledOnlyUnloaded /\ ShardsFixed

LEMMA BootInit == ServerInit => BootInv
BY DEF ServerInit, BootInv, KilledOnlyUnloaded, ShardsFixed, Started

(* Which step of brubeck_server_init has which number. *)
LEMMA BootSteps ==
  /\ Doing("signalfd") => boot = 1
  /\ Doing("timerfd") => boot = 2
  /\ Doing("backend") => boot = 3
  /\ Doing("sampler") => boot = 4
  /\ \A step \in {"http", "expire", "internal"} : Doing(step) => boot \in 5 .. 7
BY DEF Doing, BootOrder

LEMMA BootStep == BootInv /\ [ServerNext]_allVars => BootInv'
<1> SUFFICES ASSUME BootInv, [ServerNext]_allVars PROVE BootInv'
  OBVIOUS
<1>a. Doing("signalfd") \/ Doing("timerfd") \/ Doing("backend") \/ Doing("sampler") => end = "no"
  BY DEF Doing
<1>1. CASE LoadSignalfd
  BY <1>1, <1>a, BootSteps DEF LoadSignalfd, BootInv, KilledOnlyUnloaded, ShardsFixed, active
<1>2. ASSUME NEW step \in {"timerfd", "http", "expire", "internal"}, LoadStep(step) PROVE BootInv'
  <2>1. end = "no" /\ (boot = 2 \/ boot \in 5 .. 7)
    BY <1>2, BootSteps DEF LoadStep, Doing
  <2> QED
    BY <1>2, <2>1 DEF LoadStep, BootInv, KilledOnlyUnloaded, ShardsFixed, active
<1>3. CASE LoadBackend
  BY <1>3, <1>a, BootSteps DEF LoadBackend, BootInv, KilledOnlyUnloaded, ShardsFixed, Unmasked
<1>4. CASE LoadSampler
  BY <1>4, <1>a, BootSteps DEF LoadSampler, BootInv, KilledOnlyUnloaded, ShardsFixed, Unmasked
<1>5. CASE AllLoaded
  BY <1>5, <1>a, BootSteps DEF AllLoaded, BootInv, KilledOnlyUnloaded, ShardsFixed, active
<1>6. CASE Die
  BY <1>6 DEF Die, BootInv, KilledOnlyUnloaded, ShardsFixed, active
<1>7. ASSUME NEW s \in Sampler, WorkerSocket(s) PROVE BootInv'
  <2>1. s <= active_samplers /\ s \in Nat /\ s > 0
    BY <1>7, ServerAssumption DEF WorkerSocket, SamplerSocket, Started, Sampler
  <2>2. boot > 3
    BY <2>1 DEF BootInv
  <2> QED
    BY <1>7, <2>2 DEF WorkerSocket, SamplerSocket, BootInv, KilledOnlyUnloaded, ShardsFixed, active, Running
<1>8. ASSUME NEW s \in Signal, Signalled(s) PROVE BootInv'
  <2>1. unmasked # {} => boot = 1 /\ active_backends = 0 /\ active_samplers = 0
    BY DEF BootInv
  <2>2. unmasked # {} => Started = {}
    BY <2>1 DEF Started
  <2> QED
    BY <1>8, <2>2 DEF Signalled, BootInv, KilledOnlyUnloaded, ShardsFixed, active, Started, Running
<1>9. ASSUME NEW s \in Sampler, Received(s) PROVE BootInv'
  <2>1. active_backends = Backends
    BY <1>9 DEF Received, BootInv
  <2> QED
    BY <1>9, <2>1 DEF Received, BootInv, KilledOnlyUnloaded, ShardsFixed, active, Started
<1>10. ASSUME UNCHANGED startup PROVE BootInv'
  BY <1>10 DEF startup, active, BootInv, KilledOnlyUnloaded, ShardsFixed, Started
<1> QED
  BY <1>1, <1>2, <1>3, <1>4, <1>5, <1>6, <1>7, <1>8, <1>9, <1>10
  DEF ServerNext, Main, Boot, Loop, ReopenEnds, LogRotated, TimerFires, allVars

(* The two invariants of the start-up. *)
LEMMA StartupSafe == ServerSpec => []KilledOnlyUnloaded /\ []ShardsFixed
<1>1. BootInv => KilledOnlyUnloaded /\ ShardsFixed
  BY DEF BootInv
<1> QED
  BY BootInit, BootStep, <1>1, PTL DEF ServerSpec

(* For any number of backends and samplers and any moment a signal arrives, it cannot
   kill the process once a thread runs. *)
THEOREM SignalsBlockedFirst == ServerSpec => []KilledOnlyUnloaded
BY StartupSafe, PTL

(* No worker picks a backend for a key before the number of backends is final. *)
THEOREM ShardingStable == ServerSpec => []ShardsFixed
BY StartupSafe, PTL
-----------------------------------------------------------------------------
(* Where the FILEs are at every point of gh_log_open: a reopened log is newer
   than the one it replaces, and was opened on the file last found. *)
LInv ==
  /\ opened \in Seq(Nat) /\ named \in Nat /\ current \in Nat
  /\ gh_log_path \in BOOLEAN /\ log_pc \in {"idle", "fclose", "assign"}
  /\ gh_log_file \in 0 .. Len(opened) /\ (gh_log_path => gh_log_file > 0)
  /\ log_pc = "idle" => /\ open = {0, gh_log_file}
                        /\ gh_log_path => opened[gh_log_file] = named
  /\ log_pc # "idle" => /\ new_log = Len(opened) /\ 0 < gh_log_file /\ gh_log_file < new_log
                        /\ opened[new_log] = named /\ gh_log_path
  /\ log_pc = "fclose" => open = {0, gh_log_file, new_log}
  /\ log_pc = "assign" => open = {0, new_log}

LEMMA LInvInit == FileInit => LInv
<1> SUFFICES ASSUME FileInit PROVE LInv
  OBVIOUS
<1>1. CASE gh_log_file = 0 /\ gh_log_path = FALSE /\ opened = <<>> /\ open = {0}
  <2>1. opened \in Seq(Nat) /\ Len(opened) = 0
    BY <1>1
  <2>2. /\ current = 0 /\ named = 0 /\ log_pc = "idle" /\ open = {0, gh_log_file}
        /\ gh_log_file \in 0 .. Len(opened)
    BY <1>1, <2>1 DEF FileInit
  <2> QED
    BY <1>1, <2>1, <2>2 DEF LInv
<1>2. CASE gh_log_file = 1 /\ gh_log_path = TRUE /\ opened = <<0>> /\ open = {0, 1}
  BY <1>2 DEF FileInit, LInv
<1> QED
  BY <1>1, <1>2 DEF FileInit

LEMMA FopenStep == ASSUME LInv, Fopen PROVE LInv'
<1>1. CASE UNCHANGED <<opened, named, new_log, open, log_pc>>
  BY <1>1 DEF LInv, Fopen
<1>2. CASE /\ opened' = Append(opened, FileNamed) /\ named' = current
           /\ new_log' = Len(opened')
           /\ open' = open \cup {new_log'} /\ log_pc' = "fclose"
  <2>1. /\ opened \in Seq(Nat) /\ current \in Nat /\ gh_log_path = TRUE
        /\ gh_log_file \in 0 .. Len(opened) /\ gh_log_file > 0 /\ open = {0, gh_log_file}
        /\ UNCHANGED <<gh_log_file, gh_log_path, current>>
    BY DEF LInv, Fopen
  <2>2. /\ opened' \in Seq(Nat) /\ Len(opened') = Len(opened) + 1
        /\ opened'[Len(opened')] = current
    BY <1>2, <2>1 DEF FileNamed
  <2>3. gh_log_file' \in 0 .. Len(opened') /\ gh_log_file' < new_log' /\ 0 < gh_log_file'
    BY <1>2, <2>1, <2>2
  <2>4. open' = {0, gh_log_file', new_log'}
    BY <1>2, <2>1
  <2> QED
    BY <1>2, <2>1, <2>2, <2>3, <2>4 DEF LInv
<1> QED
  BY <1>1, <1>2 DEF Fopen

LEMMA FcloseStep == ASSUME LInv, Fclose PROVE LInv'
<1>1. /\ open' = {0, gh_log_file, new_log} \ ({gh_log_file} \ {0}) /\ log_pc' = "assign"
      /\ new_log \in Nat /\ gh_log_file \in Nat /\ 0 < gh_log_file /\ gh_log_file < new_log
      /\ UNCHANGED <<gh_log_file, gh_log_path, opened, named, current, new_log>>
  BY DEF LInv, Fclose, CloseOld
<1>2. open' = {0, new_log}
  BY <1>1
<1> QED
  BY <1>1, <1>2 DEF LInv, Fclose

LEMMA AssignStep == ASSUME LInv, Assign PROVE LInv'
BY DEF LInv, Assign

LEMMA LInvStep == LInv /\ [ServerNext]_allVars => LInv'
<1> SUFFICES ASSUME LInv, [ServerNext]_allVars PROVE LInv'
  OBVIOUS
<1>1. ASSUME UNCHANGED fileVars PROVE LInv'
  BY <1>1 DEF LInv, fileVars
<1>2. CASE Boot \/ (\E s \in Sampler : WorkerSocket(s) \/ Received(s))
           \/ (\E s \in Signal : Signalled(s)) \/ (\E t \in {"update", "expire"} : TimerFires(t))
  BY <1>1, <1>2 DEF Boot, LoadSignalfd, LoadStep, LoadBackend, LoadSampler, AllLoaded, Die,
              WorkerSocket, Received, Signalled, TimerFires, log
<1>3. CASE Loop
  BY <1>1, <1>3, FopenStep DEF Loop, Reopen, log
<1>4. CASE ReopenEnds
  BY <1>4, FcloseStep, AssignStep DEF ReopenEnds
<1>5. CASE LogRotated
  BY <1>5 DEF LogRotated, LInv, Rotate
<1>6. CASE UNCHANGED allVars
  BY <1>1, <1>6 DEF allVars, log
<1> QED
  BY <1>2, <1>3, <1>4, <1>5, <1>6 DEF ServerNext, Main

LEMMA TwoFiles == LInv => Cardinality(open \ {0}) <= 2
<1> SUFFICES ASSUME LInv PROVE Cardinality(open \ {0}) <= 2
  OBVIOUS
<1>1. open \ {0} \subseteq {gh_log_file, new_log}
  BY DEF LInv
<1>2. IsFiniteSet({gh_log_file}) /\ Cardinality({gh_log_file}) = 1
  BY FS_Singleton
<1> DEFINE one == {gh_log_file}
<1>3. /\ IsFiniteSet(one \cup {new_log})
      /\ Cardinality(one \cup {new_log}) \in {1, 2}
  BY <1>2, FS_AddElement
<1>4. one \cup {new_log} = {gh_log_file, new_log}
  OBVIOUS
<1>5. Cardinality(open \ {0}) <= Cardinality({gh_log_file, new_log}) /\ Cardinality(open \ {0}) \in Nat
  BY <1>1, <1>3, <1>4, FS_Subset, FS_CardinalityType
<1> QED
  BY <1>3, <1>4, <1>5

(* The two invariants of the log file. *)
LEMMA LogSafe == ServerSpec => []OneLogOpen /\ []RotationFollowed
<1>1. LInv => OneLogOpen
  BY TwoFiles DEF LInv, OneLogOpen
<1>2. LInv => RotationFollowed
  BY DEF LInv, RotationFollowed
<1> QED
  BY <1>1, <1>2, LInvInit, LInvStep, PTL DEF ServerSpec, ServerInit

(* gh_log_open: however often the log is rotated and reopened and whichever fopen fails,
   no FILE is leaked. *)
THEOREM NoLogLeaked == ServerSpec => []OneLogOpen
BY LogSafe, PTL

(* A line written after SIGHUP was handled goes to the file that fopen last found. *)
THEOREM ReopenFollows == ServerSpec => []RotationFollowed
BY LogSafe, PTL
-----------------------------------------------------------------------------
(* Exactly the threads that were started are told to stop on the way out, in the order of
   the loops after the main loop, and none while the main loop goes on. *)
StoppedInOrder ==
  /\ cancelled # {} => ~running
  /\ pc = "exit" => cancelled = Started

(* The first n threads of the loops over backends and samplers. *)
FirstThreads(n) == {Threads[k] : k \in 1 .. n}

StopInv ==
  /\ boot > 4 => active_samplers = Samplers
  /\ pc # "poll" => boot = 8
  /\ pc \notin {"cancel", "exit"} => cancelled = {}
  /\ pc \in {"cancel", "exit"} => ~running
  /\ pc = "cancel" => at \in 1 .. (Backends + Samplers + 1) /\ cancelled = FirstThreads(at - 1)
  /\ pc = "exit" => cancelled = FirstThreads(Backends + Samplers)

(* Once everything is loaded, the threads started are the ones of those loops. *)
LEMMA ThreadsStarted ==
  ASSUME active_backends = Backends, active_samplers = Samplers
  PROVE  Started = FirstThreads(Backends + Samplers)
<1>1. Backends \in Nat /\ Samplers \in Nat
  BY ServerAssumption
<1>2. ASSUME NEW x \in Started PROVE x \in FirstThreads(Backends + Samplers)
  <2>1. CASE x \in {"backend"} \X (1 .. Backends)
    <3>1. PICK n \in 1 .. Backends : x = <<"backend", n>>
      BY <2>1
    <3>2. n \in 1 .. Backends + Samplers /\ n <= Backends
      BY <1>1
    <3>3. Threads[n] = x
      BY <3>1, <3>2 DEF Threads
    <3> QED
      BY <3>2, <3>3 DEF FirstThreads
  <2>2. CASE x \in {"sampler"} \X (1 .. Samplers)
    <3>1. PICK n \in 1 .. Samplers : x = <<"sampler", n>>
      BY <2>2
    <3> DEFINE k == Backends + n
    <3>2. k \in 1 .. Backends + Samplers /\ ~(k <= Backends) /\ k - Backends = n
      BY <1>1
    <3> HIDE DEF k
    <3>3. Threads[k] = x
      BY <3>1, <3>2 DEF Threads
    <3> QED
      BY <3>2, <3>3 DEF FirstThreads
  <2> QED
    BY <2>1, <2>2 DEF Started
<1>3. ASSUME NEW k \in 1 .. Backends + Samplers PROVE Threads[k] \in Started
  <2>1. CASE k <= Backends
    <3>1. k \in 1 .. Backends /\ Threads[k] = <<"backend", k>>
      BY <1>1, <2>1 DEF Threads
    <3> QED
      BY <3>1 DEF Started
  <2>2. CASE ~(k <= Backends)
    <3>1. k - Backends \in 1 .. Samplers /\ Threads[k] = <<"sampler", k - Backends>>
      BY <1>1, <2>2 DEF Threads
    <3> QED
      BY <3>1 DEF Started
  <2> QED
    BY <2>1, <2>2
<1> QED
  BY <1>2, <1>3 DEF FirstThreads

(* One more thread is told to stop. *)
LEMMA NextThread ==
  ASSUME NEW n \in Nat, n > 0
  PROVE  FirstThreads(n) = FirstThreads(n - 1) \cup {Threads[n]} /\ FirstThreads(0) = {}
<1>1. 1 .. n = (1 .. (n - 1)) \cup {n} /\ 1 .. 0 = {}
  OBVIOUS
<1> QED
  BY <1>1, Zenon DEF FirstThreads

(* The loops after the main loop. *)
LEMMA CancelStep == ASSUME StopInv, BootInv, Cancel, UNCHANGED startup PROVE StopInv'
<1>1. /\ pc = "cancel" /\ boot = 8 /\ running' = running /\ ~running
      /\ at \in 1 .. (Backends + Samplers + 1) /\ cancelled = FirstThreads(at - 1)
      /\ UNCHANGED <<boot, active_samplers>>
  BY DEF StopInv, Cancel, startup, active
<1>2. Backends \in Nat /\ Samplers \in Nat /\ DOMAIN Threads = 1 .. Backends + Samplers
  BY ServerAssumption DEF Threads
<1>3. CASE at \in DOMAIN Threads
  <2>1. cancelled' = cancelled \cup {Threads[at]} /\ at' = at + 1 /\ pc' = "cancel"
    BY <1>1, <1>3 DEF Cancel
  <2>2. at \in Nat /\ at > 0 /\ at' \in 1 .. (Backends + Samplers + 1) /\ at' - 1 = at
    BY <1>1, <1>2, <1>3, <2>1
  <2>3. cancelled' = FirstThreads(at' - 1)
    BY <1>1, <2>1, <2>2, NextThread
  <2> QED
    BY <1>1, <2>1, <2>2, <2>3 DEF StopInv, FirstThreads, Threads
<1>4. CASE at \notin DOMAIN Threads
  <2>1. cancelled' = cancelled /\ pc' = "exit"
    BY <1>4 DEF Cancel
  <2>2. at - 1 = Backends + Samplers
    BY <1>1, <1>2, <1>4
  <2> QED
    BY <1>1, <2>1, <2>2 DEF StopInv, FirstThreads, Threads
<1> QED
  BY <1>3, <1>4

(* The main loop, up to its end. *)
LEMMA IterationStep ==
  ASSUME StopInv, boot = 8, MainThread, ~Cancel, UNCHANGED startup
  PROVE  StopInv'
<1>1. pc \notin {"cancel", "exit"} /\ cancelled' = cancelled /\ cancelled = {}
  BY DEF MainThread, Poll, SignalTriggered, NoSignal, UpdateTimer, FlowLoad, FlowStore,
         UpdateProctitle, ExpireTimer, TimerElapsed, StopInv
<1>2. boot' = 8 /\ active_samplers' = Samplers
  BY DEF StopInv, startup, active
<1>3. pc' \notin {"cancel", "exit"} \/ (pc' = "cancel" /\ running' = running /\ ~running /\ at' = 1)
  BY DEF MainThread, Poll, SignalTriggered, NoSignal, UpdateTimer, FlowLoad, FlowStore,
         UpdateProctitle, ExpireTimer, TimerElapsed, AfterLoop
<1>4. 1 \in 1 .. (Backends + Samplers + 1)
  BY ServerAssumption
<1>5. CASE pc' \notin {"cancel", "exit"}
  BY <1>1, <1>2, <1>5 DEF StopInv
<1>6. CASE pc' = "cancel" /\ running' = running /\ ~running /\ at' = 1
  <2>1. ~running' /\ at' \in 1 .. (Backends + Samplers + 1) /\ cancelled' = {}
    BY <1>1, <1>4, <1>6
  <2>2. FirstThreads(at - 1)' = {}
    BY <1>6 DEF FirstThreads
  <2> QED
    BY <1>2, <1>6, <2>1, <2>2 DEF StopInv
<1> QED
  BY <1>3, <1>5, <1>6

LEMMA StopStep == StopInv /\ BootInv /\ [ServerNext]_allVars => StopInv'
<1> SUFFICES ASSUME StopInv, BootInv, [ServerNext]_allVars PROVE StopInv'
  OBVIOUS
<1>1. CASE Boot
  <2>1. boot \in 1 .. 7 /\ UNCHANGED vars
    BY <1>1 DEF Boot, LoadSignalfd, LoadStep, LoadBackend, LoadSampler, AllLoaded, Die, Doing, Ready,
                BootOrder, BootInv
  <2>2. UNCHANGED <<pc, running, at, cancelled>> /\ pc = "poll"
    BY <2>1 DEF vars, loop, StopInv
  <2>3. boot' > 4 => active_samplers' = Samplers
    BY <1>1, <2>1, BootSteps DEF Boot, LoadSignalfd, LoadStep, LoadBackend, LoadSampler, AllLoaded, Die,
                StopInv, active
  <2> QED
    BY <2>2, <2>3 DEF StopInv, FirstThreads, Threads
<1>2. CASE Loop
  <2>1. boot = 8 /\ MainThread /\ UNCHANGED startup
    BY <1>2 DEF Loop, Ready, BootOrder, BootInv
  <2> QED
    BY <2>1, CancelStep, IterationStep
<1>3. ASSUME UNCHANGED <<boot, active_samplers, pc, running, at, cancelled>> PROVE StopInv'
  BY <1>3 DEF StopInv, FirstThreads, Threads
<1>4. CASE ReopenEnds \/ LogRotated \/ UNCHANGED allVars
  BY <1>3, <1>4 DEF ReopenEnds, LogRotated, allVars, vars, loop, startup, active
<1>5. ASSUME NEW s \in Sampler, WorkerSocket(s) \/ Received(s) PROVE StopInv'
  BY <1>3, <1>5 DEF WorkerSocket, Received, Receive, vars, loop, active
<1>6. ASSUME NEW s \in Signal, Signalled(s) PROVE StopInv'
  BY <1>3, <1>6 DEF Signalled, Raise, vars, loop, active
<1>7. ASSUME NEW t \in {"update", "expire"}, TimerFires(t) PROVE StopInv'
  BY <1>3, <1>7 DEF TimerFires, Expire, loop, startup, active
<1> QED
  BY <1>1, <1>2, <1>4, <1>5, <1>6, <1>7 DEF ServerNext, Main

(* For any number of backends and samplers, a process that ends by leaving the main loop
   has told every thread it started to stop, and it tells none to stop before a signal
   has ended the loop: the safety half of ShutdownCompletes. *)
THEOREM ShutdownOrderly == ServerSpec => []StoppedInOrder
<1>1. ServerInit => StopInv
  BY DEF ServerInit, Init, StopInv
<1>2. StopInv /\ BootInv => StoppedInOrder
  <2> SUFFICES ASSUME StopInv, BootInv PROVE StoppedInOrder
    OBVIOUS
  <2>1. pc = "exit" => cancelled = Started
    BY ThreadsStarted DEF StopInv, BootInv
  <2> QED
    BY <2>1 DEF StopInv, StoppedInOrder
<1> QED
  BY BootInit, BootStep, StopStep, <1>1, <1>2, PTL DEF ServerSpec

(* The loading, the workers' sockets and the log add nothing to the main loop: the process
   implements brubeck_server_run as ServerLoop describes it. *)
THEOREM LoopComposed == ServerSpec => Init /\ [][Next]_vars
BY LoopSteps, PTL DEF ServerSpec, ServerInit
=============================================================================
