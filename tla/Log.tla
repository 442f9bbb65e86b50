-------------------------------- MODULE Log --------------------------------
(***************************************************************************)
(* The log (log.c): the main thread reopens it on SIGHUP (module LogFile)  *)
(* while every thread writes to it.  The C library makes one call on a     *)
(* FILE atomic.                                                            *)
(***************************************************************************)
EXTENDS LogFile

CONSTANTS
  Thread,     \* threads that call gh_log_write
  MaxLines    \* bound: lines of a thread

VARIABLES
  calls,      \* of each thread, stdio calls left for its line: vfprintf and fflush
  held,       \* the FILE a thread has loaded and will call stdio with
  lines,      \* history: lines written by each thread
  closed      \* history: has a thread called stdio with a closed FILE?

writers == <<calls, held, lines, closed>>
vars == <<fileVars, writers>>

Init ==
  /\ FileInit /\ closed = FALSE
  /\ calls = [t \in Thread |-> 0] /\ held = [t \in Thread |-> None]
  /\ lines = [t \in Thread |-> 0]

(* gh_log_write loads gh_log_file for each of its two calls. *)
Write(t) ==
  /\ calls[t] = 0 /\ lines[t] < MaxLines
  /\ calls' = [calls EXCEPT ![t] = 2]
  /\ lines' = [lines EXCEPT ![t] = @ + 1]
  /\ UNCHANGED <<fileVars, held, closed>>

Load(t) ==
  /\ calls[t] > 0 /\ held[t] = None
  /\ held' = [held EXCEPT ![t] = gh_log_file]
  /\ UNCHANGED <<fileVars, calls, lines, closed>>

Stdio(t) ==
  /\ held[t] # None
  /\ closed' = (closed \/ held[t] \notin open)
  /\ calls' = [calls EXCEPT ![t] = @ - 1]
  /\ held' = [held EXCEPT ![t] = None]
  /\ UNCHANGED <<fileVars, lines>>

Next ==
  \/ FileNext /\ UNCHANGED writers
  \/ \E t \in Thread : Write(t) \/ Load(t) \/ Stdio(t)

Spec == Init /\ [][Next]_vars
-----------------------------------------------------------------------------
(* README: "`SIGHUP`: reopen the log files (in case you're using logrotate or an
   equivalent)": the other threads can go on logging meanwhile. *)
NoClosedLog == ~closed
=============================================================================
