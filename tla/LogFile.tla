------------------------------ MODULE LogFile ------------------------------
(***************************************************************************)
(* gh_log_open and gh_log_reopen (log.c).  A FILE is the number of the     *)
(* fopen that returned it; 0 is stderr.                                    *)
(***************************************************************************)
EXTENDS Naturals, Sequences, FiniteSets

CONSTANTS
  None,
  MaxOpens, MaxRotations   \* bounds: fopen calls, renames

VARIABLES
  gh_log_file, gh_log_path,
  opened,     \* for each fopen, the file it opened
  named,      \* history: the file that had the log's name at the last fopen
  open,       \* FILEs that are open
  current,    \* the file that has the log's name now: logrotate renames it away
  new_log,    \* of the call of gh_log_open under way
  log_pc      \* the main thread

fileVars == <<gh_log_file, gh_log_path, opened, named, open, current, new_log, log_pc>>

(* After the first gh_log_open: no --log, "syslog" and a path that cannot be opened
   leave gh_log_path NULL. *)
FileInit ==
  /\ \/ gh_log_file = 0 /\ gh_log_path = FALSE /\ opened = <<>> /\ open = {0}
     \/ gh_log_file = 1 /\ gh_log_path = TRUE /\ opened = <<0>> /\ open = {0, 1}
  /\ current = 0 /\ named = 0 /\ new_log = None /\ log_pc = "idle"

Rotate ==
  /\ current < MaxRotations
  /\ current' = current + 1
  /\ UNCHANGED <<gh_log_file, gh_log_path, opened, named, open, new_log, log_pc>>

(* What fopen finds.  Mutant: the open FILE's own file is opened again. *)
SameFile == opened[gh_log_file]
FileNamed == current

(* gh_log_reopen, and gh_log_open up to fopen, which may fail. *)
Fopen ==
  /\ log_pc = "idle" /\ gh_log_path /\ Len(opened) < MaxOpens
  /\ \/ /\ opened' = Append(opened, FileNamed) /\ named' = current
        /\ new_log' = Len(opened')
        /\ open' = open \cup {new_log'} /\ log_pc' = "fclose"
     \/ UNCHANGED <<opened, named, new_log, open, log_pc>>
  /\ UNCHANGED <<gh_log_file, gh_log_path, current>>

(* Which FILE is closed.  Mutant: none, the old one is just forgotten. *)
CloseNone == {}
CloseOld == {gh_log_file} \ {0}

Fclose ==
  /\ log_pc = "fclose"
  /\ open' = open \ CloseOld /\ log_pc' = "assign"
  /\ UNCHANGED <<gh_log_file, gh_log_path, opened, named, current, new_log>>

Assign ==
  /\ log_pc = "assign"
  /\ gh_log_file' = new_log /\ new_log' = None /\ log_pc' = "idle"
  /\ UNCHANGED <<gh_log_path, opened, named, open, current>>

FileNext == Rotate \/ Fopen \/ Fclose \/ Assign
-----------------------------------------------------------------------------
(* However many times the log is rotated and reopened, and whichever fopen fails,
   one log FILE is open between two calls of gh_log_open and at most two in one. *)
OneLogOpen ==
  /\ log_pc = "idle" => open = {0, gh_log_file}
  /\ Cardinality(open \ {0}) <= 2

(* Once gh_log_reopen has returned, a line goes to the file that had the log's name
   when fopen last succeeded, not to one rotated away before. *)
RotationFollowed ==
  log_pc = "idle" /\ gh_log_path => opened[gh_log_file] = named
=============================================================================
