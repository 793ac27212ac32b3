------------------------- MODULE ChildProcRestarter -------------------------
(***************************************************************************)
(* ChildProcRestarter (util/child_proc_restarter.ts): a child process that *)
(* is started again a second after it exits, until it is stopped or exits  *)
(* too often.  The caller starts and stops it in any order.                *)
(***************************************************************************)
EXTENDS Naturals, FiniteSets

CONSTANTS
  StopScores,    \* values of options.stop_score; 0 for none
  MaxStarts      \* bound: processes started

ASSUME RestarterAssumption == StopScores \subseteq Nat /\ MaxStarts \in Nat

VARIABLES
  stop_score,
  score,            \* prev_val of error_frequency_score
  proc,             \* the process in proc, or NoProc
  processes,        \* the processes that are alive, by number
  started,          \* how many were started
  first_start, restarter_paused,
  pending_exit_cb,  \* set by stop, and never cleared
  restart_timers,   \* calls of setTimeout that did not fire yet
  gave_up,          \* the process exited too often
  stops,            \* the last call of stop: "none", "waiting", "called back"
  started_paused    \* a process was started while the restarter was stopped

restarter_vars == <<stop_score, score, proc, processes, started, first_start,
  restarter_paused, pending_exit_cb, restart_timers, gave_up, stops, started_paused>>

NoProc == 0

RestarterInit ==
  /\ stop_score \in StopScores /\ score = 0
  /\ proc = NoProc /\ processes = {} /\ started = 0
  /\ first_start = TRUE /\ restarter_paused = TRUE /\ pending_exit_cb = FALSE
  /\ restart_timers = 0 /\ gave_up = FALSE /\ stops = "none" /\ started_paused = FALSE

---------------------------------------------------------------------------
\* Fault: a restart does not look whether the restarter was stopped meanwhile
\* (breaks RestarterObeys).
MayStartAlways(paused) == proc = NoProc

\* _start returns at once if there is a process, or after a stop.
MayStart(paused) == proc = NoProc /\ ~paused

StartChild(paused) ==
  IF MayStart(paused)
  THEN /\ started < MaxStarts
       /\ started' = started + 1
       /\ proc' = started' /\ processes' = processes \cup {started'}
       /\ first_start' = FALSE
       /\ started_paused' = (started_paused \/ paused)
  ELSE UNCHANGED <<started, proc, processes, first_start, started_paused>>

RestarterStart ==
  /\ restarter_paused' = FALSE
  /\ StartChild(FALSE)
  /\ gave_up' = (gave_up /\ proc' = proc)
  /\ UNCHANGED <<stop_score, score, pending_exit_cb, restart_timers, stops>>

\* The callback of stop is called by the exit of a process only.
RestarterStop ==
  /\ restarter_paused' = TRUE /\ pending_exit_cb' = TRUE
  /\ stops' = "waiting"
  /\ UNCHANGED <<stop_score, score, proc, processes, started, first_start, restart_timers,
                 gave_up, started_paused>>

\* EventFrequencyScore.add: one more, to what is left of the earlier ones.
FrequencyScores == {left + 1 : left \in 0..score}

\* A process exits, after a SIGINT or by itself.
ChildExits(p) ==
  /\ processes' = processes \ {p} /\ proc' = NoProc
  /\ \/ /\ pending_exit_cb
        /\ stops' = "called back"
        /\ UNCHANGED <<score, restart_timers, gave_up>>
     \/ /\ ~pending_exit_cb /\ stop_score > 0
        /\ score' \in FrequencyScores
        /\ IF score' >= stop_score
           THEN gave_up' = TRUE /\ UNCHANGED restart_timers
           ELSE restart_timers' = restart_timers + 1 /\ UNCHANGED gave_up
        /\ UNCHANGED stops
     \/ /\ ~pending_exit_cb /\ stop_score = 0
        /\ restart_timers' = restart_timers + 1
        /\ UNCHANGED <<score, gave_up, stops>>
  /\ UNCHANGED <<stop_score, started, first_start, restarter_paused, pending_exit_cb,
                 started_paused>>

RestartTimer ==
  /\ restart_timers > 0
  /\ restart_timers' = restart_timers - 1
  /\ StartChild(restarter_paused)
  /\ UNCHANGED <<stop_score, score, restarter_paused, pending_exit_cb, gave_up, stops>>

RestarterNext ==
  \/ RestarterStart
  \/ RestarterStop
  \/ \E p \in processes : ChildExits(p)
  \/ RestartTimer

RestarterSpec == RestarterInit /\ [][RestarterNext]_restarter_vars

---------------------------------------------------------------------------
(* Properties.                                                             *)

\* There is one process at most, the one in proc, whatever restarts are under
\* way when start is called; none is started after a stop; and one that was
\* started, never stopped and did not give up runs or is about to.
RestarterObeys ==
  /\ processes = {proc} \ {NoProc}
  /\ ~started_paused
  /\ ~pending_exit_cb /\ started > 0 /\ ~gave_up => proc # NoProc \/ restart_timers > 0
=============================================================================
