------------------------------ MODULE TaskBolt ------------------------------
(***************************************************************************)
(* TaskBoltBase (std_nodes/task_bolt_base.ts): heartbeats start a task     *)
(* that is due and not under way, and a shutdown waits for it.  The        *)
(* topology stops its heartbeats before it shuts its bolts down, and shuts *)
(* a bolt down once.                                                       *)
(***************************************************************************)
EXTENDS Naturals

CONSTANTS RepeatAfter, MaxClock   \* MaxClock bounds the time

ASSUME TaskAssumption == RepeatAfter \in Nat /\ MaxClock \in Nat

VARIABLES
  clock, is_running, next_run,
  tasks,         \* tasks under way
  task_starts,   \* when they were started
  shutdown_cb, task_shutdown   \* "no", "asked", "called back"

task_vars == <<clock, is_running, next_run, tasks, task_starts, shutdown_cb, task_shutdown>>

TaskInit ==
  /\ clock = 1 /\ is_running = FALSE /\ next_run = 0
  /\ tasks = 0 /\ task_starts = {} /\ shutdown_cb = FALSE /\ task_shutdown = "no"

\* Fault: a task is started when it is due (breaks TasksAreSpaced).
DueOnly == next_run <= clock

StartsTask == ~is_running /\ next_run <= clock

TaskHeartbeat ==
  /\ task_shutdown = "no"
  /\ StartsTask
  /\ is_running' = TRUE /\ next_run' = clock + RepeatAfter
  /\ tasks' = tasks + 1 /\ task_starts' = task_starts \cup {clock}
  /\ UNCHANGED <<clock, shutdown_cb, task_shutdown>>

TaskEnds ==
  /\ tasks > 0
  /\ tasks' = tasks - 1 /\ is_running' = FALSE
  /\ shutdown_cb' = FALSE
  /\ task_shutdown' = IF shutdown_cb THEN "called back" ELSE task_shutdown
  /\ UNCHANGED <<clock, next_run, task_starts>>

TaskShutdown ==
  /\ task_shutdown = "no"
  /\ shutdown_cb' = is_running
  /\ task_shutdown' = IF is_running THEN "asked" ELSE "called back"
  /\ UNCHANGED <<clock, is_running, next_run, tasks, task_starts>>

ClockTicks ==
  /\ clock < MaxClock /\ clock' = clock + 1
  /\ UNCHANGED <<is_running, next_run, tasks, task_starts, shutdown_cb, task_shutdown>>

TaskNext == TaskHeartbeat \/ TaskEnds \/ TaskShutdown \/ ClockTicks

TaskSpec == TaskInit /\ [][TaskNext]_task_vars

---------------------------------------------------------------------------
\* However long a task takes, one runs at a time, two starts are RepeatAfter
\* apart, and none is under way once shutdown has called back, which waits for
\* one only if there is one.
TasksAreSpaced ==
  /\ tasks <= 1
  /\ \A t, u \in task_starts : t < u => t + RepeatAfter <= u
  /\ task_shutdown = "called back" => tasks = 0
  /\ task_shutdown = "asked" => tasks = 1 /\ shutdown_cb
=============================================================================
