---------------------------- MODULE NodesProofs ----------------------------
(***************************************************************************)
(* What the standard nodes keep.  TaskBoltBase, ChildProcRestarter and the *)
(* queueing spouts: for any periods, scores, numbers of processes and      *)
(* limits of the queues.  The bolts that write files: for any numbers of   *)
(* data, values and buckets and any time.  The front ends of the storage:  *)
(* for any number of commands at a time, over HTTP or not, and whatever    *)
(* requests and answers are lost or refused, their calls arrive as meant.  *)
(***************************************************************************)
EXTENDS TaskBolt, ChildProcRestarter, QueueSpouts, FileAppendBolt, FileAppendBoltEx,
        StorageFrontends, FiniteSetTheorems, SequenceTheorems, TLAPS

---------------------------------------------------------------------------
(* TaskBoltBase.                                                           *)

TaskTypes ==
  /\ clock \in Nat /\ next_run \in Nat
  /\ is_running \in BOOLEAN /\ shutdown_cb \in BOOLEAN
  /\ task_starts \subseteq Nat

\* is_running tells whether a task is under way.
TasksAreCounted == (is_running => tasks = 1) /\ (~is_running => tasks = 0)

\* No task is due before the time since each start is over.
NextRunIsLater == \A t \in task_starts : t <= clock /\ t + RepeatAfter <= next_run

StartsAreSpaced == \A t, u \in task_starts : t < u => t + RepeatAfter <= u

ShutdownWaits ==
  /\ task_shutdown = "asked" => is_running /\ shutdown_cb
  /\ task_shutdown = "called back" => ~is_running
  /\ task_shutdown = "no" => ~shutdown_cb

TaskIInv ==
  TaskTypes /\ TasksAreCounted /\ NextRunIsLater /\ StartsAreSpaced /\ ShutdownWaits

\* Tasks run one at a time and RepeatAfter apart, and the shutdown calls back when
\* none is under way, whatever the period is and however long tasks take.
THEOREM TasksKeepDistance == TaskSpec => []TasksAreSpaced
<1>1. TaskInit => TaskIInv
  <2> SUFFICES ASSUME TaskInit PROVE TaskIInv
    OBVIOUS
  <2> USE DEF TaskInit
  <2>1. TaskTypes  BY DEF TaskTypes
  <2>2. TasksAreCounted  BY DEF TasksAreCounted
  <2>3. NextRunIsLater /\ StartsAreSpaced  BY DEF NextRunIsLater, StartsAreSpaced
  <2>4. ShutdownWaits  BY DEF ShutdownWaits
  <2> QED  BY <2>1, <2>2, <2>3, <2>4 DEF TaskIInv
<1>2. TaskIInv /\ [TaskNext]_task_vars => TaskIInv'
  <2> SUFFICES ASSUME TaskIInv, [TaskNext]_task_vars PROVE TaskIInv'
    OBVIOUS
  <2> USE DEF TaskIInv
  <2>1. CASE TaskHeartbeat
    <3> USE <2>1 DEF TaskHeartbeat, StartsTask
    <3>1. TaskTypes'  BY TaskAssumption DEF TaskTypes
    <3>2. TasksAreCounted'  BY DEF TasksAreCounted
    <3>3. NextRunIsLater'  BY TaskAssumption DEF NextRunIsLater, TaskTypes
    <3>4. StartsAreSpaced'  BY TaskAssumption DEF StartsAreSpaced, NextRunIsLater, TaskTypes
    <3>5. ShutdownWaits'  BY DEF ShutdownWaits
    <3> QED  BY <3>1, <3>2, <3>3, <3>4, <3>5
  <2>2. CASE TaskEnds
    <3>1. /\ tasks > 0 /\ tasks' = tasks - 1
          /\ UNCHANGED <<clock, next_run, task_starts>>
      BY <2>2 DEF TaskEnds
    <3>2. is_running' = FALSE /\ shutdown_cb' = FALSE
      BY <2>2, Zenon DEF TaskEnds
    <3>3. task_shutdown' = IF shutdown_cb THEN "called back" ELSE task_shutdown
      BY <2>2, Zenon DEF TaskEnds
    <3>4. tasks # 0  BY <3>1
    <3>5. is_running /\ tasks = 1
      BY <3>4, Zenon DEF TasksAreCounted, TaskTypes
    <3>6. tasks' = 0  BY <3>1, <3>5
    <3>7. TaskTypes'  BY <3>1, <3>2, Zenon DEF TaskTypes
    <3>8. TasksAreCounted'  BY <3>2, <3>6, Zenon DEF TasksAreCounted
    <3>9. NextRunIsLater' /\ StartsAreSpaced'  BY <3>1 DEF NextRunIsLater, StartsAreSpaced
    <3>10. ShutdownWaits'  BY <3>2, <3>3, Zenon DEF ShutdownWaits
    <3> QED  BY <3>7, <3>8, <3>9, <3>10
  <2>3. CASE TaskShutdown
    <3> USE <2>3 DEF TaskShutdown
    <3>1. TaskTypes'  BY DEF TaskTypes
    <3>2. TasksAreCounted'  BY DEF TasksAreCounted
    <3>3. NextRunIsLater' /\ StartsAreSpaced'  BY DEF NextRunIsLater, StartsAreSpaced
    <3>4. ShutdownWaits'  BY DEF ShutdownWaits, TaskTypes
    <3> QED  BY <3>1, <3>2, <3>3, <3>4
  <2>4. CASE ClockTicks
    <3> USE <2>4 DEF ClockTicks
    <3>1. TaskTypes'  BY DEF TaskTypes
    <3>2. TasksAreCounted'  BY DEF TasksAreCounted
    <3>3. NextRunIsLater' /\ StartsAreSpaced'
      BY DEF NextRunIsLater, StartsAreSpaced, TaskTypes
    <3>4. ShutdownWaits'  BY DEF ShutdownWaits
    <3> QED  BY <3>1, <3>2, <3>3, <3>4
  <2>5. CASE UNCHANGED task_vars
    BY <2>5 DEF task_vars, TaskTypes, TasksAreCounted, NextRunIsLater, StartsAreSpaced,
                ShutdownWaits
  <2> QED
    BY <2>1, <2>2, <2>3, <2>4, <2>5 DEF TaskNext
<1>3. TaskIInv => TasksAreSpaced
  <2> SUFFICES ASSUME TaskIInv PROVE TasksAreSpaced
    OBVIOUS
  <2>1. tasks <= 1  BY DEF TaskIInv, TasksAreCounted, TaskTypes
  <2>2. StartsAreSpaced  BY DEF TaskIInv
  <2>3. /\ task_shutdown = "called back" => tasks = 0
        /\ task_shutdown = "asked" => tasks = 1 /\ shutdown_cb
    BY DEF TaskIInv, ShutdownWaits, TasksAreCounted
  <2> QED  BY <2>1, <2>2, <2>3 DEF TasksAreSpaced, StartsAreSpaced
<1> QED
  BY <1>1, <1>2, <1>3, PTL DEF TaskSpec

---------------------------------------------------------------------------
(* ChildProcRestarter.                                                     *)

RestarterTypes ==
  /\ proc \in Nat /\ started \in Nat /\ restart_timers \in Nat
  /\ restarter_paused \in BOOLEAN /\ pending_exit_cb \in BOOLEAN
  /\ gave_up \in BOOLEAN /\ started_paused \in BOOLEAN

\* A restarter is paused before its first start and by stop only.
PausedByStop == restarter_paused => pending_exit_cb \/ started = 0

\* One that was started, never stopped and did not give up runs or is about to.
ComesBack ==
  ~pending_exit_cb /\ started > 0 /\ ~gave_up => proc # NoProc \/ restart_timers > 0

OneProcess == processes = {proc} \ {NoProc} /\ ~started_paused

RestarterIInv == RestarterTypes /\ PausedByStop /\ ComesBack /\ OneProcess

LEMMA StartChildKeeps ==
  ASSUME RestarterIInv, NEW paused \in BOOLEAN, StartChild(paused)
  PROVE  /\ proc' \in Nat /\ started' \in Nat
         /\ started_paused' \in BOOLEAN
         /\ OneProcess'
         /\ ~paused => proc' # NoProc
         /\ paused => UNCHANGED <<proc, started>>
         /\ proc = NoProc \/ UNCHANGED <<proc, started>>
<1> USE DEF RestarterIInv, RestarterTypes, NoProc
<1>1. CASE MayStart(paused)
  <2> USE <1>1 DEF StartChild, MayStart
  <2>1. proc' = started + 1 /\ started' = started + 1 /\ proc = NoProc
    OBVIOUS
  <2>2. processes' = {proc'}  BY <2>1 DEF OneProcess
  <2>3. ~started_paused'  BY DEF OneProcess
  <2>4. started_paused' \in BOOLEAN  OBVIOUS
  <2>5. OneProcess'  BY <2>1, <2>2, <2>3 DEF OneProcess
  <2>6. ~paused  OBVIOUS
  <2> QED  BY <2>1, <2>4, <2>5, <2>6
<1>2. CASE ~MayStart(paused)
  <2> USE <1>2 DEF StartChild, MayStart
  <2>1. UNCHANGED <<started, proc, processes, started_paused>>  OBVIOUS
  <2>2. OneProcess'  BY <2>1 DEF OneProcess
  <2>3. ~paused => proc # NoProc  OBVIOUS
  <2> QED  BY <2>1, <2>2, <2>3
<1> QED
  BY <1>1, <1>2

\* There is one process at most, none is started after a stop, and one that was
\* not stopped and did not give up runs or will: for any stop_score, in any order
\* of starts, stops, exits and timers.
THEOREM RestarterObeysItsCaller == RestarterSpec => []RestarterObeys
<1>1. RestarterInit => RestarterIInv
  <2> SUFFICES ASSUME RestarterInit PROVE RestarterIInv
    OBVIOUS
  <2> USE DEF RestarterInit, NoProc
  <2>1. RestarterTypes  BY DEF RestarterTypes
  <2>2. PausedByStop  BY DEF PausedByStop
  <2>3. ComesBack  BY DEF ComesBack
  <2>4. OneProcess  BY DEF OneProcess
  <2> QED  BY <2>1, <2>2, <2>3, <2>4 DEF RestarterIInv
<1>2. RestarterIInv /\ [RestarterNext]_restarter_vars => RestarterIInv'
  <2> SUFFICES ASSUME RestarterIInv, [RestarterNext]_restarter_vars PROVE RestarterIInv'
    OBVIOUS
  <2> USE DEF RestarterIInv
  <2>1. CASE RestarterStart
    <3> USE <2>1 DEF RestarterStart
    <3>1. StartChild(FALSE)  OBVIOUS
    <3>2. /\ proc' \in Nat /\ started' \in Nat /\ started_paused' \in BOOLEAN
          /\ OneProcess' /\ proc' # NoProc
      BY <3>1, StartChildKeeps
    <3>3. RestarterTypes'  BY <3>2 DEF RestarterTypes
    <3>4. PausedByStop'  BY DEF PausedByStop
    <3>5. ComesBack'  BY <3>2 DEF ComesBack
    <3> QED  BY <3>2, <3>3, <3>4, <3>5
  <2>2. CASE RestarterStop
    <3> USE <2>2 DEF RestarterStop
    <3>1. RestarterTypes'  BY DEF RestarterTypes
    <3>2. PausedByStop'  BY DEF PausedByStop
    <3>3. ComesBack'  BY DEF ComesBack
    <3>4. OneProcess'  BY DEF OneProcess
    <3> QED  BY <3>1, <3>2, <3>3, <3>4
  <2>3. ASSUME NEW p \in processes, ChildExits(p) PROVE RestarterIInv'
    <3>1. UNCHANGED <<started, restarter_paused, pending_exit_cb, started_paused>>
      BY <2>3, Zenon DEF ChildExits
    <3>2. processes' = processes \ {p} /\ proc' = NoProc
      BY <2>3, Zenon DEF ChildExits
    <3>3. processes' = {}  BY <2>3, <3>2 DEF OneProcess
    <3>4. OneProcess'  BY <3>1, <3>2, <3>3 DEF OneProcess
    <3>5. restart_timers \in Nat  BY DEF RestarterTypes
    <3>6. \/ pending_exit_cb /\ UNCHANGED <<restart_timers, gave_up>>
          \/ restart_timers' = restart_timers + 1 /\ UNCHANGED gave_up
          \/ gave_up' = TRUE /\ UNCHANGED restart_timers
      BY <2>3, Zenon DEF ChildExits
    <3>7. restart_timers' \in Nat  BY <3>5, <3>6
    <3>8. gave_up' \in BOOLEAN  BY <3>6, Zenon DEF RestarterTypes
    <3>9. restart_timers' = restart_timers + 1 => restart_timers' > 0  BY <3>5
    <3>10. ~pending_exit_cb => gave_up' \/ restart_timers' > 0
      BY <3>6, <3>9, Zenon
    <3>11. proc' \in Nat  BY <3>2 DEF NoProc
    <3>12. RestarterTypes'
      BY <3>1, <3>7, <3>8, <3>11, Zenon DEF RestarterTypes
    <3>13. PausedByStop'  BY <3>1, Zenon DEF PausedByStop
    <3>14. ComesBack'  BY <3>1, <3>10, Zenon DEF ComesBack
    <3> QED  BY <3>4, <3>12, <3>13, <3>14
  <2>4. CASE RestartTimer
    <3> USE <2>4 DEF RestartTimer
    <3>1. StartChild(restarter_paused) /\ restarter_paused \in BOOLEAN
      BY DEF RestarterTypes
    <3>2. /\ proc' \in Nat /\ started' \in Nat /\ started_paused' \in BOOLEAN
          /\ OneProcess'
          /\ ~restarter_paused => proc' # NoProc
          /\ restarter_paused => UNCHANGED <<proc, started>>
      BY <3>1, StartChildKeeps
    <3>3. RestarterTypes'  BY <3>2 DEF RestarterTypes
    <3>4. PausedByStop'  BY <3>2 DEF PausedByStop
    <3>5. ComesBack'  BY <3>2 DEF ComesBack, PausedByStop, RestarterTypes
    <3> QED  BY <3>2, <3>3, <3>4, <3>5
  <2>5. CASE UNCHANGED restarter_vars
    BY <2>5 DEF restarter_vars, RestarterTypes, PausedByStop, ComesBack, OneProcess
  <2> QED
    BY <2>1, <2>2, <2>3, <2>4, <2>5 DEF RestarterNext
<1>3. RestarterIInv => RestarterObeys
  BY DEF RestarterIInv, OneProcess, ComesBack, RestarterObeys
<1> QED
  BY <1>1, <1>2, <1>3, PTL DEF RestarterSpec

---------------------------------------------------------------------------
(* The queueing spouts.                                                    *)

\* Of the spouts that limit their queues, the types.
SpoutTypes ==
  /\ spout \in Spouts /\ line_reader_paused \in BOOLEAN
  /\ lines_ahead \in Nat /\ (lines_ahead > 0 => spout = "file")
  /\ spout \in {"file", "rest"} => tuples \in Seq(Nat) /\ made \in Nat
  /\ spout = "rest" =>
       IsFiniteSet(requests) /\ \A r \in requests : r \in Seq(Nat) /\ Len(r) = 1

\* The lines that come count as if they were in the queue; the reader runs only
\* while the queue is below the mark.
FileBound ==
  spout = "file" =>
    /\ ~line_reader_paused => Len(tuples) <= HighWater
    /\ Len(tuples) + lines_ahead <= HighWater + ReadAhead
    /\ line_reader_paused => Len(tuples) >= LowWater - 1

\* So do the requests that were accepted.
RestBound ==
  spout = "rest" => Len(tuples) + Cardinality(requests) <= MaxQueueLen + MaxRequests

SpoutIInv == SpoutTypes /\ FileBound /\ RestBound

LEMMA ConcatOfNats ==
  ASSUME NEW s \in Seq(Nat), NEW t \in Seq(Nat)
  PROVE  s \o t \in Seq(Nat) /\ Len(s \o t) = Len(s) + Len(t)
OBVIOUS

LEMMA LineKeeps == ASSUME SpoutIInv, Line PROVE SpoutIInv'
<1> USE QueueSpoutsAssumption
<1>1. spout = "file" /\ tuples \in Seq(Nat) /\ made \in Nat /\ lines_ahead \in Nat
  BY DEF SpoutIInv, SpoutTypes, Line
<1>2. spout' = spout /\ lines_ahead > 0 /\ lines_ahead' = lines_ahead - 1
  BY DEF Line
<1>3. tuples' = tuples \o Fresh(1) /\ made' = made + Len(Fresh(1))
  BY DEF Line, Push
<1>4. Fresh(1) \in Seq(Nat) /\ Len(Fresh(1)) = 1
  <2>1. made + 1 \in Nat  BY <1>1
  <2>2. Fresh(1) = <<made + 1>>  BY DEF Fresh
  <2>3. <<made + 1>> \in Seq(Nat) /\ Len(<<made + 1>>) = 1  BY <2>1
  <2> QED  BY <2>2, <2>3
<1>5. tuples' \in Seq(Nat) /\ Len(tuples') = Len(tuples) + 1 /\ made' \in Nat
  <2>1. made' \in Nat  BY <1>1, <1>3, <1>4
  <2> QED  BY <1>1, <1>3, <1>4, <2>1, ConcatOfNats
<1>6. line_reader_paused' = (line_reader_paused \/ Len(tuples') > HighWater)
  BY DEF Line, FullNow
<1>7. line_reader_paused' \in BOOLEAN  BY <1>6
<1>8. SpoutTypes'  BY <1>1, <1>2, <1>5, <1>7 DEF SpoutTypes, Spouts
<1>9. /\ ~line_reader_paused' => Len(tuples') <= HighWater
      /\ line_reader_paused' => line_reader_paused \/ Len(tuples') > HighWater
  <2>1. Len(tuples') > HighWater \/ Len(tuples') <= HighWater
    BY <1>1, <1>5
  <2> QED  BY <1>6, <2>1, Zenon
<1>10. /\ Len(tuples) + lines_ahead <= HighWater + ReadAhead
       /\ line_reader_paused => Len(tuples) >= LowWater - 1
  BY <1>1 DEF SpoutIInv, FileBound
<1>11. Len(tuples') + lines_ahead' <= HighWater + ReadAhead
  BY <1>1, <1>2, <1>5, <1>10
<1>12. line_reader_paused' => Len(tuples') >= LowWater - 1
  BY <1>1, <1>5, <1>9, <1>10
<1>13. FileBound'  BY <1>9, <1>11, <1>12 DEF FileBound
<1>14. RestBound'  BY <1>1, <1>2 DEF RestBound
<1> QED  BY <1>8, <1>13, <1>14 DEF SpoutIInv

LEMMA RestKeeps ==
  ASSUME SpoutIInv, Request \/ \E r \in requests : BodyEnds(r)
  PROVE  SpoutIInv'
<1> USE QueueSpoutsAssumption
<1>1. /\ spout = "rest" /\ spout' = spout
      /\ UNCHANGED <<line_reader_paused, lines_ahead>>
  BY DEF Request, BodyEnds
<1> DEFINE OfLengthOne(set) == \A r \in set : r \in Seq(Nat) /\ Len(r) = 1
<1>0. /\ tuples \in Seq(Nat) /\ made \in Nat /\ IsFiniteSet(requests)
      /\ OfLengthOne(requests)
  BY <1>1 DEF SpoutIInv, SpoutTypes
<1>2. /\ Len(tuples) \in Nat /\ Cardinality(requests) \in Nat
      /\ Len(tuples) + Cardinality(requests) <= MaxQueueLen + MaxRequests
  BY <1>0, <1>1, FS_CardinalityType DEF SpoutIInv, RestBound
<1>3. /\ tuples' \in Seq(Nat) /\ made' \in Nat /\ IsFiniteSet(requests')
      /\ OfLengthOne(requests')
      /\ Len(tuples') + Cardinality(requests') <= MaxQueueLen + MaxRequests
  <2>1. CASE Request
    <3>1. /\ tuples' = tuples /\ made' = made + 1
          /\ \/ requests' = requests
             \/ /\ requests' = requests \cup {<<made'>>}
                /\ Len(tuples) <= MaxQueueLen
          /\ Cardinality(requests) < MaxRequests
      BY <2>1 DEF Request
    <3> HIDE DEF OfLengthOne
    <3>2. CASE requests' = requests  BY <1>0, <1>2, <3>1, <3>2
    <3>3. CASE requests' = requests \cup {<<made'>>} /\ Len(tuples) <= MaxQueueLen
      <4>1. IsFiniteSet(requests') /\ Cardinality(requests') <= Cardinality(requests) + 1
        <5>1. /\ IsFiniteSet(requests')
              /\ \/ Cardinality(requests') = Cardinality(requests)
                 \/ Cardinality(requests') = Cardinality(requests) + 1
          BY <1>0, <3>3, FS_AddElement, Zenon
        <5> QED  BY <1>2, <5>1
      <4>2. Cardinality(requests') \in Nat  BY <4>1, FS_CardinalityType
      <4>3. OfLengthOne(requests')
        <5>1. made' \in Nat  BY <1>0, <3>1
        <5>2. <<made'>> \in Seq(Nat) /\ Len(<<made'>>) = 1  BY <5>1
        <5> QED  BY <1>0, <3>3, <5>2, Zenon DEF OfLengthOne
      <4>4. Len(tuples') + Cardinality(requests') <= MaxQueueLen + MaxRequests
        BY <1>2, <3>1, <3>3, <4>1, <4>2
      <4>5. made' \in Nat  BY <1>0, <3>1
      <4> QED  BY <1>0, <3>1, <4>1, <4>3, <4>4, <4>5, Zenon
    <3> QED  BY <3>1, <3>2, <3>3
  <2>2. ASSUME NEW r \in requests, BodyEnds(r)
        PROVE  /\ tuples' \in Seq(Nat) /\ made' \in Nat /\ IsFiniteSet(requests')
               /\ OfLengthOne(requests')
               /\ Len(tuples') + Cardinality(requests') <= MaxQueueLen + MaxRequests
    <3>1. /\ tuples' = tuples \o r \/ tuples' = tuples
          /\ requests' = requests \ {r} /\ made' = made
      BY <2>2 DEF BodyEnds
    <3>2. r \in Seq(Nat) /\ Len(r) = 1  BY <1>0
    <3>3. /\ tuples' \in Seq(Nat) /\ Len(tuples') \in Nat
          /\ Len(tuples') <= Len(tuples) + 1
      <4>1. tuples \in Seq(Nat)  BY <1>0
      <4>2. tuples \o r \in Seq(Nat) /\ Len(tuples \o r) = Len(tuples) + Len(r)
        BY <3>2, <4>1, ConcatOfNats
      <4>3. CASE tuples' = tuples  BY <1>2, <4>1, <4>3
      <4>4. CASE tuples' = tuples \o r  BY <1>2, <3>2, <4>2, <4>4
      <4> QED  BY <3>1, <4>3, <4>4
    <3>4. IsFiniteSet(requests') /\ Cardinality(requests') = Cardinality(requests) - 1
      BY <1>0, <3>1, FS_RemoveElement, Zenon
    <3>5. Len(tuples') + Cardinality(requests') <= MaxQueueLen + MaxRequests
      BY <1>2, <3>3, <3>4
    <3>6. OfLengthOne(requests')  BY <1>0, <3>1, Zenon
    <3> QED  BY <1>0, <3>1, <3>3, <3>4, <3>5, <3>6, Zenon
  <2> QED  BY <2>1, <2>2
<1>4. SpoutTypes'
  BY <1>1, <1>3, Zenon DEF SpoutIInv, SpoutTypes
<1>5. FileBound'  BY <1>1 DEF FileBound
<1>6. RestBound'  BY <1>3 DEF RestBound
<1> QED  BY <1>4, <1>5, <1>6 DEF SpoutIInv

LEMMA NextCallKeeps == ASSUME SpoutIInv, SpoutNextCall \/ EmptyNextCall PROVE SpoutIInv'
<1> USE QueueSpoutsAssumption
<1>1. /\ UNCHANGED <<spout, lines_ahead, requests, made>>
      /\ line_reader_paused' = (line_reader_paused /\ ~(Len(tuples) < LowWater))
  <2>1. line_reader_paused' = (line_reader_paused /\ ~Resumes)
    BY DEF SpoutNextCall, EmptyNextCall
  <2>2. line_reader_paused' = (line_reader_paused /\ ~(Len(tuples) < LowWater))
    BY <2>1, Zenon DEF Resumes
  <2> QED  BY <2>2 DEF SpoutNextCall, EmptyNextCall
<1>2. \/ tuples # << >> /\ tuples' = Tail(tuples)
      \/ tuples = << >> /\ tuples' = << >>
  BY DEF SpoutNextCall, EmptyNextCall, RemoveFirst
<1>3. ASSUME tuples \in Seq(Nat)
      PROVE  /\ tuples' \in Seq(Nat)
             /\ Len(tuples') <= Len(tuples) /\ Len(tuples') >= Len(tuples) - 1
  <2>1. CASE tuples # << >> /\ tuples' = Tail(tuples)
    <3>1. Tail(tuples) \in Seq(Nat) /\ Len(Tail(tuples)) = Len(tuples) - 1
      BY <1>3, <2>1
    <3>2. Len(tuples) \in Nat  BY <1>3
    <3> QED  BY <2>1, <3>1, <3>2
  <2>2. CASE tuples = << >> /\ tuples' = << >>  BY <1>3, <2>2
  <2> QED  BY <1>2, <2>1, <2>2
<1>4. line_reader_paused' \in BOOLEAN  BY <1>1
<1>5. SpoutTypes'
  BY <1>1, <1>3, <1>4, Zenon DEF SpoutIInv, SpoutTypes
<1>6. FileBound'
  <2> SUFFICES ASSUME spout = "file" PROVE FileBound'
    BY <1>1 DEF FileBound
  <2>1. tuples \in Seq(Nat) /\ lines_ahead \in Nat
    BY DEF SpoutIInv, SpoutTypes
  <2>2. /\ ~line_reader_paused => Len(tuples) <= HighWater
        /\ Len(tuples) + lines_ahead <= HighWater + ReadAhead
    BY DEF SpoutIInv, FileBound
  <2>3. /\ ~line_reader_paused' => Len(tuples) <= HighWater
        /\ line_reader_paused' => Len(tuples) >= LowWater
    <3>1. /\ Len(tuples) < LowWater => Len(tuples) <= HighWater
          /\ ~(Len(tuples) < LowWater) => Len(tuples) >= LowWater
      BY <2>1
    <3> QED  BY <1>1, <2>2, <3>1, Zenon
  <2> QED  BY <1>1, <1>3, <2>1, <2>2, <2>3 DEF FileBound
<1>7. RestBound'
  <2> SUFFICES ASSUME spout = "rest" PROVE RestBound'
    BY <1>1 DEF RestBound
  <2>1. /\ tuples \in Seq(Nat) /\ Cardinality(requests) \in Nat
        /\ Len(tuples) + Cardinality(requests) <= MaxQueueLen + MaxRequests
    BY FS_CardinalityType DEF SpoutIInv, SpoutTypes, RestBound
  <2> QED  BY <1>1, <1>3, <2>1 DEF RestBound
<1> QED  BY <1>5, <1>6, <1>7 DEF SpoutIInv

LEMMA ReadChunkKeeps == ASSUME SpoutIInv, ReadChunk PROVE SpoutIInv'
<1> USE QueueSpoutsAssumption
<1>1. /\ spout = "file" /\ ~line_reader_paused /\ lines_ahead = 0
      /\ lines_ahead' \in 1..ReadAhead
      /\ UNCHANGED <<spout, tuples, line_reader_paused, requests, made>>
  BY DEF ReadChunk
<1>2. tuples \in Seq(Nat) /\ Len(tuples) <= HighWater
  BY <1>1 DEF SpoutIInv, SpoutTypes, FileBound
<1>3. SpoutTypes'  BY <1>1 DEF SpoutIInv, SpoutTypes
<1>4. FileBound'  BY <1>1, <1>2 DEF FileBound
<1>5. RestBound'  BY <1>1 DEF RestBound
<1> QED  BY <1>3, <1>4, <1>5 DEF SpoutIInv

\* Of the other steps, those of the other spouts have no limit to keep, and the
\* rest change neither the queue nor what will join it.
OtherSpout ==
  /\ spout \notin {"file", "rest"} /\ UNCHANGED <<spout, lines_ahead, line_reader_paused>>

SameQueue ==
  UNCHANGED <<spout, tuples, line_reader_paused, lines_ahead, requests, made>>

LEMMA OtherStepsKeep == ASSUME SpoutIInv, OtherSpout \/ SameQueue PROVE SpoutIInv'
<1>1. CASE OtherSpout
  BY <1>1, Zenon DEF OtherSpout, SpoutIInv, SpoutTypes, FileBound, RestBound
<1>2. CASE SameQueue
  BY <1>2, Zenon DEF SameQueue, SpoutIInv, SpoutTypes, FileBound, RestBound
<1> QED  BY <1>1, <1>2

\* The queues of FileReaderSpout and RestSpout keep their limits, whatever these are
\* and however reading, requests, pauses and next interleave.
THEOREM QueuesStayBounded == SpoutSpec => []QueueStaysBounded
<1>1. SpoutInit => SpoutIInv
  <2> SUFFICES ASSUME SpoutInit PROVE SpoutIInv
    OBVIOUS
  <2>1. /\ spout \in Spouts /\ tuples = << >> /\ line_reader_paused = FALSE
        /\ lines_ahead = 0 /\ requests = {} /\ made = 0
    BY DEF SpoutInit
  <2>2. SpoutTypes
    <3>1. IsFiniteSet({}) /\ ~(0 > 0) /\ 0 \in Nat  BY FS_EmptySet
    <3>2. << >> \in Seq(Nat)  OBVIOUS
    <3> QED  BY <2>1, <3>1, <3>2, Zenon DEF SpoutTypes
  <2>3. FileBound  BY <2>1, QueueSpoutsAssumption DEF FileBound
  <2>4. RestBound  BY <2>1, FS_EmptySet, QueueSpoutsAssumption DEF RestBound
  <2> QED  BY <2>2, <2>3, <2>4 DEF SpoutIInv
<1>2. SpoutIInv /\ [SpoutNext]_spout_vars => SpoutIInv'
  <2> SUFFICES ASSUME SpoutIInv, [SpoutNext]_spout_vars PROVE SpoutIInv'
    OBVIOUS
  <2>1. CASE ReadChunk  BY <2>1, ReadChunkKeeps
  <2>2. CASE Line  BY <2>2, LineKeeps
  <2>3. CASE Request \/ \E r \in requests : BodyEnds(r)  BY <2>3, RestKeeps
  <2>4. CASE SpoutNextCall \/ EmptyNextCall  BY <2>4, NextCallKeeps
  <2>5. CASE SpoutRunOrPause \/ NextAnswered \/ UNCHANGED spout_vars
    <3>1. SameQueue  BY <2>5 DEF SpoutRunOrPause, NextAnswered, spout_vars, SameQueue
    <3> QED  BY <3>1, OtherStepsKeep
  <2>6. CASE RssCrawl \/ GetCall \/ HandleNewData
    <3>1. OtherSpout
      BY <2>6 DEF RssCrawl, GetCall, HandleNewData, Calls, OtherSpout
    <3> QED  BY <3>1, OtherStepsKeep
  <2>7. CASE Timer \/ DirectoryChanges \/ ProcessRuns \/ ProcessWrites \/ ProcessError
    <3>1. OtherSpout
      BY <2>7 DEF Timer, DirectoryChanges, ProcessRuns, ProcessWrites, ProcessError,
                  NothingElse, OtherSpout
    <3> QED  BY <3>1, OtherStepsKeep
  <2>8. ASSUME NEW r \in requests,
               CrawlEnds(r) \/ GetCallEnds(r) \/ CallFails(r) \/ SeriesEmits(r)
        PROVE  SpoutIInv'
    <3>1. OtherSpout
      BY <2>8 DEF CrawlEnds, GetCallEnds, CallFails, SeriesEmits, OtherSpout
    <3> QED  BY <3>1, OtherStepsKeep
  <2> QED
    BY <2>1, <2>2, <2>3, <2>4, <2>5, <2>6, <2>7, <2>8 DEF SpoutNext
<1>3. SpoutIInv => QueueStaysBounded
  <2> SUFFICES ASSUME SpoutIInv PROVE QueueStaysBounded
    OBVIOUS
  <2>1. spout = "file" => tuples \in Seq(Nat) /\ lines_ahead \in Nat
    BY DEF SpoutIInv, SpoutTypes
  <2>2. spout = "rest" => tuples \in Seq(Nat) /\ Cardinality(requests) \in Nat
    BY FS_CardinalityType DEF SpoutIInv, SpoutTypes
  <2>3. spout = "file" =>
          /\ Len(tuples) <= HighWater + ReadAhead
          /\ line_reader_paused => Len(tuples) >= LowWater - 1
    BY <2>1, QueueSpoutsAssumption DEF SpoutIInv, FileBound
  <2>4. spout = "rest" => Len(tuples) <= MaxQueueLen + MaxRequests
    BY <2>2, QueueSpoutsAssumption DEF SpoutIInv, RestBound
  <2> QED  BY <2>3, <2>4 DEF QueueStaysBounded
<1> QED
  BY <1>1, <1>2, <1>3, PTL DEF SpoutSpec
---------------------------------------------------------------------------
(* What the spouts emit.                                                   *)

Distinct(s) == \A i, j \in DOMAIN s : i < j => s[i] # s[j]
Increasing(s) == \A i, j \in DOMAIN s : i < j => s[i] < s[j]

\* What two sequences hold, one after the other.
LEMMA ConcatParts ==
  ASSUME NEW s \in Seq(Nat), NEW t \in Seq(Nat)
  PROVE  /\ s \o t \in Seq(Nat) /\ Len(s \o t) = Len(s) + Len(t)
         /\ \A i \in 1..Len(s) : (s \o t)[i] = s[i]
         /\ \A i \in 1..Len(t) : (s \o t)[Len(s) + i] = t[i]
         /\ \A k \in 1..Len(s \o t) :
              \/ k \in 1..Len(s) /\ (s \o t)[k] = s[k]
              \/ \E i \in 1..Len(t) : k = Len(s) + i /\ (s \o t)[k] = t[i]
<1>1. s \o t \in Seq(Nat) /\ Len(s \o t) = Len(s) + Len(t)  OBVIOUS
<1>2. \A i \in 1..Len(s) : (s \o t)[i] = s[i]  OBVIOUS
<1>3. \A i \in 1..Len(t) : (s \o t)[Len(s) + i] = t[i]  OBVIOUS
<1>4. ASSUME NEW k \in 1..Len(s \o t), k \notin 1..Len(s)
      PROVE  \E i \in 1..Len(t) : k = Len(s) + i /\ (s \o t)[k] = t[i]
  <2>1. Len(s) \in Nat /\ Len(t) \in Nat  OBVIOUS
  <2>2. k - Len(s) \in 1..Len(t) /\ k = Len(s) + (k - Len(s))  BY <1>1, <1>4, <2>1
  <2> QED  BY <1>3, <2>2
<1> QED  BY <1>1, <1>2, <1>3, <1>4

LEMMA ElementsOf ==
  ASSUME NEW s \in Seq(Nat)
  PROVE  /\ Elements(s) \subseteq Nat /\ DOMAIN s = 1..Len(s) /\ Len(s) \in Nat
         /\ \A x : x \in Elements(s) <=> \E i \in 1..Len(s) : s[i] = x
<1>1. DOMAIN s = 1..Len(s) /\ Len(s) \in Nat /\ \A i \in 1..Len(s) : s[i] \in Nat  OBVIOUS
<1> QED  BY <1>1 DEF Elements

LEMMA ElementsOfConcat ==
  ASSUME NEW s \in Seq(Nat), NEW t \in Seq(Nat)
  PROVE  \A x : x \in Elements(s \o t) <=> x \in Elements(s) \/ x \in Elements(t)
<1>1. /\ s \o t \in Seq(Nat) /\ Len(s) \in Nat /\ Len(t) \in Nat
      /\ Len(s \o t) = Len(s) + Len(t)
  BY ConcatParts
<1>2. /\ \A i \in 1..Len(s) : i \in 1..Len(s \o t)
      /\ \A i \in 1..Len(t) : Len(s) + i \in 1..Len(s \o t)
  BY <1>1
<1>3. ASSUME NEW x, x \in Elements(s \o t) PROVE x \in Elements(s) \/ x \in Elements(t)
  <2>1. PICK k \in 1..Len(s \o t) : (s \o t)[k] = x  BY <1>1, <1>3, ElementsOf
  <2>2. \/ k \in 1..Len(s) /\ s[k] = x
        \/ \E i \in 1..Len(t) : t[i] = x
    BY <2>1, ConcatParts
  <2> QED  BY <2>2, ElementsOf
<1>4. ASSUME NEW x, x \in Elements(s) PROVE x \in Elements(s \o t)
  <2>1. PICK i \in 1..Len(s) : s[i] = x  BY <1>4, ElementsOf
  <2>2. i \in 1..Len(s \o t) /\ (s \o t)[i] = x  BY <1>2, <2>1, ConcatParts
  <2> QED  BY <1>1, <2>2, ElementsOf
<1>5. ASSUME NEW x, x \in Elements(t) PROVE x \in Elements(s \o t)
  <2>1. PICK i \in 1..Len(t) : t[i] = x  BY <1>5, ElementsOf
  <2>2. /\ Len(s) + i \in 1..Len(s \o t) /\ (s \o t)[Len(s) + i] = x
    BY <1>2, <2>1, ConcatParts
  <2> QED  BY <1>1, <2>2, ElementsOf
<1> QED  BY <1>3, <1>4, <1>5

LEMMA DistinctConcat ==
  ASSUME NEW s \in Seq(Nat), NEW t \in Seq(Nat)
  PROVE  /\ Distinct(s) /\ Distinct(t) /\ (\A x \in Elements(t) : x \notin Elements(s))
              => Distinct(s \o t)
         /\ Distinct(s \o t) =>
              /\ Distinct(s) /\ Distinct(t)
              /\ \A x \in Elements(t) : x \notin Elements(s)
<1> DEFINE u == s \o t
<1>1. /\ u \in Seq(Nat) /\ Len(s) \in Nat /\ Len(t) \in Nat /\ Len(u) = Len(s) + Len(t)
      /\ DOMAIN u = 1..Len(u) /\ DOMAIN s = 1..Len(s) /\ DOMAIN t = 1..Len(t)
      /\ \A i \in 1..Len(s) : u[i] = s[i]
      /\ \A i \in 1..Len(t) : u[Len(s) + i] = t[i]
  BY ConcatParts, ElementsOf
<1>2. \A k \in 1..Len(u) :
         \/ k \in 1..Len(s) /\ u[k] = s[k]
         \/ \E i \in 1..Len(t) : k = Len(s) + i /\ u[k] = t[i]
  BY ConcatParts
<1> HIDE DEF u
<1>3. ASSUME Distinct(s), Distinct(t), \A x \in Elements(t) : x \notin Elements(s),
             NEW i \in 1..Len(u), NEW j \in 1..Len(u), i < j
      PROVE  u[i] # u[j]
  <2>1. CASE j \in 1..Len(s)
    <3>1. i \in 1..Len(s)  BY <1>1, <1>3, <2>1
    <3> QED  BY <1>1, <1>3, <2>1, <3>1 DEF Distinct
  <2>2. CASE j \notin 1..Len(s) /\ i \in 1..Len(s)
    <3>1. PICK k \in 1..Len(t) : u[j] = t[k]  BY <1>2, <2>2
    <3>2. u[j] \in Elements(t) /\ u[i] \in Elements(s)  BY <1>1, <2>2, <3>1, ElementsOf
    <3> QED  BY <1>3, <3>2
  <2>3. CASE j \notin 1..Len(s) /\ i \notin 1..Len(s)
    <3>1. PICK k \in 1..Len(t) : j = Len(s) + k /\ u[j] = t[k]  BY <1>2, <2>3
    <3>2. PICK h \in 1..Len(t) : i = Len(s) + h /\ u[i] = t[h]  BY <1>2, <2>3
    <3>3. h < k  BY <1>1, <1>3, <3>1, <3>2
    <3> QED  BY <1>1, <1>3, <3>1, <3>2, <3>3 DEF Distinct
  <2> QED  BY <2>1, <2>2, <2>3
<1>4. ASSUME Distinct(u) PROVE Distinct(s)
  <2>1. ASSUME NEW i \in 1..Len(s), NEW j \in 1..Len(s), i < j PROVE s[i] # s[j]
    <3>1. i \in 1..Len(u) /\ j \in 1..Len(u)  BY <1>1
    <3> QED  BY <1>1, <1>4, <2>1, <3>1 DEF Distinct
  <2> QED  BY <1>1, <2>1 DEF Distinct
<1>5. ASSUME Distinct(u) PROVE Distinct(t)
  <2>1. ASSUME NEW i \in 1..Len(t), NEW j \in 1..Len(t), i < j PROVE t[i] # t[j]
    <3>1. /\ Len(s) + i \in 1..Len(u) /\ Len(s) + j \in 1..Len(u)
          /\ Len(s) + i < Len(s) + j
      BY <1>1, <2>1, SMTT(30)
    <3>2. u[Len(s) + i] # u[Len(s) + j]  BY <1>1, <1>5, <3>1 DEF Distinct
    <3> QED  BY <1>1, <3>2
  <2> QED  BY <1>1, <2>1 DEF Distinct
<1>6. ASSUME Distinct(u), NEW x \in Elements(t), x \in Elements(s) PROVE FALSE
  <2>1. PICK i \in 1..Len(s) : s[i] = x  BY <1>6, ElementsOf
  <2>2. PICK j \in 1..Len(t) : t[j] = x  BY <1>6, ElementsOf
  <2>3. i \in 1..Len(u) /\ Len(s) + j \in 1..Len(u) /\ i < Len(s) + j
    <3>1. Len(s) \in Nat /\ Len(t) \in Nat /\ Len(u) = Len(s) + Len(t)  BY <1>1
    <3>2. i \in Nat /\ j \in Nat /\ 1 <= i /\ i <= Len(s) /\ 1 <= j /\ j <= Len(t)
      BY <3>1
    <3> QED  BY <3>1, <3>2
  <2>4. u[i] # u[Len(s) + j]  BY <1>1, <1>6, <2>3 DEF Distinct
  <2> QED  BY <1>1, <2>1, <2>2, <2>4
<1>7. Distinct(s) /\ Distinct(t) /\ (\A x \in Elements(t) : x \notin Elements(s)) => Distinct(u)
  BY <1>1, <1>3 DEF Distinct
<1> QED  BY <1>4, <1>5, <1>6, <1>7 DEF u

LEMMA IncreasingConcat ==
  ASSUME NEW s \in Seq(Nat), NEW t \in Seq(Nat)
  PROVE  /\ /\ Increasing(s) /\ Increasing(t)
            /\ \A x \in Elements(s), y \in Elements(t) : x < y
            => Increasing(s \o t)
         /\ Increasing(s \o t) => Increasing(s)
<1> DEFINE u == s \o t
<1>1. /\ u \in Seq(Nat) /\ Len(s) \in Nat /\ Len(t) \in Nat /\ Len(u) = Len(s) + Len(t)
      /\ DOMAIN u = 1..Len(u) /\ DOMAIN s = 1..Len(s) /\ DOMAIN t = 1..Len(t)
      /\ \A i \in 1..Len(s) : u[i] = s[i]
  BY ConcatParts, ElementsOf
<1>2. \A k \in 1..Len(u) :
         \/ k \in 1..Len(s) /\ u[k] = s[k]
         \/ \E i \in 1..Len(t) : k = Len(s) + i /\ u[k] = t[i]
  BY ConcatParts
<1> HIDE DEF u
<1>3. ASSUME Increasing(s), Increasing(t), \A x \in Elements(s), y \in Elements(t) : x < y,
             NEW i \in 1..Len(u), NEW j \in 1..Len(u), i < j
      PROVE  u[i] < u[j]
  <2>1. CASE j \in 1..Len(s)
    <3>1. i \in 1..Len(s)  BY <1>1, <1>3, <2>1
    <3> QED  BY <1>1, <1>3, <2>1, <3>1 DEF Increasing
  <2>2. CASE j \notin 1..Len(s) /\ i \in 1..Len(s)
    <3>1. PICK k \in 1..Len(t) : u[j] = t[k]  BY <1>2, <2>2
    <3>2. u[j] \in Elements(t) /\ u[i] \in Elements(s)  BY <1>1, <2>2, <3>1, ElementsOf
    <3> QED  BY <1>3, <3>2
  <2>3. CASE j \notin 1..Len(s) /\ i \notin 1..Len(s)
    <3>1. PICK k \in 1..Len(t) : j = Len(s) + k /\ u[j] = t[k]  BY <1>2, <2>3
    <3>2. PICK h \in 1..Len(t) : i = Len(s) + h /\ u[i] = t[h]  BY <1>2, <2>3
    <3>3. h < k  BY <1>1, <1>3, <3>1, <3>2
    <3> QED  BY <1>1, <1>3, <3>1, <3>2, <3>3 DEF Increasing
  <2> QED  BY <2>1, <2>2, <2>3
<1>4. ASSUME Increasing(u) PROVE Increasing(s)
  <2>1. ASSUME NEW i \in 1..Len(s), NEW j \in 1..Len(s), i < j PROVE s[i] < s[j]
    <3>1. i \in 1..Len(u) /\ j \in 1..Len(u)  BY <1>1
    <3> QED  BY <1>1, <1>4, <2>1, <3>1 DEF Increasing
  <2> QED  BY <1>1, <2>1 DEF Increasing
<1>5. /\ Increasing(s) /\ Increasing(t)
      /\ \A x \in Elements(s), y \in Elements(t) : x < y
      => Increasing(u)
  BY <1>1, <1>3 DEF Increasing
<1> QED  BY <1>4, <1>5 DEF u

\* A sequence without repetitions has as many elements as places.
LEMMA DistinctCounts ==
  ASSUME NEW s \in Seq(Nat), Distinct(s)
  PROVE  Cardinality(Elements(s)) = Len(s)
<1>1. DOMAIN s = 1..Len(s) /\ Len(s) \in Nat /\ Len(s) \in Int  BY ElementsOf
<1>2. IsFiniteSet(1..Len(s)) /\ Cardinality(1..Len(s)) = Len(s)
  <2>1. /\ IsFiniteSet(1..Len(s))
        /\ Cardinality(1..Len(s)) = IF 1 > Len(s) THEN 0 ELSE Len(s) - 1 + 1
    BY <1>1, 1 \in Int, FS_Interval, Zenon
  <2> QED  BY <1>1, <2>1
<1> DEFINE f == [i \in 1..Len(s) |-> s[i]]
<1>3. f \in [1..Len(s) -> Elements(s)]  BY ElementsOf
<1>4. \A x \in Elements(s) : \E i \in 1..Len(s) : f[i] = x  BY ElementsOf
<1>5. ASSUME NEW i \in 1..Len(s), NEW j \in 1..Len(s), f[i] = f[j] PROVE i = j
  <2>1. i < j \/ j < i \/ i = j  BY <1>1
  <2> QED  BY <1>1, <1>5, <2>1 DEF Distinct
<1>6. f \in Bijection(1..Len(s), Elements(s))
  BY <1>3, <1>4, <1>5 DEF Bijection, Injection, Surjection, IsInjective
<1>7. ExistsBijection(1..Len(s), Elements(s))  BY <1>6 DEF ExistsBijection
<1> QED  BY <1>2, <1>7, FS_Bijection

LEMMA FreshOnes ==
  ASSUME made \in Nat, NEW count \in Nat
  PROVE  /\ Fresh(count) \in Seq(Nat) /\ Len(Fresh(count)) = count
         /\ \A x : x \in Elements(Fresh(count)) <=> x \in made + 1..made + count
         /\ Distinct(Fresh(count)) /\ Increasing(Fresh(count))
<1> DEFINE f == Fresh(count)
<1>1. f = [i \in 1..count |-> made + i] /\ DOMAIN f = 1..count  BY DEF Fresh
<1>2. \A i \in 1..count : f[i] = made + i /\ made + i \in Nat  BY <1>1
<1>3. f \in Seq(Nat) /\ Len(f) = count
  <2>1. f \in [1..count -> Nat]  BY <1>1, <1>2
  <2> QED  BY <1>1, <2>1
<1> HIDE DEF f
<1>4. ASSUME NEW x PROVE x \in Elements(f) <=> x \in made + 1..made + count
  <2>1. x \in made + 1..made + count => x - made \in 1..count /\ x = made + (x - made)
    OBVIOUS
  <2>2. ASSUME NEW i \in 1..count PROVE f[i] \in made + 1..made + count  BY <1>2
  <2> QED  BY <1>2, <1>3, <2>1, <2>2, ElementsOf
<1>5. Distinct(f) /\ Increasing(f)
  BY <1>1, <1>2 DEF Distinct, Increasing
<1> QED  BY <1>3, <1>4, <1>5 DEF f

\* What was emitted or will be, a series under way and what was lost have nothing in
\* common, and together they are what was made.
Kept(out, series, gone, n) ==
  /\ Distinct(out)
  /\ \A r \in series : Distinct(r)
  /\ \A r \in series : \A x \in Elements(r) : x \notin Elements(out) /\ x \notin gone
  /\ \A r, q \in series : r # q => \A x \in Elements(r) : x \notin Elements(q)
  /\ \A x \in Elements(out) : x \notin gone
  /\ \A x : x \in 1..n <=>
               x \in Elements(out) \/ x \in gone \/ \E r \in series : x \in Elements(r)

Series(series) == \A r \in series : r \in Seq(Nat) /\ r # << >>

Emitted == delivered \o taken \o tuples

OutInOrder == {"file", "dir", "process", "continuous", "timer"}
LosesNone == {"file", "dir", "process"}

EmitTypes ==
  /\ spout \in Spouts /\ made \in Nat /\ lines_ahead \in Nat
  /\ tuples \in Seq(Nat) /\ taken \in Seq(Nat) /\ delivered \in Seq(Nat)
  /\ lines_ahead > 0 => spout = "file"
  /\ taken # << >> => spout = "file"
  /\ spout = "bolt" => tuples = << >>
  /\ Series(requests)

\* Of what was made and is under way, nothing is made twice: the inductive invariant
\* behind EmittedInOrder.
EmitIInv ==
  /\ EmitTypes
  /\ Kept(Emitted, requests, lost, made)
  /\ spout \in OutInOrder => Increasing(Emitted)
  /\ spout \in LosesNone => lost = {}

\* New ones are queued.
LEMMA KeptWhenQueued ==
  ASSUME made \in Nat, NEW count \in Nat, NEW out \in Seq(Nat), NEW series, NEW gone,
         Series(series), Kept(out, series, gone, made)
  PROVE  /\ Kept(out \o Fresh(count), series, gone, made + count)
         /\ Increasing(out) => Increasing(out \o Fresh(count))
<1> DEFINE f == Fresh(count)
<1>1. /\ f \in Seq(Nat) /\ Distinct(f) /\ Increasing(f)
      /\ \A x : x \in Elements(f) <=> x \in made + 1..made + count
  BY FreshOnes
<1> HIDE DEF f
<1>2. \A x : x \in Elements(out \o f) <=> x \in Elements(out) \/ x \in Elements(f)
  BY <1>1, ElementsOfConcat
<1>3. \A x : ~(x \in 1..made /\ x \in Elements(f))  BY <1>1
<1>4. \A x : x \in 1..made + count <=> x \in 1..made \/ x \in Elements(f)
  BY <1>1
<1>5. Distinct(out \o f)
  BY <1>1, <1>3, DistinctConcat DEF Kept
<1>6. Increasing(out) => Increasing(out \o f)
  <2>1. \A x \in Elements(out), y \in Elements(f) : x < y  BY <1>1 DEF Kept
  <2> QED  BY <1>1, <2>1, IncreasingConcat
<1>7. Kept(out \o f, series, gone, made + count)
  BY <1>2, <1>3, <1>4, <1>5, Zenon DEF Kept
<1> QED  BY <1>6, <1>7 DEF f

\* New ones are under way.
LEMMA KeptWhenCalled ==
  ASSUME made \in Nat, NEW count \in Nat \ {0}, NEW out, NEW series, NEW gone,
         Series(series), Kept(out, series, gone, made)
  PROVE  /\ Kept(out, series \cup {Fresh(count)}, gone, made + count)
         /\ Series(series \cup {Fresh(count)})
<1> DEFINE f == Fresh(count)
<1>1. /\ f \in Seq(Nat) /\ Distinct(f) /\ Len(f) = count
      /\ \A x : x \in Elements(f) <=> x \in made + 1..made + count
  BY FreshOnes
<1> HIDE DEF f
<1>2. f # << >>  BY <1>1
<1>3. \A x : ~(x \in 1..made /\ x \in Elements(f))  BY <1>1
<1>4. \A x : x \in 1..made + count <=> x \in 1..made \/ x \in Elements(f)
  BY <1>1
<1>5. Series(series \cup {f})  BY <1>1, <1>2 DEF Series
<1>6. Kept(out, series \cup {f}, gone, made + count)
  <2>1. /\ Distinct(out) /\ \A r \in series \cup {f} : Distinct(r)
        /\ \A x \in Elements(out) : x \notin gone
    BY <1>1 DEF Kept
  <2>2. \A r \in series \cup {f} : \A x \in Elements(r) : x \notin Elements(out) /\ x \notin gone
    BY <1>3 DEF Kept
  <2>3. \A r, q \in series \cup {f} : r # q => \A x \in Elements(r) : x \notin Elements(q)
    BY <1>3 DEF Kept
  <2>4. ASSUME NEW x
        PROVE  x \in 1..made + count <=>
                 \/ x \in Elements(out) \/ x \in gone
                 \/ \E r \in series \cup {f} : x \in Elements(r)
    BY <1>4 DEF Kept
  <2> QED  BY <2>1, <2>2, <2>3, <2>4 DEF Kept
<1> QED  BY <1>5, <1>6 DEF f

\* A new one is refused.
LEMMA KeptWhenRefused ==
  ASSUME NEW n \in Nat, NEW out, NEW series, NEW gone, Kept(out, series, gone, n)
  PROVE  Kept(out, series, gone \cup {n + 1}, n + 1)
<1>1. \A x : x \in 1..n + 1 <=> x \in 1..n \/ x = n + 1  OBVIOUS
<1>2. n + 1 \notin 1..n  OBVIOUS
<1> QED  BY <1>1, <1>2 DEF Kept

\* The next one is a line that is cut, or there is no such line.
LEMMA KeptWhenCut ==
  ASSUME NEW n \in Nat, NEW cut \in 0..1, NEW out, NEW series, NEW gone,
         Kept(out, series, gone, n)
  PROVE  Kept(out, series, gone \cup {n + i : i \in 1..cut}, n + cut)
<1>1. CASE cut = 0
  <2>1. {n + i : i \in 1..cut} = {} /\ n + cut = n  BY <1>1
  <2> QED  BY <2>1
<1>2. CASE cut = 1
  <2>1. {n + i : i \in 1..cut} = {n + 1}  BY <1>2
  <2> QED  BY <1>2, <2>1, KeptWhenRefused
<1> QED  BY <1>1, <1>2

\* A series that was under way is queued.
LEMMA KeptWhenItEnds ==
  ASSUME NEW n, NEW out \in Seq(Nat), NEW series, NEW gone, NEW r \in series,
         Series(series), Kept(out, series, gone, n)
  PROVE  Kept(out \o r, series \ {r}, gone, n) /\ Series(series \ {r})
<1>1. r \in Seq(Nat)  BY DEF Series
<1>2. \A x : x \in Elements(out \o r) <=> x \in Elements(out) \/ x \in Elements(r)
  BY <1>1, ElementsOfConcat
<1>3. Distinct(out \o r)  BY <1>1, DistinctConcat DEF Kept
<1>4. /\ \A q \in series \ {r} : Distinct(q)
      /\ \A x \in Elements(out \o r) : x \notin gone
  BY <1>2 DEF Kept
<1>5. \A q \in series \ {r} : \A x \in Elements(q) : x \notin Elements(out \o r) /\ x \notin gone
  BY <1>2 DEF Kept
<1>6. \A p, q \in series \ {r} : p # q => \A x \in Elements(p) : x \notin Elements(q)
  BY DEF Kept
<1>7. ASSUME NEW x
      PROVE  x \in 1..n <=> \/ x \in Elements(out \o r) \/ x \in gone
                            \/ \E q \in series \ {r} : x \in Elements(q)
  BY <1>2 DEF Kept
<1> QED  BY <1>3, <1>4, <1>5, <1>6, <1>7 DEF Kept, Series

\* A series fails.
LEMMA KeptWhenItFails ==
  ASSUME NEW n, NEW out, NEW series, NEW gone, NEW r \in series,
         Series(series), Kept(out, series, gone, n)
  PROVE  Kept(out, series \ {r}, gone \cup Elements(r), n) /\ Series(series \ {r})
<1>1. ASSUME NEW x
      PROVE  x \in 1..n <=> \/ x \in Elements(out) \/ x \in gone \cup Elements(r)
                            \/ \E q \in series \ {r} : x \in Elements(q)
  BY DEF Kept
<1>2. \A q \in series \ {r} : \A x \in Elements(q) :
        x \notin Elements(out) /\ x \notin gone \cup Elements(r)
  BY DEF Kept
<1> QED  BY <1>1, <1>2 DEF Kept, Series

\* The first of a series is emitted.
LEMMA KeptWhenOneIsEmitted ==
  ASSUME NEW n, NEW out \in Seq(Nat), NEW series, NEW gone, NEW r \in series,
         Series(series), Kept(out, series, gone, n),
         NEW after, after = (series \ {r}) \cup (IF Len(r) > 1 THEN {Tail(r)} ELSE {})
  PROVE  Kept(Append(out, r[1]), after, gone, n) /\ Series(after)
<1>1. /\ r \in Seq(Nat) /\ r # << >> /\ Len(r) \in Nat \ {0} /\ r[1] \in Nat
      /\ <<r[1]>> \in Seq(Nat)
  BY EmptySeq DEF Series
<1>2. /\ Tail(r) \in Seq(Nat) /\ Len(Tail(r)) = Len(r) - 1 /\ r = <<r[1]>> \o Tail(r)
      /\ Append(out, r[1]) = out \o <<r[1]>> /\ Append(out, r[1]) \in Seq(Nat)
      /\ Tail(r) = << >> <=> ~(Len(r) > 1)
  <2>1. /\ Tail(r) \in Seq(Nat) /\ Len(Tail(r)) = Len(r) - 1
        /\ \A i \in 1..Len(r) - 1 : Tail(r)[i] = r[i + 1]
    BY <1>1
  <2>2. r = <<r[1]>> \o Tail(r)
    <3> DEFINE u == <<r[1]>> \o Tail(r)
    <3>1. u \in Seq(Nat) /\ Len(u) = Len(r)  BY <1>1, <2>1
    <3>2. ASSUME NEW i \in 1..Len(r) PROVE r[i] = u[i]
      BY <1>1, <2>1
    <3> QED  BY <1>1, <3>1, <3>2, SeqEqual
  <2>3. Append(out, r[1]) = out \o <<r[1]>> /\ Append(out, r[1]) \in Seq(Nat)
    BY <1>1
  <2>4. ASSUME Tail(r) = << >> PROVE ~(Len(r) > 1)
    <3> DEFINE m == Len(r)
               k == Len(Tail(r))
    <3>1. k = 0  BY <2>4, EmptySeq
    <3>2. m \in Nat /\ k = m - 1  BY <1>1, <2>1
    <3> HIDE DEF m, k
    <3>3. ~(m > 1)  BY <3>1, <3>2
    <3> QED  BY <3>3 DEF m
  <2>5. ~(Len(r) > 1) => Tail(r) = << >>  BY <1>1, <2>1, EmptySeq
  <2> QED  BY <2>1, <2>2, <2>3, <2>4, <2>5, Zenon
<1>3. \A x : x \in Elements(<<r[1]>>) <=> x = r[1]
  BY <1>1 DEF Elements
<1>4. \A x : x \in Elements(r) <=> x = r[1] \/ x \in Elements(Tail(r))
  BY <1>1, <1>2, <1>3, ElementsOfConcat
<1>5. /\ Distinct(Tail(r)) /\ Distinct(<<r[1]>>) /\ r[1] \notin Elements(Tail(r))
  <2>1. Distinct(<<r[1]>> \o Tail(r))  BY <1>2 DEF Kept
  <2> QED  BY <1>1, <1>2, <1>3, <2>1, DistinctConcat
<1>6. \A x : x \in Elements(Append(out, r[1])) <=> x \in Elements(out) \/ x = r[1]
  BY <1>1, <1>2, <1>3, ElementsOfConcat
<1>7. Distinct(Append(out, r[1]))
  <2>1. r[1] \notin Elements(out)  BY <1>4 DEF Kept
  <2>2. Distinct(out) /\ Distinct(<<r[1]>>) /\ \A x \in Elements(<<r[1]>>) : x \notin Elements(out)
    BY <1>3, <1>5, <2>1 DEF Kept
  <2>3. Distinct(out \o <<r[1]>>)  BY <1>1, <2>2, DistinctConcat
  <2> QED  BY <1>2, <2>3
<1>8. \A x : x \in Elements(Tail(r)) => Len(r) > 1
  <2>1. Elements(<< >>) = {}  BY DEF Elements
  <2> QED  BY <1>2, <2>1
<1>9. \A q : q \in after <=> (q \in series /\ q # r) \/ (q = Tail(r) /\ Len(r) > 1)
  <2>1. CASE Len(r) > 1  BY <2>1
  <2>2. CASE ~(Len(r) > 1)  BY <2>2
  <2> QED  BY <2>1, <2>2
<1>10. Series(after)  BY <1>2, <1>9 DEF Series
<1> DEFINE new == Append(out, r[1])
<1> HIDE DEF new
<1>11. Kept(new, after, gone, n)
  <2>1. /\ Distinct(new) /\ \A q \in after : Distinct(q)
        /\ \A x \in Elements(new) : x \notin gone
    BY <1>4, <1>5, <1>6, <1>7, <1>9 DEF Kept, new
  <2>2. \A q \in after : \A x \in Elements(q) : x \notin Elements(new) /\ x \notin gone
    BY <1>4, <1>5, <1>6, <1>9 DEF Kept, new
  <2>3. \A p, q \in after : p # q => \A x \in Elements(p) : x \notin Elements(q)
    BY <1>4, <1>9 DEF Kept
  <2>4. ASSUME NEW x
        PROVE  x \in 1..n <=> \/ x \in Elements(new) \/ x \in gone
                              \/ \E q \in after : x \in Elements(q)
    <3>1. (\E q \in series : x \in Elements(q)) <=>
             \/ x = r[1] \/ \E q \in after : x \in Elements(q)
      <4>1. ASSUME NEW q \in series, x \in Elements(q)
            PROVE  x = r[1] \/ \E p \in after : x \in Elements(p)
        BY <1>4, <1>8, <1>9, <4>1
      <4>2. x = r[1] => \E q \in series : x \in Elements(q)  BY <1>4
      <4>3. ASSUME NEW p \in after, x \in Elements(p)
            PROVE  \E q \in series : x \in Elements(q)
        BY <1>4, <1>9, <4>3
      <4> QED  BY <4>1, <4>2, <4>3
    <3> QED  BY <1>6, <3>1 DEF Kept, new
  <2> QED  BY <2>1, <2>2, <2>3, <2>4 DEF Kept
<1> QED  BY <1>10, <1>11 DEF new

\* The end of what was emitted or queued is lost.
LEMMA KeptWhenDropped ==
  ASSUME NEW n, NEW s \in Seq(Nat), NEW t \in Seq(Nat), NEW series, NEW gone,
         Kept(s \o t, series, gone, n)
  PROVE  /\ Kept(s, series, gone \cup Elements(t), n)
         /\ Increasing(s \o t) => Increasing(s)
<1>1. \A x : x \in Elements(s \o t) <=> x \in Elements(s) \/ x \in Elements(t)
  BY ElementsOfConcat
<1>2. Distinct(s) /\ \A x \in Elements(t) : x \notin Elements(s)
  BY DistinctConcat DEF Kept
<1>3. Increasing(s \o t) => Increasing(s)  BY IncreasingConcat
<1>4. Kept(s, series, gone \cup Elements(t), n)
  <2>1. \A x \in Elements(s) : x \notin gone \cup Elements(t)  BY <1>1, <1>2 DEF Kept
  <2>2. \A r \in series : \A x \in Elements(r) :
          x \notin Elements(s) /\ x \notin gone \cup Elements(t)
    BY <1>1 DEF Kept
  <2>3. ASSUME NEW x
        PROVE  x \in 1..n <=> \/ x \in Elements(s) \/ x \in gone \cup Elements(t)
                              \/ \E r \in series : x \in Elements(r)
    BY <1>1 DEF Kept
  <2> QED  BY <1>2, <2>1, <2>2, <2>3 DEF Kept
<1> QED  BY <1>3, <1>4

\* What next() takes from the queue is still to be emitted, or emitted.
LEMMA TakenIsEmitted ==
  ASSUME NEW d \in Seq(Nat), NEW s \in Seq(Nat), s # << >>
  PROVE  /\ (d \o << >>) \o s = (d \o <<s[1]>>) \o Tail(s)
         /\ (d \o << >>) \o s = (Append(d, s[1]) \o << >>) \o Tail(s)
         /\ Tail(s) \in Seq(Nat) /\ <<s[1]>> \in Seq(Nat) /\ Append(d, s[1]) \in Seq(Nat)
<1>1. /\ s[1] \in Nat /\ <<s[1]>> \in Seq(Nat) /\ Tail(s) \in Seq(Nat)
      /\ Len(s) \in Nat \ {0} /\ Len(Tail(s)) = Len(s) - 1
      /\ \A i \in 1..Len(s) - 1 : Tail(s)[i] = s[i + 1]
  BY EmptySeq
<1>2. <<s[1]>> \o Tail(s) = s
  <2> DEFINE u == <<s[1]>> \o Tail(s)
  <2>1. u \in Seq(Nat) /\ Len(u) = Len(s)  BY <1>1
  <2>2. \A i \in 1..Len(s) : u[i] = s[i]  BY <1>1
  <2> QED  BY <2>1, <2>2, SeqEqual
<1>3. d \o << >> = d  BY ConcatEmptySeq
<1>4. (d \o <<s[1]>>) \o Tail(s) = d \o s  BY <1>1, <1>2, ConcatAssociative, SMTT(30)
<1>5. Append(d, s[1]) = d \o <<s[1]>> /\ Append(d, s[1]) \in Seq(Nat)  BY <1>1
<1>6. Append(d, s[1]) \o << >> = Append(d, s[1])  BY <1>5, ConcatEmptySeq
<1> QED  BY <1>1, <1>3, <1>4, <1>5, <1>6

LEMMA ConcatInAnyOrder ==
  ASSUME NEW s \in Seq(Nat), NEW t \in Seq(Nat), NEW u \in Seq(Nat)
  PROVE  (s \o t) \o u = s \o (t \o u)
BY ConcatAssociative, SMTT(30)

LEMMA EmittedIsASeq ==
  ASSUME EmitTypes
  PROVE  /\ Emitted \in Seq(Nat) /\ delivered \o taken \in Seq(Nat)
         /\ Emitted = (delivered \o taken) \o tuples
<1>1. delivered \in Seq(Nat) /\ taken \in Seq(Nat) /\ tuples \in Seq(Nat)  BY DEF EmitTypes
<1>2. delivered \o taken \in Seq(Nat)  BY <1>1, ConcatParts
<1> QED  BY <1>1, <1>2, ConcatParts DEF Emitted

\* The steps that queue new ones; of the process that goes on, a line may be cut.
LEMMA QueueKeeps ==
  ASSUME EmitIInv, NEW count \in Nat, NEW cut \in 0..1, cut = 1 => spout = "continuous",
         tuples' = tuples \o Fresh(count), made' = made + count + cut,
         lost' = lost \cup {made + count + i : i \in 1..cut}, spout # "bolt", spout' = spout,
         UNCHANGED <<requests, taken, delivered>>, lines_ahead' \in Nat,
         lines_ahead' <= lines_ahead
  PROVE  EmitIInv'
<1> DEFINE f == Fresh(count)
<1>1. EmitTypes /\ Kept(Emitted, requests, lost, made)  BY DEF EmitIInv
<1>2. /\ tuples' = tuples \o f /\ made + count \in Nat /\ made' \in Nat /\ f \in Seq(Nat)
  BY <1>1, FreshOnes DEF EmitTypes
<1> HIDE DEF f
<1>3. EmitTypes'
  <2>1. tuples' \in Seq(Nat)  BY <1>1, <1>2, ConcatParts DEF EmitTypes
  <2>2. lines_ahead' > 0 => lines_ahead > 0  BY <1>1 DEF EmitTypes
  <2> QED  BY <1>1, <1>2, <2>1, <2>2 DEF EmitTypes
<1>4. Emitted' = Emitted \o f
  <2> DEFINE before == delivered \o taken
  <2>1. Emitted' = before \o (tuples \o f)  BY <1>2 DEF Emitted
  <2>2. before \in Seq(Nat) /\ tuples \in Seq(Nat) /\ Emitted = before \o tuples
    BY <1>1, EmittedIsASeq DEF EmitTypes
  <2> HIDE DEF before
  <2>3. (before \o tuples) \o f = before \o (tuples \o f)
    BY <1>2, <2>2, ConcatInAnyOrder, Zenon
  <2> QED  BY <2>1, <2>2, <2>3
<1>5. /\ Kept(Emitted \o f, requests, lost, made + count)
      /\ Increasing(Emitted) => Increasing(Emitted \o f)
  BY <1>1, EmittedIsASeq, KeptWhenQueued DEF EmitTypes, f
<1>6. Kept(Emitted', requests', lost', made')  BY <1>2, <1>4, <1>5, KeptWhenCut
<1>7. spout' \in LosesNone => lost' = {}
  <2> SUFFICES ASSUME spout \in LosesNone PROVE lost' = {}
    OBVIOUS
  <2>1. cut = 0 /\ lost = {}  BY DEF EmitIInv, LosesNone
  <2> QED  BY <2>1
<1> QED  BY <1>3, <1>4, <1>5, <1>6, <1>7 DEF EmitIInv

LEMMA PushKeeps ==
  ASSUME EmitIInv, NEW count \in Nat, Push(Fresh(count)), spout # "bolt", spout' = spout,
         UNCHANGED <<requests, taken, delivered>>, lines_ahead' \in Nat,
         lines_ahead' <= lines_ahead
  PROVE  EmitIInv'
<1> DEFINE none == 0
<1>1. made \in Nat  BY DEF EmitIInv, EmitTypes
<1>2. /\ tuples' = tuples \o Fresh(count) /\ made' = made + count + none
      /\ lost' = lost \cup {made + count + i : i \in 1..none}
  <2>1. Len(Fresh(count)) = count  BY <1>1, FreshOnes
  <2>2. 1..none = {}  OBVIOUS
  <2> QED  BY <1>1, <2>1, <2>2 DEF Push
<1>3. none \in 0..1 /\ none # 1  OBVIOUS
<1> HIDE DEF none
<1> QED  BY <1>2, <1>3, QueueKeeps

\* The steps that replace the queue by new ones.
LEMMA ReplaceKeeps ==
  ASSUME EmitIInv, NEW count \in Nat, Replace(Fresh(count)), spout \in {"timer", "continuous"},
         UNCHANGED <<spout, requests, taken, delivered, lines_ahead>>
  PROVE  EmitIInv'
<1> DEFINE f == Fresh(count)
           before == delivered \o taken
<1>1. EmitTypes /\ Kept(Emitted, requests, lost, made) /\ Increasing(Emitted)
  BY DEF EmitIInv, OutInOrder
<1>2. /\ tuples' = f /\ made' = made + count /\ f \in Seq(Nat)
      /\ lost' = lost \cup Elements(tuples)
  BY <1>1, FreshOnes DEF Replace, EmitTypes
<1> HIDE DEF f
<1>3. EmitTypes'  BY <1>1, <1>2 DEF EmitTypes
<1>4. Emitted' = before \o f  BY <1>2 DEF Emitted
<1>5. /\ Kept(before, requests, lost', made) /\ Increasing(before)
  <2>1. before \in Seq(Nat) /\ tuples \in Seq(Nat) /\ Emitted = before \o tuples
    BY <1>1, EmittedIsASeq DEF EmitTypes
  <2> HIDE DEF before
  <2>2. /\ Kept(before \o tuples, requests, lost, made) /\ Increasing(before \o tuples)
    BY <1>1, <2>1
  <2> QED  BY <1>2, <2>1, <2>2, KeptWhenDropped
<1>6. /\ Kept(before \o f, requests, lost', made + count) /\ Increasing(before \o f)
  <2>1. before \in Seq(Nat) /\ made \in Nat /\ Series(requests)
    BY <1>1, EmittedIsASeq DEF EmitTypes
  <2> QED  BY <1>5, <2>1, KeptWhenQueued DEF f
<1>7. Kept(Emitted', requests', lost', made')  BY <1>2, <1>4, <1>6
<1> QED  BY <1>3, <1>4, <1>6, <1>7 DEF EmitIInv, LosesNone

\* The steps that ask for new ones, or emit them in a series of their own.
LEMMA AsksKeep ==
  ASSUME EmitIInv, NEW count \in Nat \ {0}, NEW cut \in 0..1, cut = 1 => spout = "bolt",
         UNCHANGED <<spout, tuples, lines_ahead, taken, delivered>>,
         requests' = requests \cup {Fresh(count)}, made' = made + count + cut,
         lost' = lost \cup {made + count + i : i \in 1..cut}
  PROVE  EmitIInv'
<1>1. /\ EmitTypes /\ Kept(Emitted, requests, lost, made) /\ made \in Nat
      /\ Series(requests) /\ made + count \in Nat /\ made' \in Nat
  BY DEF EmitIInv, EmitTypes
<1>2. Kept(Emitted, requests', lost, made + count) /\ Series(requests')
  BY <1>1, KeptWhenCalled
<1>3. Kept(Emitted, requests', lost', made')
  BY <1>1, <1>2, KeptWhenCut
<1>4. Emitted' = Emitted  BY DEF Emitted
<1>5. EmitTypes'  BY <1>1, <1>2 DEF EmitTypes
<1>6. spout' \in LosesNone => lost' = {}
  <2> SUFFICES ASSUME spout \in LosesNone PROVE lost' = {}
    OBVIOUS
  <2>1. cut = 0 /\ lost = {}  BY DEF EmitIInv, LosesNone
  <2> QED  BY <2>1
<1> QED  BY <1>3, <1>4, <1>5, <1>6 DEF EmitIInv

LEMMA CallsKeep ==
  ASSUME EmitIInv, NEW count \in Nat \ {0}, Calls(count)
  PROVE  EmitIInv'
<1> DEFINE none == 0
<1>1. made \in Nat /\ 1..none = {}  BY DEF EmitIInv, EmitTypes
<1>2. /\ UNCHANGED <<spout, tuples, lines_ahead, taken, delivered>>
      /\ requests' = requests \cup {Fresh(count)} /\ made' = made + count + none
      /\ lost' = lost \cup {made + count + i : i \in 1..none}
  BY <1>1 DEF Calls
<1>3. none \in 0..1 /\ none # 1  OBVIOUS
<1> HIDE DEF none
<1> QED  BY <1>2, <1>3, AsksKeep

\* The steps that parse what a process writes.
LEMMA WritesKeep == ASSUME EmitIInv, ProcessWrites \/ HandleNewData PROVE EmitIInv'
<1>1. lines_ahead \in Nat  BY DEF EmitIInv, EmitTypes
<1>2. CASE ProcessWrites
  <2>1. PICK count \in 0..2, cut \in 0..1 :
          Parses(count, cut) /\ tuples' = tuples \o Fresh(count)
    BY <1>2 DEF ProcessWrites
  <2>2. /\ spout = "continuous" /\ UNCHANGED <<spout, requests, taken, delivered, lines_ahead>>
    BY <1>2 DEF ProcessWrites, NothingElse
  <2>3. /\ made' = made + count + cut /\ lost' = lost \cup {made + count + i : i \in 1..cut}
    BY <2>1 DEF Parses
  <2>4. /\ count \in Nat /\ spout # "bolt" /\ spout' = spout
        /\ lines_ahead' \in Nat /\ lines_ahead' <= lines_ahead
    BY <1>1, <2>2
  <2>5. UNCHANGED <<requests, taken, delivered>>  BY <2>2
  <2> QED  BY <2>1, <2>2, <2>3, <2>4, <2>5, QueueKeeps
<1>3. CASE HandleNewData
  <2>1. PICK count \in 1..2, cut \in 0..1 :
          Parses(count, cut) /\ requests' = requests \cup {Fresh(count)}
    BY <1>3 DEF HandleNewData
  <2>2. spout = "bolt" /\ UNCHANGED <<spout, tuples, lines_ahead, taken, delivered>>
    BY <1>3 DEF HandleNewData
  <2>3. /\ made' = made + count + cut /\ lost' = lost \cup {made + count + i : i \in 1..cut}
    BY <2>1 DEF Parses
  <2> QED  BY <2>1, <2>2, <2>3, AsksKeep
<1> QED  BY <1>2, <1>3

LEMMA RequestKeeps == ASSUME EmitIInv, Request PROVE EmitIInv'
<1>1. /\ EmitTypes /\ Kept(Emitted, requests, lost, made) /\ made \in Nat
      /\ Series(requests)
  BY DEF EmitIInv, EmitTypes
<1>2. /\ UNCHANGED <<spout, tuples, lines_ahead, taken, delivered>> /\ spout = "rest"
      /\ made' = made + 1
      /\ \/ requests' = requests \cup {<<made'>>} /\ lost' = lost
         \/ requests' = requests /\ lost' = lost \cup {made'}
  BY DEF Request
<1>3. Kept(Emitted, requests', lost', made') /\ Series(requests')
  <2>1. CASE requests' = requests \cup {<<made'>>} /\ lost' = lost
    <3>1. Fresh(1) = <<made'>>  BY <1>2 DEF Fresh
    <3> QED  BY <1>1, <1>2, <2>1, <3>1, KeptWhenCalled
  <2>2. CASE requests' = requests /\ lost' = lost \cup {made'}
    BY <1>1, <1>2, <2>2, KeptWhenRefused
  <2> QED  BY <1>2, <2>1, <2>2
<1>4. Emitted' = Emitted  BY <1>2 DEF Emitted
<1>5. EmitTypes'  BY <1>1, <1>2, <1>3 DEF EmitTypes
<1> QED  BY <1>2, <1>3, <1>4, <1>5 DEF EmitIInv, OutInOrder, LosesNone

\* A request or crawl that ends is queued.
LEMMA EndsKeep ==
  ASSUME EmitIInv, NEW r \in requests, spout \in {"rest", "rss"},
         tuples' = tuples \o r, requests' = requests \ {r},
         UNCHANGED <<spout, lines_ahead, made, lost, taken, delivered>>
  PROVE  EmitIInv'
<1>1. /\ EmitTypes /\ Kept(Emitted, requests, lost, made) /\ Series(requests)
      /\ tuples \in Seq(Nat) /\ r \in Seq(Nat)
  BY DEF EmitIInv, EmitTypes, Series
<1>2. Kept(Emitted \o r, requests', lost, made) /\ Series(requests')
  BY <1>1, EmittedIsASeq, KeptWhenItEnds
<1>3. Emitted' = Emitted \o r
  <2> DEFINE before == delivered \o taken
  <2>1. Emitted' = before \o (tuples \o r)  BY DEF Emitted
  <2>2. before \in Seq(Nat) /\ Emitted = before \o tuples
    BY <1>1, EmittedIsASeq DEF EmitTypes
  <2> HIDE DEF before
  <2>3. (before \o tuples) \o r = before \o (tuples \o r)
    BY <1>1, <2>2, ConcatInAnyOrder, Zenon
  <2> QED  BY <2>1, <2>2, <2>3
<1>4. EmitTypes'
  <2>1. tuples' \in Seq(Nat)  BY <1>1, ConcatParts
  <2> QED  BY <1>1, <1>2, <2>1 DEF EmitTypes
<1> QED  BY <1>2, <1>3, <1>4 DEF EmitIInv, OutInOrder, LosesNone

\* A call of GetSpout replaces what is there.
LEMMA GetCallEndsKeeps == ASSUME EmitIInv, NEW r \in requests, GetCallEnds(r) PROVE EmitIInv'
<1> DEFINE before == delivered \o taken
<1>1. /\ EmitTypes /\ Kept(Emitted, requests, lost, made) /\ Series(requests)
      /\ tuples \in Seq(Nat) /\ r \in Seq(Nat) /\ before \in Seq(Nat)
      /\ Emitted = before \o tuples
  BY EmittedIsASeq DEF EmitIInv, EmitTypes, Series
<1>2. /\ spout = "get" /\ UNCHANGED <<spout, lines_ahead, made, taken, delivered>>
      /\ tuples' = r /\ requests' = requests \ {r} /\ lost' = lost \cup Elements(tuples)
  BY DEF GetCallEnds
<1>3. Kept(before, requests, lost', made)  BY <1>1, <1>2, KeptWhenDropped
<1>4. Kept(before \o r, requests', lost', made) /\ Series(requests')
  BY <1>1, <1>2, <1>3, KeptWhenItEnds
<1>5. Emitted' = before \o r  BY <1>2 DEF Emitted
<1>6. EmitTypes'  BY <1>1, <1>2, <1>4 DEF EmitTypes
<1> QED  BY <1>2, <1>4, <1>5, <1>6 DEF EmitIInv, OutInOrder, LosesNone

\* A call that fails, or a request whose body cannot be parsed, is lost.
LEMMA FailuresKeep ==
  ASSUME EmitIInv, NEW r \in requests, spout \in {"rest", "rss", "get"},
         UNCHANGED <<spout, tuples, lines_ahead, made, taken, delivered>>,
         requests' = requests \ {r}, lost' = lost \cup Elements(r)
  PROVE  EmitIInv'
<1>1. /\ EmitTypes /\ Kept(Emitted, requests, lost, made) /\ Series(requests)
  BY DEF EmitIInv, EmitTypes
<1>2. Kept(Emitted, requests', lost', made') /\ Series(requests')
  BY <1>1, KeptWhenItFails
<1>3. Emitted' = Emitted  BY DEF Emitted
<1>4. EmitTypes'  BY <1>1, <1>2 DEF EmitTypes
<1> QED  BY <1>2, <1>3, <1>4 DEF EmitIInv, OutInOrder, LosesNone

LEMMA SeriesEmitsKeeps == ASSUME EmitIInv, NEW r \in requests, SeriesEmits(r) PROVE EmitIInv'
<1>1. /\ EmitTypes /\ Kept(Emitted, requests, lost, made) /\ Series(requests)
      /\ delivered \in Seq(Nat)
  BY DEF EmitIInv, EmitTypes
<1>2. /\ spout = "bolt" /\ UNCHANGED <<spout, tuples, lines_ahead, made, lost, taken>>
      /\ delivered' = Append(delivered, r[1])
      /\ requests' = (requests \ {r}) \cup (IF Len(r) > 1 THEN {Tail(r)} ELSE {})
      /\ tuples = << >> /\ taken = << >>
  BY <1>1 DEF SeriesEmits, EmitTypes
<1>3. Emitted = delivered
  <2>1. delivered \o << >> = delivered  BY <1>1, ConcatEmptySeq
  <2> QED  BY <1>2, <2>1 DEF Emitted
<1>4. /\ Kept(Append(delivered, r[1]), requests', lost, made) /\ Series(requests')
  BY <1>1, <1>2, <1>3, KeptWhenOneIsEmitted
<1>5. delivered' \in Seq(Nat)
  <2>1. r[1] \in Nat  BY <1>1, EmptySeq DEF Series
  <2> QED  BY <1>1, <1>2, <2>1
<1>6. Emitted' = delivered'
  <2>1. delivered' \o << >> = delivered'  BY <1>5, ConcatEmptySeq
  <2> QED  BY <1>2, <2>1 DEF Emitted
<1>7. EmitTypes'  BY <1>1, <1>2, <1>4, <1>5 DEF EmitTypes
<1> QED  BY <1>1, <1>2, <1>4, <1>6, <1>7 DEF EmitIInv, OutInOrder, LosesNone

\* The steps that move what is emitted, or nothing.
SameTuples == /\ UNCHANGED <<spout, requests, made, lost>> /\ Emitted' = Emitted
              /\ tuples' \in Seq(Nat) /\ taken' \in Seq(Nat) /\ delivered' \in Seq(Nat)
              /\ lines_ahead' \in Nat /\ (lines_ahead' > 0 => spout = "file")
              /\ (taken' # << >> => spout = "file") /\ (spout = "bolt" => tuples' = << >>)

LEMMA SameTuplesKeep == ASSUME EmitIInv, SameTuples PROVE EmitIInv'
<1>1. EmitTypes'  BY DEF EmitIInv, EmitTypes, SameTuples
<1> QED  BY <1>1 DEF EmitIInv, SameTuples

LEMMA MovesKeep ==
  ASSUME EmitIInv, SpoutNextCall \/ NextAnswered
  PROVE  EmitIInv'
<1>1. EmitTypes  BY DEF EmitIInv
<1>2. /\ delivered \in Seq(Nat) /\ taken \in Seq(Nat) /\ tuples \in Seq(Nat)
      /\ lines_ahead \in Nat /\ (lines_ahead > 0 => spout = "file")
  BY <1>1 DEF EmitTypes
<1>3. CASE SpoutNextCall
  <2>1. /\ taken = << >> /\ tuples # << >> /\ tuples' = Tail(tuples)
        /\ UNCHANGED <<spout, lines_ahead, requests, made, lost>>
        /\ \/ spout = "file" /\ taken' = <<tuples[1]>> /\ delivered' = delivered
           \/ spout # "file" /\ delivered' = Append(delivered, tuples[1]) /\ taken' = << >>
    BY <1>3 DEF SpoutNextCall, RemoveFirst
  <2>2. spout # "bolt"  BY <1>1, <2>1 DEF EmitTypes
  <2>3. Emitted' = Emitted
    <3> DEFINE e == (delivered \o << >>) \o tuples
    <3>1. /\ e = (delivered \o <<tuples[1]>>) \o Tail(tuples)
          /\ e = (Append(delivered, tuples[1]) \o << >>) \o Tail(tuples)
      BY <1>2, <2>1, TakenIsEmitted
    <3>2. Emitted = e  BY <2>1 DEF Emitted
    <3>3. Emitted' = (delivered' \o taken') \o tuples'  BY DEF Emitted
    <3> HIDE DEF e
    <3>4. CASE taken' = <<tuples[1]>> /\ delivered' = delivered
      BY <2>1, <3>1, <3>2, <3>3, <3>4, Zenon
    <3>5. CASE delivered' = Append(delivered, tuples[1]) /\ taken' = << >>
      BY <2>1, <3>1, <3>2, <3>3, <3>5, Zenon
    <3> QED  BY <2>1, <3>4, <3>5
  <2>4. tuples' \in Seq(Nat) /\ taken' \in Seq(Nat) /\ delivered' \in Seq(Nat)
    BY <1>2, <2>1, TakenIsEmitted
  <2>5. SameTuples  BY <1>2, <2>1, <2>2, <2>3, <2>4 DEF SameTuples
  <2> QED  BY <2>5, SameTuplesKeep
<1>4. CASE NextAnswered
  <2>1. /\ delivered' = delivered \o taken /\ taken' = << >>
        /\ UNCHANGED <<spout, tuples, lines_ahead, requests, made, lost>>
    BY <1>4 DEF NextAnswered
  <2>2. delivered \o taken \in Seq(Nat)  BY <1>1, EmittedIsASeq
  <2>3. Emitted' = Emitted
    <3>1. (delivered \o taken) \o << >> = delivered \o taken  BY <2>2, ConcatEmptySeq
    <3> QED  BY <2>1, <3>1 DEF Emitted
  <2>4. SameTuples  BY <1>1, <1>2, <2>1, <2>2, <2>3 DEF SameTuples, EmitTypes
  <2> QED  BY <2>4, SameTuplesKeep
<1> QED  BY <1>3, <1>4

\* Whatever the spout, the source and the interleaving of its events with run, pause
\* and next: a tuple is emitted once, in the order of the source where it has one, and
\* each one made is emitted, on its way, or lost at a place the model names.
THEOREM TuplesAreEmittedInOrder == SpoutSpec => []EmittedInOrder
<1>1. SpoutInit => EmitIInv
  <2> SUFFICES ASSUME SpoutInit PROVE EmitIInv
    OBVIOUS
  <2>1. /\ spout \in Spouts /\ tuples = << >> /\ lines_ahead = 0 /\ requests = {}
        /\ made = 0 /\ lost = {} /\ taken = << >> /\ delivered = << >>
    BY DEF SpoutInit
  <2>2. << >> \in Seq(Nat) /\ << >> \o << >> = << >>  OBVIOUS
  <2>3. EmitTypes  BY <2>1, <2>2 DEF EmitTypes, Series
  <2>4. Emitted = << >>  BY <2>1, <2>2 DEF Emitted
  <2>5. DOMAIN << >> = {} /\ Elements(<< >>) = {}  BY DEF Elements
  <2>6. Increasing(Emitted) /\ Kept(Emitted, requests, lost, made)
    BY <2>1, <2>4, <2>5 DEF Kept, Distinct, Increasing
  <2> QED  BY <2>1, <2>3, <2>6 DEF EmitIInv
<1>2. EmitIInv /\ [SpoutNext]_spout_vars => EmitIInv'
  <2> SUFFICES ASSUME EmitIInv, [SpoutNext]_spout_vars PROVE EmitIInv'
    OBVIOUS
  <2>0. /\ EmitTypes /\ lines_ahead \in Nat
    BY DEF EmitIInv, EmitTypes
  <2>1. CASE SpoutRunOrPause \/ ReadChunk \/ EmptyNextCall \/ UNCHANGED spout_vars
    <3>1. /\ UNCHANGED <<spout, requests, made, lost, tuples, taken, delivered>>
          /\ \/ lines_ahead' = lines_ahead
             \/ spout = "file" /\ lines_ahead' \in 1..ReadAhead
      BY <2>1 DEF SpoutRunOrPause, ReadChunk, EmptyNextCall, spout_vars
    <3>2. Emitted' = Emitted  BY <3>1 DEF Emitted
    <3>3. SameTuples
      BY <2>0, <3>1, <3>2, QueueSpoutsAssumption DEF EmitTypes, SameTuples
    <3> QED  BY <3>3, SameTuplesKeep
  <2>2. CASE Line
    <3>1. /\ Push(Fresh(1)) /\ lines_ahead' = lines_ahead - 1 /\ lines_ahead > 0
          /\ UNCHANGED <<spout, requests, taken, delivered>>
      BY <2>2 DEF Line
    <3>2. spout = "file" /\ lines_ahead' \in Nat /\ lines_ahead' <= lines_ahead
      BY <2>0, <3>1 DEF EmitTypes
    <3> QED  BY <3>1, <3>2, PushKeeps
  <2>3. CASE DirectoryChanges \/ ProcessRuns
    <3>1. /\ \E count \in 1..2 : Push(Fresh(count))
          /\ spout \in {"dir", "process"} /\ NothingElse
      BY <2>3 DEF DirectoryChanges, ProcessRuns
    <3>2. PICK count \in 1..2 : Push(Fresh(count))  BY <3>1
    <3>3. /\ spout # "bolt" /\ UNCHANGED <<spout, requests, taken, delivered>>
          /\ lines_ahead' \in Nat /\ lines_ahead' <= lines_ahead /\ count \in Nat
      BY <2>0, <3>1 DEF NothingElse
    <3> QED  BY <3>2, <3>3, PushKeeps
  <2>4. CASE Timer \/ ProcessError
    <3>1. /\ Replace(Fresh(1)) /\ spout \in {"timer", "continuous"}
          /\ UNCHANGED <<spout, requests, taken, delivered, lines_ahead>>
      BY <2>4 DEF Timer, ProcessError, NothingElse
    <3> QED  BY <3>1, ReplaceKeeps
  <2>5. CASE RssCrawl \/ GetCall
    <3>1. PICK count \in 1..2 : Calls(count)  BY <2>5 DEF RssCrawl, GetCall
    <3> QED  BY <3>1, CallsKeep
  <2>6. CASE Request  BY <2>6, RequestKeeps
  <2>7. CASE SpoutNextCall \/ NextAnswered  BY <2>7, MovesKeep
  <2>8. ASSUME NEW r \in requests,
               BodyEnds(r) \/ CrawlEnds(r) \/ GetCallEnds(r) \/ CallFails(r) \/ SeriesEmits(r)
        PROVE  EmitIInv'
    <3>1. CASE BodyEnds(r) \/ CrawlEnds(r)
      <4>1. /\ spout \in {"rest", "rss"} /\ requests' = requests \ {r}
            /\ UNCHANGED <<spout, lines_ahead, made, taken, delivered>>
            /\ \/ tuples' = tuples \o r /\ lost' = lost
               \/ lost' = lost \cup Elements(r) /\ tuples' = tuples
        BY <3>1 DEF BodyEnds, CrawlEnds
      <4> QED  BY <4>1, EndsKeep, FailuresKeep
    <3>2. CASE CallFails(r)
      <4>1. /\ spout \in {"rest", "rss", "get"} /\ requests' = requests \ {r}
            /\ UNCHANGED <<spout, tuples, lines_ahead, made, taken, delivered>>
            /\ lost' = lost \cup Elements(r)
        BY <3>2 DEF CallFails
      <4> QED  BY <4>1, FailuresKeep
    <3> QED  BY <2>8, <3>1, <3>2, GetCallEndsKeeps, SeriesEmitsKeeps
  <2>9. CASE ProcessWrites \/ HandleNewData  BY <2>9, WritesKeep
  <2> QED  BY <2>1, <2>2, <2>3, <2>4, <2>5, <2>6, <2>7, <2>8, <2>9 DEF SpoutNext
<1>3. EmitIInv => EmittedInOrder
  <2> SUFFICES ASSUME EmitIInv PROVE EmittedInOrder
    OBVIOUS
  <2> DEFINE out == Emitted
             onTheWay == UNION {Elements(r) : r \in requests}
  <2>1. out \in Seq(Nat) /\ Kept(out, requests, lost, made)
    BY EmittedIsASeq DEF EmitIInv
  <2>2. Cardinality(Elements(out)) = Len(out)  BY <2>1, DistinctCounts DEF Kept
  <2>3. spout \in {"file", "dir", "process", "continuous", "timer"} =>
          \A i, j \in DOMAIN out : i < j => out[i] < out[j]
    BY DEF EmitIInv, OutInOrder, Increasing
  <2>4. \A x : x \in onTheWay <=> \E r \in requests : x \in Elements(r)  OBVIOUS
  <2> HIDE DEF out, onTheWay
  <2>5. 1..made = Elements(out) \cup onTheWay \cup lost  BY <2>1, <2>4 DEF Kept
  <2>6. Elements(out) \cap lost = {} /\ Elements(out) \cap onTheWay = {}
    BY <2>1, <2>4 DEF Kept
  <2>7. spout \in {"file", "dir", "process"} => lost = {}
    BY DEF EmitIInv, LosesNone
  <2> QED
    BY <2>2, <2>3, <2>5, <2>6, <2>7 DEF EmittedInOrder, Emitted, out, onTheWay
<1> QED
  BY <1>1, <1>2, <1>3, PTL DEF SpoutSpec

---------------------------------------------------------------------------
(* FileAppendBolt: the parts of the invariant.                             *)

Lines == SplitValues \X Nat
FileNames == Nat \X SplitValues
CallRecs ==
  [kind : {"heartbeat", "shutdown", "final"}, at : Nat, number : Nat]
Zips == [name : FileNames, data : SUBSET Nat, call : CallRecs,
         phase : {"zipping", "done", "failed"}]

DataTypes ==
  /\ propagate_errors \in BOOLEAN
  /\ halves \in Nat /\ lines_received \in Nat
  /\ current_data \subseteq Lines
  /\ current_file_contains_data \in BOOLEAN /\ split_value \subseteq SplitValues
  /\ next_split_after \in Nat /\ file_name_current \in Nat
  /\ DOMAIN files \subseteq FileNames /\ \A n \in DOMAIN files : files[n] \subseteq Nat
  /\ archived \subseteq Nat

ZipTypes ==
  /\ writes \subseteq CallRecs /\ \A c \in writes : c.at <= halves
  /\ zips \subseteq Zips
  /\ bolt_shutdown \in {"no", "writing", "zipping", "ok", "error"}

HistoryTypes == late_names \subseteq Nat /\ overtaken \subseteq late_names \X Nat

\* A file whose time is over is of an earlier period, unless it was named late.
PeriodsMatch ==
  /\ file_name_current <= PeriodOf(halves)
  /\ IF current_file_contains_data
     THEN file_name_current \notin late_names =>
            next_split_after >= 2 * file_name_current + 2
     ELSE SplitsNow

\* The files on the disk are those zipCurrentFile looks for.
FilesAreCurrent ==
  \A n \in DOMAIN files :
    current_file_contains_data /\ n[1] = file_name_current /\ n[2] \in split_value

\* A zip has read what is in its file, or this has overtaken the zip.  Nothing more
\* is written to the file: its period is over, or the bolt has shut down.
GoodZip(z) ==
  /\ current_file_contains_data
  /\ IF z.call.kind = "final" THEN current_data = {}
     ELSE /\ z.name[1] <= file_name_current
          /\ z.name[1] = file_name_current /\ file_name_current \notin late_names => SplitsNow
  /\ z.phase = "zipping" /\ z.name \in DOMAIN files =>
       \A x \in files[z.name] : x \in z.data \cup archived \/ <<z.name[1], x>> \in overtaken

\* What a call waits for: all files there are, or an error.
Covers(c, zs) ==
  \/ \E z \in zs : z.call = c /\ z.phase = "failed"
  \/ \A n \in DOMAIN files : \E z \in zs : z.call = c /\ z.name = n /\ z.phase = "zipping"

\* A call finds its files gone when it goes on in the period in which it began,
\* unless another call has begun the new file in the meantime.
GoodCall(c, zs) ==
  IF c.kind = "final" THEN current_data = {} /\ Covers(c, zs)
  ELSE PeriodOf(c.at) = PeriodOf(halves) =>
         file_name_current = PeriodOf(halves) \/ (SplitsNow /\ Covers(c, zs))

\* As long as no file was named late.
InTime == late_names = {} => FilesAreCurrent /\ \A c \in writes : GoodCall(c, zips)

\* The stages of the shutdown.
Ending ==
  /\ bolt_shutdown = "writing" <=> \E c \in writes : c.kind = "shutdown"
  /\ bolt_shutdown = "zipping" <=> \E c \in writes : c.kind = "final"
  /\ \A c, d \in writes : c.kind # "heartbeat" /\ d.kind # "heartbeat" => c = d
  /\ bolt_shutdown \in {"no", "writing"} => \A z \in zips : z.call.kind # "final"
  /\ bolt_shutdown = "ok" /\ propagate_errors =>
       current_data = {} /\ (late_names = {} => DOMAIN files = {})

LinesAreKept ==
  \A x \in 1..lines_received :
    \/ x \in {d[2] : d \in current_data} \cup archived
           \cup UNION {files[n] : n \in DOMAIN files}
    \/ \E period \in late_names : <<period, x>> \in overtaken

AppendInv ==
  /\ DataTypes /\ ZipTypes /\ HistoryTypes /\ PeriodsMatch
  /\ \A z \in zips : GoodZip(z)
  /\ InTime /\ Ending /\ LinesAreKept

---------------------------------------------------------------------------
(* Periods, and what writing does to the files.                            *)

LEMMA PeriodFacts ==
  ASSUME NEW t \in Nat
  PROVE  /\ PeriodOf(t) \in Nat /\ 2 * PeriodOf(t) <= t /\ t <= 2 * PeriodOf(t) + 1
         /\ PeriodOf(t) <= PeriodOf(t + 1)
BY DEF PeriodOf

\* Split files are of an earlier period, unless they were named late.
LEMMA SplitIsLater ==
  ASSUME DataTypes, PeriodsMatch, SplitsNow, current_file_contains_data,
         file_name_current \notin late_names
  PROVE  file_name_current < PeriodOf(halves)
<1>1. /\ 2 * file_name_current + 2 < halves
      /\ PeriodOf(halves) \in Nat /\ halves <= 2 * PeriodOf(halves) + 1
      /\ file_name_current \in Nat /\ halves \in Nat
  BY PeriodFacts DEF DataTypes, PeriodsMatch, SplitsNow
<1> QED  BY <1>1

LEMMA Appended ==
  ASSUME DataTypes, NEW period \in Nat, AppendLines(period, current_data)
  PROVE  /\ DOMAIN files' = DOMAIN files \cup {<<period, d[1]>> : d \in current_data}
         /\ \A n \in DOMAIN files : files[n] \subseteq files'[n]
         /\ \A n \in DOMAIN files : n[1] # period => files'[n] = files[n]
         /\ current_data = {} => \A n \in DOMAIN files' : n \in DOMAIN files /\ files'[n] = files[n]
         /\ \A d \in current_data : d[2] \in files'[<<period, d[1]>>]
         /\ \A n \in DOMAIN files' : files'[n] \subseteq Nat
<1> DEFINE names == DOMAIN files \cup {<<period, d[1]>> : d \in current_data}
           Old(n) == IF n \in DOMAIN files THEN files[n] ELSE {}
           New(n) == {d[2] : d \in {e \in current_data : <<period, e[1]>> = n}}
<1>1. files' = [n \in names |-> Old(n) \cup New(n)]
  BY DEF AppendLines
<1>2. \A n : New(n) \subseteq Nat  BY DEF DataTypes, Lines
<1>3. \A d \in current_data : d[2] \in New(<<period, d[1]>>)  OBVIOUS
<1>4. \A n : n[1] # period => New(n) = {}  OBVIOUS
<1>5. current_data = {} => \A n : New(n) = {}  OBVIOUS
<1>6. \A n : n \in DOMAIN files => Old(n) = files[n]  OBVIOUS
<1>7. \A n : Old(n) \subseteq Nat  BY DEF DataTypes
<1>8. current_data = {} => names = DOMAIN files  OBVIOUS
<1>9. \A d \in current_data : <<period, d[1]>> \in names  OBVIOUS
<1>10. DOMAIN files \subseteq names  OBVIOUS
<1> HIDE DEF names, Old, New
<1>11. DOMAIN files' = names /\ \A n \in names : files'[n] = Old(n) \cup New(n)
  BY <1>1
<1>12. /\ \A n \in DOMAIN files : files[n] \subseteq files'[n]
       /\ \A n \in DOMAIN files : n[1] # period => files'[n] = files[n]
  BY <1>4, <1>6, <1>10, <1>11
<1>13. current_data = {} => \A n \in DOMAIN files' : n \in DOMAIN files /\ files'[n] = files[n]
  BY <1>5, <1>6, <1>8, <1>11
<1>14. \A d \in current_data : d[2] \in files'[<<period, d[1]>>]
  BY <1>3, <1>9, <1>11
<1>15. \A n \in DOMAIN files' : files'[n] \subseteq Nat
  BY <1>2, <1>7, <1>11
<1>16. DOMAIN files' = DOMAIN files \cup {<<period, d[1]>> : d \in current_data}
  BY <1>11 DEF names
<1> QED  BY <1>12, <1>13, <1>14, <1>15, <1>16

\* How a call of writeToFile may change the data: not at all, by appending to the
\* current file, or by beginning a new one.
DataKept ==
  /\ UNCHANGED <<propagate_errors, halves, lines_received>>
  /\ DataTypes' /\ HistoryTypes' /\ PeriodsMatch' /\ LinesAreKept'
  /\ late_names \subseteq late_names'
  /\ \A z \in zips : GoodZip(z)'
  /\ \A c \in CallRecs : \A zs \in SUBSET zips :
       late_names' = {} /\ GoodCall(c, zs) => GoodCall(c, zs)'
  /\ current_data = {} => current_data' = {} /\ DOMAIN files' = DOMAIN files

FilesInTime == late_names = {} => FilesAreCurrent

LEMMA NothingWrittenKeeps ==
  ASSUME AppendInv, NothingWritten, UNCHANGED <<propagate_errors, halves, lines_received>>
  PROVE  DataKept /\ FilesInTime'
<1> USE DEF AppendInv, NothingWritten, file_vars, history_vars
<1>1. DataTypes' /\ HistoryTypes'  BY DEF DataTypes, HistoryTypes
<1>2. PeriodsMatch' /\ FilesInTime'
  BY DEF PeriodsMatch, InTime, FilesInTime, FilesAreCurrent, PeriodOf, SplitsNow
<1>3. LinesAreKept'  BY DEF LinesAreKept
<1>4. \A z \in zips : GoodZip(z)'  BY DEF GoodZip, PeriodOf, SplitsNow
<1>5. \A c \in CallRecs : \A zs \in SUBSET zips : GoodCall(c, zs) => GoodCall(c, zs)'
  BY DEF GoodCall, Covers, PeriodOf, SplitsNow
<1> QED  BY <1>1, <1>2, <1>3, <1>4, <1>5 DEF DataKept

\* Names that a split which began at some time gives late.
LateNames(at) == {PeriodOf(halves)} \ {PeriodOf(at)}

LEMMA WriteDataKeeps ==
  ASSUME AppendInv, UNCHANGED <<propagate_errors, halves, lines_received>>, NEW at \in Nat,
         \/ /\ ~SplitsNow /\ current_data # {} /\ WriteData(file_name_current, next_split_after)
            /\ UNCHANGED late_names
         \/ /\ WriteData(PeriodOf(halves), at + 2)
            /\ late_names' = late_names \cup LateNames(at)
  PROVE  /\ DataKept /\ current_data' = {}
         /\ file_name_current = file_name_current' \/ DOMAIN files = {} => FilesInTime'
<1> DEFINE period == file_name_current'
<1>1. /\ AppendLines(period, current_data)
      /\ current_data' = {} /\ current_file_contains_data' = TRUE
      /\ split_value' = split_value \cup {d[1] : d \in current_data}
      /\ overtaken' = overtaken \cup
           {<<period, d[2]>> : d \in {e \in current_data : BeingZipped(<<period, e[1]>>)}}
      /\ UNCHANGED archived
  BY DEF WriteData
<1>2. \/ /\ ~SplitsNow /\ current_data # {}
         /\ period = file_name_current /\ next_split_after' = next_split_after
         /\ UNCHANGED late_names
      \/ /\ period = PeriodOf(halves) /\ next_split_after' = at + 2
         /\ late_names' = late_names \cup LateNames(at)
  BY DEF WriteData
<1>3. /\ halves \in Nat /\ PeriodOf(halves) \in Nat /\ 2 * PeriodOf(halves) <= halves
      /\ PeriodOf(at) \in Nat /\ 2 * PeriodOf(at) <= at
  BY PeriodFacts DEF AppendInv, DataTypes
<1>4. period \in Nat /\ next_split_after' \in Nat
  BY <1>2, <1>3 DEF AppendInv, DataTypes
<1>5. /\ late_names \subseteq late_names' /\ late_names' \subseteq Nat
      /\ \/ UNCHANGED late_names
         \/ period = PeriodOf(halves) /\ period \in late_names'
  BY <1>2, <1>3 DEF LateNames, AppendInv, HistoryTypes
<1>6. period \notin late_names' =>
        \/ ~SplitsNow /\ period = file_name_current /\ next_split_after' = next_split_after
        \/ period = PeriodOf(halves) /\ next_split_after' >= 2 * period + 2
  <2> SUFFICES ASSUME period = PeriodOf(halves), next_split_after' = at + 2,
                      late_names' = late_names \cup LateNames(at), period \notin late_names'
               PROVE  next_split_after' >= 2 * period + 2
    BY <1>2
  <2>1. PeriodOf(at) = PeriodOf(halves)  BY DEF LateNames
  <2> QED  BY <1>3, <2>1
<1> HIDE DEF period
<1>7. /\ DOMAIN files' = DOMAIN files \cup {<<period, d[1]>> : d \in current_data}
      /\ \A n \in DOMAIN files : files[n] \subseteq files'[n]
      /\ \A n \in DOMAIN files : n[1] # period => files'[n] = files[n]
      /\ current_data = {} => \A n \in DOMAIN files' : n \in DOMAIN files /\ files'[n] = files[n]
      /\ \A d \in current_data : d[2] \in files'[<<period, d[1]>>]
      /\ \A n \in DOMAIN files' : files'[n] \subseteq Nat
  BY <1>1, <1>4, Appended DEF AppendInv
<1>8. \A d \in current_data : d[1] \in SplitValues /\ d[2] \in Nat
  BY DEF AppendInv, DataTypes, Lines
<1>9. DataTypes'
  <2>1. \A d \in current_data : <<period, d[1]>> \in FileNames
    BY <1>4, <1>8 DEF FileNames
  <2>2. DOMAIN files' \subseteq FileNames
    BY <1>7, <2>1 DEF AppendInv, DataTypes
  <2>3. split_value' \subseteq SplitValues
    BY <1>1, <1>8 DEF AppendInv, DataTypes
  <2> QED  BY <1>1, <1>4, <1>7, <2>2, <2>3 DEF AppendInv, DataTypes, period
<1>10. UNCHANGED PeriodOf(halves)  BY DEF PeriodOf
<1>11. PeriodsMatch'
  <2>1. file_name_current <= PeriodOf(halves)  BY DEF AppendInv, PeriodsMatch
  <2>2. period <= PeriodOf(halves)  BY <1>2, <1>3, <2>1
  <2>3. period \notin late_names' => next_split_after' >= 2 * period + 2
    <3> SUFFICES ASSUME ~SplitsNow, period = file_name_current, period \notin late_names',
                        next_split_after' = next_split_after
                 PROVE  next_split_after' >= 2 * period + 2
      BY <1>6
    <3> QED  BY <1>5 DEF AppendInv, PeriodsMatch
  <2> QED  BY <1>1, <1>10, <2>2, <2>3 DEF PeriodsMatch, period
\* A zip of the new period is one of a period that was named late.
<1>12. \A z \in zips : z.call.kind # "final" =>
         /\ z.name[1] <= period
         /\ z.name[1] = period => period \in late_names'
  <2> SUFFICES ASSUME NEW z \in zips, z.call.kind # "final"
               PROVE  z.name[1] <= period /\ (z.name[1] = period => period \in late_names')
    OBVIOUS
  <2>1. /\ z.name[1] \in Nat /\ file_name_current \in Nat
        /\ z.name[1] <= file_name_current /\ file_name_current <= PeriodOf(halves)
        /\ z.name[1] = file_name_current /\ file_name_current \notin late_names => SplitsNow
        /\ current_file_contains_data
    BY DEF GoodZip, AppendInv, ZipTypes, Zips, FileNames, DataTypes, PeriodsMatch
  <2>2. z.name[1] <= period  BY <1>2, <1>3, <2>1
  <2>3. ASSUME z.name[1] = period, period \notin late_names' PROVE FALSE
    <3>1. z.name[1] = file_name_current /\ file_name_current \notin late_names
      BY <1>2, <1>3, <1>5, <2>1, <2>3
    <3>2. file_name_current < PeriodOf(halves)
      BY <2>1, <3>1, SplitIsLater DEF AppendInv
    <3> QED  BY <1>3, <1>6, <2>1, <2>3, <3>1, <3>2
  <2> QED  BY <2>2, <2>3
<1>13. HistoryTypes'
  <2> SUFFICES ASSUME NEW d \in current_data, BeingZipped(<<period, d[1]>>)
               PROVE  <<period, d[2]>> \in late_names' \X Nat
    BY <1>1, <1>5 DEF AppendInv, HistoryTypes
  <2>1. PICK z \in zips : z.name = <<period, d[1]>> /\ z.phase = "zipping"
    BY DEF BeingZipped
  <2>2. z.call.kind # "final"  BY DEF AppendInv, GoodZip
  <2>3. period \in late_names'  BY <1>12, <2>1, <2>2
  <2> QED  BY <1>8, <2>3
<1>14. LinesAreKept'
  <2> SUFFICES ASSUME NEW x \in 1..lines_received,
                      ~\E p \in late_names' : <<p, x>> \in overtaken'
               PROVE  x \in archived \/ \E n \in DOMAIN files' : x \in files'[n]
    BY <1>1 DEF LinesAreKept
  <2>1. ~\E p \in late_names : <<p, x>> \in overtaken  BY <1>1, <1>5
  <2>2. CASE x \in archived  BY <2>2
  <2>3. ASSUME NEW d \in current_data, x = d[2]
        PROVE  \E n \in DOMAIN files' : x \in files'[n]
    BY <2>3, <1>7
  <2>4. ASSUME NEW n \in DOMAIN files, x \in files[n]
        PROVE  \E m \in DOMAIN files' : x \in files'[m]
    BY <2>4, <1>7
  <2> QED  BY <2>1, <2>2, <2>3, <2>4 DEF AppendInv, LinesAreKept
<1>15. \A z \in zips : GoodZip(z)'
  <2> SUFFICES ASSUME NEW z \in zips PROVE GoodZip(z)'
    OBVIOUS
  <2>1. GoodZip(z)  BY DEF AppendInv
  <2>2. CASE z.call.kind = "final"
    <3>1. current_data = {}  BY <2>1, <2>2 DEF GoodZip
    <3>2. z.name \in DOMAIN files' => z.name \in DOMAIN files /\ files'[z.name] = files[z.name]
      BY <3>1, <1>7
    <3> QED  BY <2>1, <2>2, <3>2, <1>1 DEF GoodZip
  <2>3. CASE z.call.kind # "final"
    <3>1. z.name[1] <= period /\ (z.name[1] = period => period \in late_names')
      BY <1>12, <2>3
    <3>2. ASSUME z.phase = "zipping", z.name \in DOMAIN files', NEW x \in files'[z.name]
          PROVE  x \in z.data \cup archived \/ <<z.name[1], x>> \in overtaken'
      <4>1. ASSUME z.name \in DOMAIN files, x \in files[z.name]
            PROVE  x \in z.data \cup archived \/ <<z.name[1], x>> \in overtaken'
        BY <1>1, <2>1, <3>2, <4>1 DEF GoodZip
      <4>2. ASSUME NEW d \in current_data, z.name = <<period, d[1]>>, x = d[2]
            PROVE  <<z.name[1], x>> \in overtaken'
        <5>1. BeingZipped(<<period, d[1]>>)  BY <3>2, <4>2 DEF BeingZipped
        <5>2. <<period, d[2]>> \in overtaken'  BY <1>1, <4>2, <5>1
        <5>3. z.name[1] = period  BY <4>2
        <5> QED  BY <4>2, <5>2, <5>3
      <4>3. \/ z.name \in DOMAIN files /\ x \in files[z.name]
            \/ \E d \in current_data : z.name = <<period, d[1]>> /\ x = d[2]
        BY <1>1, <3>2 DEF AppendLines
      <4> QED  BY <4>1, <4>2, <4>3
    <3> QED  BY <2>3, <3>1, <3>2, <1>1 DEF GoodZip, period
  <2> QED  BY <2>2, <2>3
<1>16. current_data = {} => DOMAIN files' = DOMAIN files
  BY <1>7
<1>17. \A c \in CallRecs : \A zs \in SUBSET zips :
         late_names' = {} /\ GoodCall(c, zs) => GoodCall(c, zs)'
  <2> SUFFICES ASSUME NEW c \in CallRecs, NEW zs \in SUBSET zips, GoodCall(c, zs),
                      late_names' = {}
               PROVE  GoodCall(c, zs)'
    OBVIOUS
  <2>1. CASE c.kind = "final"
    BY <1>1, <1>16, <2>1 DEF GoodCall, Covers
  <2>2. CASE c.kind # "final"
    <3> SUFFICES ASSUME PeriodOf(c.at) = PeriodOf(halves)
                 PROVE  file_name_current' = PeriodOf(halves)
      BY <1>10, <2>2 DEF GoodCall, PeriodOf
    <3>1. file_name_current = PeriodOf(halves) \/ SplitsNow
      BY <2>2 DEF GoodCall
    <3> QED  BY <3>1, <1>2 DEF period
  <2> QED  BY <2>1, <2>2
<1>18. ASSUME file_name_current = file_name_current' \/ DOMAIN files = {}
       PROVE  FilesInTime'
  <2> SUFFICES ASSUME NEW n \in DOMAIN files', late_names' = {}
               PROVE  n[1] = period /\ n[2] \in split_value'
    BY <1>1 DEF FilesInTime, FilesAreCurrent, period
  <2>1. CASE n \in DOMAIN files
    <3>1. late_names = {}  BY <1>5
    <3> QED  BY <2>1, <3>1, <1>1, <1>18 DEF AppendInv, InTime, FilesAreCurrent, period
  <2>2. ASSUME NEW d \in current_data, n = <<period, d[1]>>
        PROVE  n[1] = period /\ n[2] \in split_value'
    BY <2>2, <1>1
  <2> QED  BY <2>1, <2>2, <1>7
<1> QED
  BY <1>1, <1>5, <1>9, <1>11, <1>13, <1>14, <1>15, <1>16, <1>17, <1>18 DEF DataKept

LEMMA ZipsOfEach ==
  ASSUME NEW names, NEW call, NEW n \in names
  PROVE  \E z \in ZipsOf(names, call) : z.call = call /\ z.name = n /\ z.phase = "zipping"
<1> DEFINE z == [name |-> n, data |-> files'[n], call |-> call, phase |-> "zipping"]
<1>1. z \in ZipsOf(names, call)  BY DEF ZipsOf
<1>2. z.call = call /\ z.name = n /\ z.phase = "zipping"  OBVIOUS
<1> QED  BY <1>1, <1>2

\* The end of a call of writeToFile, after which the calls in waiting and the zips
\* in others are left.
EndsCall(kind, waiting, others) ==
  /\ others \subseteq zips /\ waiting \subseteq writes
  /\ late_names = {} => \A c \in waiting : GoodCall(c, others)
  /\ IF kind = "shutdown"
     THEN /\ bolt_shutdown \in {"no", "writing"}
          /\ waiting = {c \in writes : c.kind = "heartbeat"}
     ELSE \A c \in writes \ waiting : c.kind = "heartbeat"

LEMMA AfterWriteKeeps ==
  ASSUME AppendInv, DataKept, FilesInTime',
         NEW kind \in {"heartbeat", "shutdown"}, NEW err \in BOOLEAN,
         NEW waiting, NEW others, EndsCall(kind, waiting, others),
         ~err => current_data' = {},
         AfterWrite(kind, err, others, waiting)
  PROVE  AppendInv'
<1>1. /\ waiting \subseteq CallRecs /\ others \subseteq Zips
      /\ waiting \subseteq writes /\ others \subseteq zips
  BY DEF EndsCall, AppendInv, ZipTypes
<1>2. /\ \A z \in others : GoodZip(z)'
      /\ late_names' = {} => \A c \in waiting : GoodCall(c, others)'
  <2>1. late_names' = {} => late_names = {}  BY DEF DataKept
  <2> QED  BY <1>1, <2>1 DEF DataKept, EndsCall
<1>3. /\ DataTypes' /\ HistoryTypes' /\ PeriodsMatch' /\ LinesAreKept'
      /\ UNCHANGED <<propagate_errors, halves>> /\ late_names \subseteq late_names'
      /\ current_data = {} => current_data' = {} /\ DOMAIN files' = DOMAIN files
  BY DEF DataKept
<1>4. SUFFICES ZipTypes' /\ Ending' /\ (\A z \in zips' : GoodZip(z)')
               /\ (late_names' = {} => \A c \in writes' : GoodCall(c, zips)')
  BY <1>3 DEF AppendInv, InTime, FilesInTime
<1>5. CASE kind = "heartbeat"
  <2>1. zips' = others /\ writes' = waiting /\ UNCHANGED bolt_shutdown
    BY <1>5 DEF AfterWrite
  <2>2. \A c \in writes : c.kind # "heartbeat" => c \in writes'
    BY <1>5, <2>1 DEF EndsCall
  <2>3. ZipTypes'  BY <1>1, <1>3, <2>1 DEF AppendInv, ZipTypes
  <2>4. Ending'
    <3>1. writes' \subseteq writes /\ zips' \subseteq zips  BY <1>1, <2>1
    <3> QED  BY <1>3, <2>1, <2>2, <3>1 DEF AppendInv, Ending
  <2>5. \A z \in zips' : GoodZip(z)'  BY <1>2, <2>1
  <2>6. late_names' = {} => \A c \in writes' : GoodCall(c, zips)'
    BY <1>2, <2>1 DEF GoodCall, Covers
  <2> QED  BY <2>3, <2>4, <2>5, <2>6
<1>6. CASE kind = "shutdown"
  <2> DEFINE names == ToZip(file_name_current', current_file_contains_data', split_value')
  <2>1. late_names' = {} => names = DOMAIN files'
    <3> SUFFICES ASSUME late_names' = {} PROVE names = DOMAIN files'
      OBVIOUS
    <3>1. \A n \in DOMAIN files' : /\ current_file_contains_data'
                                   /\ n = <<n[1], n[2]>>
                                   /\ n[1] = file_name_current' /\ n[2] \in split_value'
      BY <1>3 DEF FilesInTime, FilesAreCurrent, DataTypes, FileNames
    <3>2. \A n \in DOMAIN files' : n \in {<<file_name_current', v>> : v \in split_value'}
      BY <3>1
    <3> QED  BY <3>1, <3>2 DEF ToZip
  <2>0. names \subseteq DOMAIN files' /\ (names # {} => current_file_contains_data')
    BY DEF ToZip
  <2> HIDE DEF names
  <2>2. /\ bolt_shutdown \in {"no", "writing"}
        /\ waiting = {c \in writes : c.kind = "heartbeat"}
    BY <1>6 DEF EndsCall
  <2>3. \A z \in others : z.call.kind # "final"
    BY <1>1, <2>2 DEF AppendInv, Ending
  <2>4. CASE ~err /\ names # {}
    <3>1. /\ bolt_shutdown' = "zipping" /\ writes' = waiting \cup {FinalZip}
          /\ zips' = others \cup ZipsOf(names, FinalZip)
      BY <1>6, <2>4 DEF AfterWrite, WriteSucceeded, names
    <3>2. halves \in Nat /\ FinalZip \in CallRecs /\ FinalZip.kind = "final" /\ FinalZip.at = halves
      BY DEF FinalZip, CallRecs, AppendInv, DataTypes
    <3>3. \A z \in ZipsOf(names, FinalZip) :
            /\ z \in Zips /\ z.call = FinalZip /\ z.phase = "zipping"
            /\ z.data = files'[z.name] /\ z.name \in DOMAIN files'
      BY <1>3, <2>0, <3>2 DEF ZipsOf, Zips, DataTypes
    <3>4. late_names' = {} => \A n \in DOMAIN files' :
            \E z \in ZipsOf(names, FinalZip) : z.call = FinalZip /\ z.name = n /\ z.phase = "zipping"
      BY <2>1, ZipsOfEach
    <3>5. ZipTypes'
      <4>1. \A c \in writes' : c.at <= halves
        BY <1>1, <3>1, <3>2 DEF AppendInv, ZipTypes
      <4> QED  BY <1>1, <1>3, <3>1, <3>2, <3>3, <4>1 DEF ZipTypes
    <3>6. current_data' = {} /\ halves' = halves  BY <1>3, <2>4
    <3>7. \A z \in zips' : GoodZip(z)'
      <4>1. \A z \in ZipsOf(names, FinalZip) : GoodZip(z)'
        BY <2>0, <2>4, <3>2, <3>3, <3>6 DEF GoodZip
      <4> QED  BY <1>2, <3>1, <4>1
    <3>8. late_names' = {} => \A c \in writes' : GoodCall(c, zips)'
      <4> SUFFICES ASSUME late_names' = {} PROVE \A c \in writes' : GoodCall(c, zips)'
        OBVIOUS
      <4>1. \A c \in waiting : GoodCall(c, zips)'
        BY <1>2, <3>1 DEF GoodCall, Covers
      <4>2. GoodCall(FinalZip, zips)'
        <5>1. Covers(FinalZip, zips)'
          <6>1. UNCHANGED FinalZip  BY <3>6 DEF FinalZip
          <6> QED  BY <6>1, <3>1, <3>4 DEF Covers
        <5>2. UNCHANGED FinalZip  BY <3>6 DEF FinalZip
        <5> QED  BY <3>2, <3>6, <5>1, <5>2 DEF GoodCall
      <4>3. UNCHANGED FinalZip  BY <3>6 DEF FinalZip
      <4> QED  BY <3>1, <4>1, <4>2, <4>3
    <3>9. Ending'
      <4>1. \A c \in waiting : c.kind = "heartbeat"  BY <2>2
      <4> QED  BY <3>1, <3>2, <4>1 DEF Ending
    <3> QED  BY <3>5, <3>7, <3>8, <3>9
  <2>5. CASE err \/ names = {}
    <3>1. /\ bolt_shutdown' = IF ~err THEN "ok" ELSE ShutdownAnswer(err)
          /\ writes' = waiting /\ zips' = others
      BY <1>6, <2>5 DEF AfterWrite, WriteSucceeded, names
    <3>2. bolt_shutdown' \in {"ok", "error"}
      BY <3>1 DEF ShutdownAnswer
    <3>3. bolt_shutdown' = "ok" /\ propagate_errors => ~err
      BY <3>1 DEF ShutdownAnswer
    <3>4. ZipTypes'  BY <1>1, <1>3, <3>1, <3>2 DEF AppendInv, ZipTypes
    <3>5. Ending'
      <4>1. \A c \in writes' : c.kind = "heartbeat"  BY <2>2, <3>1
      <4>2. bolt_shutdown' = "ok" /\ propagate_errors' =>
              current_data' = {} /\ (late_names' = {} => DOMAIN files' = {})
        BY <1>3, <2>1, <2>5, <3>3
      <4> QED  BY <3>2, <4>1, <4>2 DEF Ending
    <3>6. \A z \in zips' : GoodZip(z)'  BY <1>2, <3>1
    <3>7. late_names' = {} => \A c \in writes' : GoodCall(c, zips)'
      BY <1>2, <3>1 DEF GoodCall, Covers
    <3> QED  BY <3>4, <3>5, <3>6, <3>7
  <2> QED  BY <2>4, <2>5
<1> QED  BY <1>5, <1>6

---------------------------------------------------------------------------
(* FileAppendBolt: each step keeps the invariant.                          *)

LEMMA AppendInitially == FileAppendInit => AppendInv
<1> SUFFICES ASSUME FileAppendInit PROVE AppendInv
  OBVIOUS
<1> USE DEF FileAppendInit
<1>1. PeriodOf(1) = 0  BY DEF PeriodOf
<1>2. DOMAIN files = {}  OBVIOUS
<1>3. DataTypes /\ ZipTypes /\ HistoryTypes  BY <1>2 DEF DataTypes, ZipTypes, HistoryTypes
<1>4. PeriodsMatch /\ InTime
  BY <1>1, <1>2 DEF PeriodsMatch, InTime, FilesAreCurrent, SplitsNow
<1>5. Ending /\ LinesAreKept  BY DEF Ending, LinesAreKept
<1> QED  BY <1>3, <1>4, <1>5 DEF AppendInv

LEMMA ReceiveKeeps ==
  ASSUME AppendInv, FileReceive PROVE AppendInv'
<1>1. /\ bolt_shutdown = "no" /\ lines_received' = lines_received + 1
      /\ UNCHANGED <<propagate_errors, halves, current_file_contains_data, split_value,
           next_split_after, file_name_current, files, archived, writes, zips, bolt_shutdown,
           late_names, overtaken>>
  BY DEF FileReceive, file_vars, history_vars
<1>2. PICK v \in SplitValues : current_data' = current_data \cup {<<v, lines_received + 1>>}
  BY DEF FileReceive
<1>3. lines_received \in Nat  BY DEF AppendInv, DataTypes
<1>4. DataTypes'  BY <1>1, <1>2, <1>3 DEF AppendInv, DataTypes, Lines
<1>5. ZipTypes' /\ HistoryTypes'  BY <1>1 DEF AppendInv, ZipTypes, HistoryTypes
<1>6. PeriodsMatch'
  BY <1>1 DEF AppendInv, PeriodsMatch, PeriodOf, SplitsNow
<1>7. \A z \in zips' : GoodZip(z)'
  <2>1. \A z \in zips : z.call.kind # "final"  BY <1>1 DEF AppendInv, Ending
  <2> QED  BY <2>1, <1>1 DEF AppendInv, GoodZip, PeriodOf, SplitsNow
<1>8. InTime'
  <2>1. \A c \in writes : c.kind # "final"  BY <1>1 DEF AppendInv, Ending
  <2> QED
    BY <1>1, <2>1 DEF AppendInv, InTime, FilesAreCurrent, GoodCall, Covers, PeriodOf, SplitsNow
<1>9. Ending'  BY <1>1 DEF AppendInv, Ending
<1>10. LinesAreKept'
  <2>1. 1..lines_received' = (1..lines_received) \cup {lines_received + 1}  BY <1>1, <1>3
  <2>2. lines_received + 1 \in {d[2] : d \in current_data'}
    <3>1. <<v, lines_received + 1>> \in current_data'  BY <1>2
    <3>2. <<v, lines_received + 1>>[2] = lines_received + 1  OBVIOUS
    <3> QED  BY <3>1, <3>2
  <2>3. {d[2] : d \in current_data} \subseteq {d[2] : d \in current_data'}  BY <1>2
  <2> QED  BY <2>1, <2>2, <2>3, <1>1 DEF AppendInv, LinesAreKept
<1> QED  BY <1>4, <1>5, <1>6, <1>7, <1>8, <1>9, <1>10 DEF AppendInv

LEMMA HalfKeeps ==
  ASSUME AppendInv, HalfPasses PROVE AppendInv'
<1>1. /\ halves' = halves + 1
      /\ UNCHANGED <<propagate_errors, lines_received, current_data,
           current_file_contains_data, split_value, next_split_after, file_name_current,
           files, archived, writes, zips, bolt_shutdown, late_names, overtaken>>
  BY DEF HalfPasses, file_vars, history_vars
<1>2. DataTypes' /\ ZipTypes' /\ HistoryTypes'
  <2>1. \A c \in writes : c.at \in Nat /\ c.at <= halves /\ halves \in Nat
    BY DEF AppendInv, DataTypes, ZipTypes, CallRecs
  <2>2. \A c \in writes : c.at <= halves'  BY <1>1, <2>1
  <2> QED  BY <1>1, <2>1, <2>2 DEF AppendInv, DataTypes, ZipTypes, HistoryTypes
<1>3. SplitsNow => SplitsNow'  BY <1>1 DEF AppendInv, DataTypes, SplitsNow
<1>4. PeriodsMatch'
  <2>1. /\ PeriodOf(halves) \in Nat /\ PeriodOf(halves) <= PeriodOf(halves)'
        /\ PeriodOf(halves)' \in Nat
        /\ file_name_current \in Nat /\ halves \in Nat /\ next_split_after \in Nat
    <3>1. halves \in Nat /\ halves' \in Nat  BY <1>1 DEF AppendInv, DataTypes
    <3>2. PeriodOf(halves)' = PeriodOf(halves + 1)  BY <1>1 DEF PeriodOf
    <3> QED  BY <1>1, <3>1, <3>2, PeriodFacts DEF AppendInv, DataTypes
  <2>2. file_name_current <= PeriodOf(halves)  BY DEF AppendInv, PeriodsMatch
  <2>3. file_name_current' <= PeriodOf(halves)'  BY <1>1, <2>1, <2>2
  <2> QED  BY <1>1, <1>3, <2>3 DEF AppendInv, PeriodsMatch
<1>5. \A z \in zips' : GoodZip(z)'
  BY <1>1, <1>3 DEF AppendInv, GoodZip
\* A call that began before this period makes no claim any more.
<1>6. InTime'
  <2> SUFFICES ASSUME late_names = {} PROVE FilesAreCurrent' /\ \A c \in writes : GoodCall(c, zips)'
    BY <1>1 DEF InTime
  <2>1. FilesAreCurrent'  BY <1>1 DEF AppendInv, InTime, FilesAreCurrent
  <2>2. ASSUME NEW c \in writes PROVE GoodCall(c, zips)'
    <3>1. GoodCall(c, zips)  BY DEF AppendInv, InTime
    <3>2. Covers(c, zips) => Covers(c, zips)'  BY <1>1 DEF Covers
    <3>3. PeriodOf(c.at) = PeriodOf(halves)' => PeriodOf(halves)' = PeriodOf(halves)
      <4>1. c.at \in Nat /\ halves \in Nat /\ c.at <= halves
        BY DEF AppendInv, DataTypes, ZipTypes, CallRecs
      <4> QED  BY <1>1, <4>1 DEF PeriodOf
    <3> QED  BY <1>1, <1>3, <3>1, <3>2, <3>3 DEF GoodCall
  <2> QED  BY <2>1, <2>2
<1>7. LinesAreKept'  BY <1>1 DEF AppendInv, LinesAreKept
<1>8. Ending'  BY <1>1 DEF AppendInv, Ending
<1> QED  BY <1>2, <1>4, <1>5, <1>6, <1>7, <1>8 DEF AppendInv

LEMMA WriteToFileKeeps ==
  ASSUME AppendInv, NEW kind \in {"heartbeat", "shutdown"}, bolt_shutdown = "no",
         WriteToFile(kind), UNCHANGED <<propagate_errors, halves, lines_received>>
  PROVE  AppendInv'
<1> DEFINE names == IF current_file_contains_data
                    THEN {<<file_name_current, v>> : v \in split_value} \cap DOMAIN files
                    ELSE {}
<1>0. names \subseteq DOMAIN files /\ \A n \in names : n[1] = file_name_current
  OBVIOUS
<1>1. late_names = {} => names = DOMAIN files
  <2> SUFFICES ASSUME late_names = {} PROVE names = DOMAIN files
    OBVIOUS
  <2>1. \A n \in DOMAIN files : /\ current_file_contains_data /\ n = <<n[1], n[2]>>
                                /\ n[1] = file_name_current /\ n[2] \in split_value
    BY DEF AppendInv, InTime, FilesAreCurrent, DataTypes, FileNames
  <2>2. \A n \in DOMAIN files : n \in {<<file_name_current, v>> : v \in split_value}
    BY <2>1
  <2> QED  BY <2>1, <2>2
<1> HIDE DEF names
<1>2. PICK others, waiting : others = zips /\ waiting = writes
  OBVIOUS
<1>3. EndsCall(kind, waiting, others)
  <2>1. late_names = {} => \A c \in waiting : GoodCall(c, others)
    BY <1>2 DEF AppendInv, InTime
  <2>2. \A c \in writes : c.kind = "heartbeat"
    BY DEF AppendInv, ZipTypes, CallRecs, Ending
  <2> QED  BY <1>2, <2>1, <2>2 DEF EndsCall
<1>4. CASE current_data = {} /\ NothingWritten /\ AfterWrite(kind, FALSE, zips, writes)
  <2>1. current_data' = {}  BY <1>4 DEF NothingWritten
  <2>2. AfterWrite(kind, FALSE, others, waiting)  BY <1>2, <1>4
  <2> QED  BY <1>3, <1>4, <2>1, <2>2, NothingWrittenKeeps, AfterWriteKeeps
<1>5. CASE /\ current_data # {} /\ ~SplitsNow /\ AfterWrite(kind, FALSE, zips, writes)
           /\ WriteData(file_name_current, next_split_after) /\ UNCHANGED late_names
  <2>1. file_name_current' = file_name_current  BY <1>5 DEF WriteData
  <2>2. DataKept /\ current_data' = {} /\ FilesInTime'
    BY <1>5, <2>1, WriteDataKeeps
  <2>3. AfterWrite(kind, FALSE, others, waiting)  BY <1>2, <1>5
  <2> QED  BY <1>3, <2>2, <2>3, AfterWriteKeeps
<1>6. CASE /\ SplitsNow /\ names = {} /\ AfterWrite(kind, FALSE, zips, writes)
           /\ WriteData(PeriodOf(halves), halves + 2) /\ UNCHANGED late_names
  <2>1. halves \in Nat  BY DEF AppendInv, DataTypes
  <2>2. late_names' = late_names \cup LateNames(halves)  BY <1>6 DEF LateNames
  <2>3. DataKept /\ current_data' = {} /\ (DOMAIN files = {} => FilesInTime')
    BY <1>6, <2>1, <2>2, WriteDataKeeps
  <2>4. FilesInTime'
    <3>1. late_names' = {} => DOMAIN files = {}  BY <1>1, <1>6
    <3> QED  BY <2>3, <3>1 DEF FilesInTime
  <2>5. AfterWrite(kind, FALSE, others, waiting)  BY <1>2, <1>6
  <2> QED  BY <1>3, <2>3, <2>4, <2>5, AfterWriteKeeps
<1>7. ASSUME current_data # {}, SplitsNow, names # {}, NothingWritten,
             NEW number \in 1..MaxWrites, NEW call,
             call = [kind |-> kind, at |-> halves, number |-> number],
             NewCall(kind, number),
             writes' = writes \cup {call}, zips' = zips \cup ZipsOf(names, call),
             bolt_shutdown' = IF kind = "shutdown" THEN "writing" ELSE bolt_shutdown
      PROVE  AppendInv'
  <2>1. DataKept /\ FilesInTime'  BY <1>7, NothingWrittenKeeps
  <2>2. /\ call \in CallRecs /\ call.kind = kind /\ call.at = halves /\ halves \in Nat
    BY <1>7 DEF CallRecs, AppendInv, DataTypes
  <2>3. call \notin writes /\ \A z \in zips : z.call # call
    BY <1>7 DEF NewCall, IsFree
  <2>4. UNCHANGED <<files, archived, halves, current_data, file_name_current, next_split_after,
                    current_file_contains_data, late_names, overtaken>>
    BY <1>7 DEF NothingWritten, file_vars, history_vars
  <2>5. current_file_contains_data  BY <1>7 DEF names
  <2>6. file_name_current \in Nat  BY DEF AppendInv, DataTypes
  <2>7. \A z \in ZipsOf(names, call) :
          /\ z \in Zips /\ z.call = call /\ z.phase = "zipping"
          /\ z.data = files[z.name] /\ z.name \in DOMAIN files /\ z.name[1] = file_name_current
    <3> SUFFICES ASSUME NEW n \in names
                 PROVE  LET z == [name |-> n, data |-> files'[n], call |-> call, phase |-> "zipping"]
                        IN  /\ z \in Zips /\ z.call = call /\ z.phase = "zipping"
                            /\ z.data = files[z.name] /\ z.name \in DOMAIN files
                            /\ z.name[1] = file_name_current
      BY DEF ZipsOf
    <3>1. n \in DOMAIN files /\ n \in FileNames /\ files[n] \subseteq Nat /\ n[1] = file_name_current
      BY <1>0 DEF AppendInv, DataTypes
    <3> QED  BY <2>2, <2>4, <3>1 DEF Zips
  <2>8. DataTypes' /\ HistoryTypes' /\ PeriodsMatch' /\ LinesAreKept'  BY <2>1 DEF DataKept
  <2>9. ZipTypes'
    <3>1. bolt_shutdown' \in {"no", "writing", "zipping", "ok", "error"}
      BY <1>7 DEF AppendInv, ZipTypes
    <3>2. \A c \in writes' : c.at <= halves'  BY <1>7, <2>2, <2>4 DEF AppendInv, ZipTypes
    <3> QED  BY <1>7, <2>2, <2>7, <3>1, <3>2 DEF AppendInv, ZipTypes
  <2>10. \A z \in zips' : GoodZip(z)'
    <3>1. \A z \in ZipsOf(names, call) : GoodZip(z)'
      <4> SUFFICES ASSUME NEW z \in ZipsOf(names, call) PROVE GoodZip(z)'
        OBVIOUS
      <4>1. /\ z.call.kind # "final" /\ current_file_contains_data'
        BY <2>2, <2>4, <2>5, <2>7
      <4>2. z.name[1] <= file_name_current' /\ SplitsNow'
        BY <1>7, <2>4, <2>6, <2>7 DEF SplitsNow
      <4>3. files'[z.name] = z.data  BY <2>4, <2>7
      <4> QED  BY <4>1, <4>2, <4>3 DEF GoodZip
    <3> QED  BY <1>7, <2>1, <3>1 DEF DataKept
  <2>11. InTime'
    <3> SUFFICES ASSUME late_names = {} PROVE \A c \in writes' : GoodCall(c, zips)'
      BY <2>1, <2>4 DEF InTime, FilesInTime
    <3>1. \A c \in writes : GoodCall(c, zips')
      BY <1>7 DEF AppendInv, InTime, GoodCall, Covers
    <3>2. GoodCall(call, zips')
      <4>1. Covers(call, zips')  BY <1>1, <1>7, ZipsOfEach DEF Covers
      <4> QED  BY <1>7, <4>1 DEF GoodCall
    <3>3. \A c \in writes' : GoodCall(c, zips')  BY <1>7, <3>1, <3>2
    <3> QED  BY <3>3, <2>4 DEF GoodCall, Covers, PeriodOf, SplitsNow
  <2>12. Ending'
    <3>1. \A c \in writes : c.kind = "heartbeat"
      BY DEF AppendInv, ZipTypes, CallRecs, Ending
    <3>2. \A z \in zips' : z.call.kind # "final"
      BY <1>7, <2>2, <2>7 DEF AppendInv, Ending
    <3>3. bolt_shutdown' # "ok" /\ bolt_shutdown' # "zipping"  BY <1>7
    <3>4. bolt_shutdown' = "writing" <=> kind = "shutdown"  BY <1>7
    <3>5. \A c \in writes' : c.kind # "heartbeat" => c = call /\ kind = "shutdown"
      BY <1>7, <2>2, <3>1
    <3> QED  BY <1>7, <2>2, <3>1, <3>2, <3>3, <3>4, <3>5 DEF Ending
  <2> QED  BY <2>8, <2>9, <2>10, <2>11, <2>12 DEF AppendInv
<1> QED  BY <1>4, <1>5, <1>6, <1>7 DEF WriteToFile, names

LEMMA ZipEndsKeeps ==
  ASSUME AppendInv, NEW z \in zips, ZipEnds(z) PROVE AppendInv'
<1>1. /\ z.phase = "zipping"
      /\ UNCHANGED <<propagate_errors, halves, lines_received, current_data,
           current_file_contains_data, split_value, next_split_after, file_name_current,
           writes, bolt_shutdown, late_names, overtaken>>
  BY DEF ZipEnds, history_vars
<1>2. PICK ended : /\ ended \in {"done", "failed"}
                   /\ zips' = (zips \ {z}) \cup {[z EXCEPT !.phase = ended]}
                   /\ \/ /\ archived' = archived \cup z.data
                         /\ files' = [n \in DOMAIN files \ {z.name} |-> files[n]]
                      \/ ended = "failed" /\ UNCHANGED <<files, archived>>
  BY DEF ZipEnds, file_vars
<1>3. PICK new : new = [z EXCEPT !.phase = ended]
  OBVIOUS
<1>4. /\ z \in Zips /\ new \in Zips /\ new.phase = ended
      /\ new.name = z.name /\ new.data = z.data /\ new.call = z.call
  BY <1>2, <1>3 DEF AppendInv, ZipTypes, Zips
<1>5. /\ zips' = (zips \ {z}) \cup {new}
      /\ new.phase # "zipping"
  BY <1>2, <1>3, <1>4
<1>6. /\ DOMAIN files' \subseteq DOMAIN files
      /\ \A n \in DOMAIN files' : files'[n] = files[n]
      /\ archived \subseteq archived'
      /\ archived' \subseteq archived \cup z.data
      /\ \A n \in DOMAIN files \ DOMAIN files' : n = z.name /\ archived' = archived \cup z.data
  BY <1>2
<1>7. new.phase # "failed" => z.name \notin DOMAIN files'
  BY <1>2, <1>4
<1>8. DataTypes'
  <2>1. archived' \subseteq Nat  BY <1>4, <1>6 DEF Zips, AppendInv, DataTypes
  <2> QED  BY <2>1, <1>1, <1>6 DEF AppendInv, DataTypes
<1>9. ZipTypes' /\ HistoryTypes'
  BY <1>1, <1>4, <1>5 DEF AppendInv, ZipTypes, HistoryTypes
<1>10. PeriodsMatch'
  BY <1>1 DEF AppendInv, PeriodsMatch, PeriodOf, SplitsNow
<1>11. \A y \in zips' : GoodZip(y)'
  <2>1. UNCHANGED <<PeriodOf(halves), SplitsNow>>  BY <1>1 DEF PeriodOf, SplitsNow
  <2>2. \A y \in zips : GoodZip(y)'
    <3> SUFFICES ASSUME NEW y \in zips PROVE GoodZip(y)'
      OBVIOUS
    <3>1. GoodZip(y)  BY DEF AppendInv
    <3>2. y.phase = "zipping" /\ y.name \in DOMAIN files' =>
            \A x \in files'[y.name] :
              x \in y.data \cup archived' \/ <<y.name[1], x>> \in overtaken
      BY <3>1, <1>6 DEF GoodZip
    <3> QED  BY <3>1, <3>2, <2>1, <1>1 DEF GoodZip
  <2>3. GoodZip(new)'
    <3>1. GoodZip(z)'  BY <2>2
    <3> QED  BY <3>1, <1>4, <1>5 DEF GoodZip
  <2> QED  BY <2>2, <2>3, <1>5
<1>12. InTime'
  <2>1. UNCHANGED <<PeriodOf(halves), SplitsNow>>  BY <1>1 DEF PeriodOf, SplitsNow
  <2>0. late_names = {} => FilesAreCurrent'
    BY <1>1, <1>6 DEF AppendInv, InTime, FilesAreCurrent
  <2> SUFFICES ASSUME NEW c \in writes, late_names = {} PROVE GoodCall(c, zips)'
    BY <1>1, <2>0 DEF InTime
  <2>2. GoodCall(c, zips)  BY DEF AppendInv, InTime
  <2>4. Covers(c, zips) => Covers(c, zips)'
    <3>1. ASSUME NEW y \in zips, y.call = c, y.phase = "failed"
          PROVE  Covers(c, zips)'
      <4>1. y \in zips'  BY <1>1, <1>5, <3>1
      <4> QED  BY <3>1, <4>1 DEF Covers
    <3>2. ASSUME \A n \in DOMAIN files : \E y \in zips : y.call = c /\ y.name = n /\ y.phase = "zipping"
          PROVE  Covers(c, zips)'
      <4>1. CASE z.call = c /\ new.phase = "failed"
        <5>1. new \in zips' /\ new.call = c  BY <4>1, <1>4, <1>5
        <5> QED  BY <4>1, <5>1 DEF Covers
      <4>2. CASE z.call # c \/ z.name \notin DOMAIN files'
        <5> SUFFICES ASSUME NEW n \in DOMAIN files'
                     PROVE  \E y \in zips' : y.call = c /\ y.name = n /\ y.phase = "zipping"
          BY DEF Covers
        <5>1. PICK y \in zips : y.call = c /\ y.name = n /\ y.phase = "zipping"
          BY <3>2, <1>6
        <5>2. y # z  BY <4>2, <5>1
        <5>3. y \in zips'  BY <5>2, <1>5
        <5> QED  BY <5>1, <5>3
      <4> QED  BY <4>1, <4>2, <1>7
    <3> QED  BY <3>1, <3>2 DEF Covers
  <2> QED  BY <2>1, <2>2, <2>4, <1>1 DEF GoodCall
<1>13. Ending'
  <2>1. \A y \in zips' : \E x \in zips : x.call = y.call  BY <1>4, <1>5
  <2>2. DOMAIN files = {} => DOMAIN files' = {}  BY <1>6
  <2> QED  BY <2>1, <2>2, <1>1 DEF AppendInv, Ending
<1>14. LinesAreKept'
  <2> SUFFICES ASSUME NEW x \in 1..lines_received
               PROVE  \/ \E period \in late_names : <<period, x>> \in overtaken
                      \/ x \in {d[2] : d \in current_data} \/ x \in archived'
                      \/ \E n \in DOMAIN files' : x \in files'[n]
    BY <1>1 DEF LinesAreKept
  <2>1. ASSUME NEW n \in DOMAIN files, x \in files[n]
        PROVE  \/ \E period \in late_names : <<period, x>> \in overtaken
               \/ x \in archived' \/ \E m \in DOMAIN files' : x \in files'[m]
    <3>1. CASE n \in DOMAIN files'  BY <2>1, <3>1, <1>6
    <3>2. CASE n \notin DOMAIN files'
      <4>1. n = z.name /\ archived' = archived \cup z.data  BY <3>2, <1>6
      <4>2. x \in z.data \cup archived \/ <<z.name[1], x>> \in overtaken
        BY <2>1, <4>1, <1>1 DEF AppendInv, GoodZip
      <4>3. \A p : <<p, x>> \in overtaken => p \in late_names  BY DEF AppendInv, HistoryTypes
      <4> QED  BY <1>6, <4>1, <4>2, <4>3
    <3> QED  BY <3>1, <3>2
  <2> QED  BY <2>1, <1>6 DEF AppendInv, LinesAreKept
<1> QED  BY <1>8, <1>9, <1>10, <1>11, <1>12, <1>13, <1>14 DEF AppendInv

LEMMA ZipCallsBackKeeps ==
  ASSUME AppendInv, NEW z \in zips, ZipCallsBack(z) PROVE AppendInv'
<1> DEFINE err == z.phase = "failed"
           last == ~\E y \in zips \ {z} : y.call = z.call
<1>1. /\ UNCHANGED <<propagate_errors, halves, lines_received>> /\ z.phase # "zipping"
      /\ z \in Zips /\ z.call \in CallRecs /\ z.call.at \in Nat
  BY DEF ZipCallsBack, AppendInv, ZipTypes, Zips, CallRecs
<1>2. PICK others, waiting : others = zips \ {z} /\ waiting = writes \ {z.call}
  OBVIOUS
<1>3. late_names = {} => \A c \in writes : c # z.call => GoodCall(c, others)
  BY <1>2 DEF AppendInv, InTime, GoodCall, Covers
<1>4. CASE /\ z.call \notin writes \/ (~err /\ ~last)
           /\ zips' = others /\ NothingWritten /\ UNCHANGED <<writes, bolt_shutdown>>
  <2>1. DataKept /\ FilesInTime'  BY <1>1, <1>4, NothingWrittenKeeps
  <2>2. late_names = {} => \A c \in writes : GoodCall(c, others)
    <3> SUFFICES ASSUME z.call \in writes, ~err, late_names = {} PROVE GoodCall(z.call, others)
      BY <1>3, <1>4
    <3>1. GoodCall(z.call, zips)  BY DEF AppendInv, InTime
    <3> QED  BY <1>1, <1>2, <3>1 DEF GoodCall, Covers
  <2>3. writes \subseteq CallRecs /\ others \subseteq zips /\ (late_names' = {} => late_names = {})
    BY <1>2, <2>1 DEF AppendInv, ZipTypes, DataKept
  <2>4. late_names' = {} => \A c \in writes' : GoodCall(c, others)'
    BY <1>4, <2>1, <2>2, <2>3 DEF DataKept
  <2>5. InTime'
    BY <1>4, <2>1, <2>4 DEF InTime, FilesInTime, GoodCall, Covers
  <2>6. \A y \in zips' : GoodZip(y)'  BY <1>4, <2>1, <2>3 DEF DataKept
  <2>7. ZipTypes'  BY <1>1, <1>4, <2>3 DEF AppendInv, ZipTypes
  <2>8. Ending'
    BY <1>4, <2>1, <2>3 DEF AppendInv, Ending, DataKept
  <2> QED  BY <2>1, <2>5, <2>6, <2>7, <2>8 DEF DataKept, AppendInv
<1>5. CASE /\ z.call \in writes /\ (err \/ last) /\ z.call.kind = "final"
           /\ zips' = others /\ writes' = waiting /\ bolt_shutdown' = ShutdownAnswer(err)
           /\ NothingWritten
  <2>1. DataKept /\ FilesInTime'  BY <1>1, <1>5, NothingWrittenKeeps
  <2>2. /\ writes \subseteq CallRecs /\ others \subseteq zips /\ waiting \subseteq writes
        /\ late_names' = {} => late_names = {}
    BY <1>2, <2>1 DEF AppendInv, ZipTypes, DataKept
  <2>3. late_names' = {} => \A c \in writes' : GoodCall(c, others)'
    BY <1>2, <1>3, <1>5, <2>1, <2>2 DEF DataKept
  <2>4. InTime'  BY <1>5, <2>1, <2>3 DEF InTime, FilesInTime, GoodCall, Covers
  <2>5. \A y \in zips' : GoodZip(y)'  BY <1>5, <2>1, <2>2 DEF DataKept
  <2>6. bolt_shutdown' \in {"ok", "error"} /\ (bolt_shutdown' = "ok" /\ propagate_errors => ~err)
    BY <1>5 DEF ShutdownAnswer
  <2>7. ZipTypes'  BY <1>1, <1>5, <2>2, <2>6 DEF AppendInv, ZipTypes
  <2>8. \A c \in writes' : c.kind = "heartbeat"
    BY <1>2, <1>5 DEF AppendInv, Ending
  <2>9. ~err => current_data' = {} /\ (late_names' = {} => DOMAIN files' = {})
    <3> SUFFICES ASSUME ~err PROVE current_data = {} /\ (late_names = {} => DOMAIN files = {})
      BY <1>5 DEF NothingWritten, file_vars, history_vars
    <3>1. current_data = {}  BY <1>5 DEF AppendInv, GoodZip
    <3>2. late_names = {} => Covers(z.call, zips)  BY <1>5 DEF AppendInv, InTime, GoodCall
    <3>3. \A y \in zips : y.call = z.call => y = z  BY <1>5
    <3> QED  BY <1>1, <3>1, <3>2, <3>3 DEF Covers
  <2>10. Ending'
    BY <2>6, <2>8, <2>9, <2>1 DEF Ending, DataKept
  <2> QED  BY <2>1, <2>4, <2>5, <2>7, <2>10 DEF DataKept, AppendInv
<1>6. ASSUME z.call \in writes, err \/ last, z.call.kind # "final",
             IF err THEN NothingWritten
             ELSE /\ WriteData(PeriodOf(halves), z.call.at + 2)
                  /\ late_names' = late_names \cup LateNames(z.call.at),
             AfterWrite(z.call.kind, err, others, waiting)
      PROVE  AppendInv'
  <2>1. z.call.kind \in {"heartbeat", "shutdown"} /\ err \in BOOLEAN
    BY <1>1, <1>6 DEF CallRecs
  <2>2. EndsCall(z.call.kind, waiting, others)
    <3>1. late_names = {} => \A c \in waiting : GoodCall(c, others)  BY <1>2, <1>3
    <3>2. ASSUME z.call.kind = "shutdown"
          PROVE  /\ bolt_shutdown \in {"no", "writing"}
                 /\ waiting = {c \in writes : c.kind = "heartbeat"}
      BY <1>2, <1>6, <3>2 DEF AppendInv, Ending
    <3>3. ASSUME z.call.kind # "shutdown"
          PROVE  \A c \in writes \ waiting : c.kind = "heartbeat"
      BY <1>2, <2>1, <3>3
    <3> QED  BY <1>2, <3>1, <3>2, <3>3 DEF EndsCall
  <2>3. DataKept /\ FilesInTime' /\ (~err => current_data' = {})
    <3>1. CASE err  BY <1>1, <1>6, <3>1, NothingWrittenKeeps
    <3>2. CASE ~err
      <4>1. /\ WriteData(PeriodOf(halves), z.call.at + 2)
            /\ late_names' = late_names \cup LateNames(z.call.at)
        BY <1>6, <3>2
      <4>2. /\ DataKept /\ current_data' = {}
            /\ file_name_current = file_name_current' \/ DOMAIN files = {} => FilesInTime'
        BY <1>1, <4>1, WriteDataKeeps
      <4>3. \A y \in zips : y.call = z.call => y = z  BY <1>6, <3>2
      <4>4. file_name_current' = PeriodOf(halves)  BY <4>1 DEF WriteData
      <4>5. ASSUME late_names' = {}
            PROVE  file_name_current = file_name_current' \/ DOMAIN files = {}
        <5>1. late_names = {} /\ PeriodOf(z.call.at) = PeriodOf(halves)
          BY <4>1, <4>5 DEF LateNames
        <5>2. GoodCall(z.call, zips)  BY <1>6, <5>1 DEF AppendInv, InTime
        <5>3. CASE Covers(z.call, zips)
          BY <1>1, <3>2, <4>3, <5>3 DEF Covers
        <5> QED  BY <1>6, <4>4, <5>1, <5>2, <5>3 DEF GoodCall
      <4> QED  BY <4>2, <4>5 DEF FilesInTime
    <3> QED  BY <3>1, <3>2
  <2> HIDE DEF err, last
  <2> QED  BY <1>6, <2>1, <2>2, <2>3, AfterWriteKeeps
<1> QED  BY <1>2, <1>4, <1>5, <1>6 DEF ZipCallsBack, LateNames

LEMMA AppendStutters ==
  ASSUME AppendInv, UNCHANGED append_vars PROVE AppendInv'
<1> USE DEF append_vars, file_vars, history_vars, AppendInv
<1>1. DataTypes' /\ ZipTypes' /\ HistoryTypes'  BY DEF DataTypes, ZipTypes, HistoryTypes
<1>2. PeriodsMatch'  BY DEF PeriodsMatch, PeriodOf, SplitsNow
<1>3. \A z \in zips' : GoodZip(z)'  BY DEF GoodZip, PeriodOf, SplitsNow
<1>4. InTime'  BY DEF InTime, FilesAreCurrent, GoodCall, Covers, PeriodOf, SplitsNow
<1>5. Ending' /\ LinesAreKept'  BY DEF Ending, LinesAreKept
<1> QED  BY <1>1, <1>2, <1>3, <1>4, <1>5

\* Zips, calls that wait for them and the shutdown agree with the data and files: a
\* zip has read all there is in its file, unless this was named late.  As long as none
\* was, each file on the disk is one that will be zipped, and a call goes on when its
\* files are gone.
THEOREM AppendInvariant == FileAppendSpec => []AppendInv
<1>1. AppendInv /\ [FileAppendNext]_append_vars => AppendInv'
  <2> SUFFICES ASSUME AppendInv, [FileAppendNext]_append_vars PROVE AppendInv'
    OBVIOUS
  <2>1. CASE FileReceive  BY <2>1, ReceiveKeeps
  <2>2. CASE FileHeartbeat  BY <2>2, WriteToFileKeeps DEF FileHeartbeat
  <2>3. CASE FileShutdown  BY <2>3, WriteToFileKeeps DEF FileShutdown
  <2>4. CASE HalfPasses  BY <2>4, HalfKeeps
  <2>5. ASSUME NEW z \in zips, ZipEnds(z) \/ ZipCallsBack(z) PROVE AppendInv'
    BY <2>5, ZipEndsKeeps, ZipCallsBackKeeps
  <2>6. CASE UNCHANGED append_vars  BY <2>6, AppendStutters
  <2> QED  BY <2>1, <2>2, <2>3, <2>4, <2>5, <2>6 DEF FileAppendNext
<1> QED  BY <1>1, AppendInitially, PTL DEF FileAppendSpec

---------------------------------------------------------------------------
(* CsvFileAppendBolt.                                                      *)

Appends == [lines : SUBSET (0..csv_received), by : {"heartbeat", "shutdown"}]

CsvTypes ==
  /\ direct_fields \in {"collect", "known"} /\ csv_received \in Nat
  /\ csv_data \subseteq 0..csv_received /\ csv_failed \subseteq 0..csv_received
  /\ csv_appends \subseteq Appends /\ IsFiniteSet(csv_appends)
  /\ csv_file \in Seq(SUBSET (0..csv_received))
  /\ csv_shutdown \in {"no", "writing", "ok", "error"}

\* The header comes with the first record.
HeaderIsFirst ==
  direct_fields = "collect" =>
    csv_received = 0 /\ csv_data = {} /\ csv_appends = {} /\ csv_file = << >> /\ csv_failed = {}

OnePlace == \A n \in 0..csv_received : IF n = 0 THEN CsvPlaces(n) <= 1 ELSE CsvPlaces(n) = 1

CsvEnding ==
  /\ csv_shutdown # "no" => csv_data = {}
  /\ \A a, b \in csv_appends : a.by = "shutdown" /\ b.by = "shutdown" => a = b
  /\ csv_shutdown # "writing" => \A a \in csv_appends : a.by = "heartbeat"

CsvInv == CsvTypes /\ HeaderIsFirst /\ OnePlace /\ CsvEnding

\* The two places of a line that are sets of sets: appends in the file, and those
\* under way.
InFile(n) == {i \in DOMAIN csv_file : n \in csv_file[i]}
UnderWay(n) == {append \in csv_appends : n \in append.lines}

\* The terms of CsvPlaces are numbers.
Counted(n) ==
  /\ IsFiniteSet(InFile(n)) /\ IsFiniteSet(UnderWay(n))
  /\ Cardinality(InFile(n)) \in Nat /\ Cardinality(UnderWay(n)) \in Nat
  /\ CsvPlaces(n) = Cardinality(InFile(n)) + Cardinality(UnderWay(n))
       + (IF n \in csv_data THEN 1 ELSE 0) + (IF n \in csv_failed THEN 1 ELSE 0)

AllAreCounted == \A n \in Nat : Counted(n)

LEMMA PlacesAreCounted == CsvTypes => AllAreCounted
<1> SUFFICES ASSUME CsvTypes, NEW n \in Nat PROVE Counted(n)
  BY DEF AllAreCounted
<1>1. IsFiniteSet(1..Len(csv_file))
  <2>1. Len(csv_file) \in Nat  BY DEF CsvTypes
  <2> QED  BY <2>1, FS_Interval
<1>2. DOMAIN csv_file = 1..Len(csv_file)  BY DEF CsvTypes
<1>3. IsFiniteSet(InFile(n))
  <2>1. InFile(n) \subseteq 1..Len(csv_file)  BY <1>2 DEF InFile
  <2> QED  BY <1>1, <2>1, FS_Subset
<1>4. IsFiniteSet(UnderWay(n))
  <2>1. UnderWay(n) \subseteq csv_appends  BY DEF UnderWay
  <2> QED  BY <2>1, FS_Subset DEF CsvTypes
<1>5. \A S : Cardinality({n} \cap S) = IF n \in S THEN 1 ELSE 0
  <2> SUFFICES ASSUME NEW S PROVE Cardinality({n} \cap S) = IF n \in S THEN 1 ELSE 0
    OBVIOUS
  <2>1. CASE n \in S
    <3>1. {n} \cap S = {n}  BY <2>1
    <3> QED  BY <2>1, <3>1, FS_Singleton
  <2>2. CASE n \notin S
    <3>1. {n} \cap S = {}  BY <2>2
    <3> QED  BY <2>2, <3>1, FS_EmptySet
  <2> QED  BY <2>1, <2>2
<1>6. CsvPlaces(n) = Cardinality(InFile(n)) + Cardinality(UnderWay(n))
        + Cardinality({n} \cap csv_data) + Cardinality({n} \cap csv_failed)
  BY DEF CsvPlaces, InFile, UnderWay
<1> QED  BY <1>3, <1>4, <1>5, <1>6, FS_CardinalityType DEF Counted

LEMMA PlacesStayCounted == CsvTypes' => AllAreCounted'
BY PlacesAreCounted, PTL

LEMMA CsvInitially == CsvInit => CsvInv
<1> SUFFICES ASSUME CsvInit PROVE CsvInv
  OBVIOUS
<1> USE DEF CsvInit
<1>1. CsvTypes  BY FS_EmptySet DEF CsvTypes
<1>2. HeaderIsFirst /\ CsvEnding  BY DEF HeaderIsFirst, CsvEnding
<1>3. OnePlace
  <2>1. InFile(0) = {} /\ UnderWay(0) = {}  BY DEF InFile, UnderWay
  <2>2. CsvPlaces(0) = 0
    <3>1. Counted(0)  BY <1>1, PlacesAreCounted DEF AllAreCounted
    <3> QED  BY <2>1, <3>1, FS_EmptySet DEF Counted
  <2>3. \A n \in 0..csv_received : n = 0  OBVIOUS
  <2> QED  BY <2>2, <2>3 DEF OnePlace
<1> QED  BY <1>1, <1>2, <1>3 DEF CsvInv

LEMMA CsvReceiveKeeps ==
  ASSUME CsvInv, CsvReceive PROVE CsvInv'
<1> DEFINE header == IF direct_fields = "collect" THEN {0} ELSE {}
<1>1. /\ csv_shutdown = "no" /\ csv_received' = csv_received + 1 /\ direct_fields' = "known"
      /\ csv_data' = csv_data \cup {csv_received'} \cup header
      /\ UNCHANGED <<csv_appends, csv_file, csv_failed, csv_shutdown>>
      /\ csv_received \in Nat
  BY DEF CsvReceive, CsvInv, CsvTypes
<1>2. 0..csv_received \subseteq 0..csv_received'  BY <1>1
<1>3. CsvTypes'
  <2>1. csv_data' \subseteq 0..csv_received'
    BY <1>1, <1>2 DEF CsvInv, CsvTypes
  <2>2. csv_failed' \subseteq 0..csv_received'  BY <1>1, <1>2 DEF CsvInv, CsvTypes
  <2>3. csv_appends' \subseteq Appends'
    <3>1. \A a \in Appends : a \in Appends'  BY <1>2 DEF Appends
    <3> QED  BY <1>1, <3>1 DEF CsvInv, CsvTypes
  <2>4. csv_file' \in Seq(SUBSET (0..csv_received'))  BY <1>1, <1>2 DEF CsvInv, CsvTypes
  <2> QED  BY <1>1, <2>1, <2>2, <2>3, <2>4 DEF CsvInv, CsvTypes
<1>4. HeaderIsFirst' /\ CsvEnding'  BY <1>1 DEF HeaderIsFirst, CsvInv, CsvEnding
<1>5. \A n \in Nat : UNCHANGED <<InFile(n), UnderWay(n)>>  BY <1>1 DEF InFile, UnderWay
<1>6. OnePlace'
  <2> SUFFICES ASSUME NEW n \in 0..csv_received'
               PROVE  IF n = 0 THEN CsvPlaces(n)' <= 1 ELSE CsvPlaces(n)' = 1
    BY DEF OnePlace
  <2>1. n \in Nat  OBVIOUS
  <2>2. CsvTypes  BY DEF CsvInv
  <2>3. /\ Cardinality(InFile(n)) \in Nat /\ Cardinality(UnderWay(n)) \in Nat
        /\ CsvPlaces(n) = Cardinality(InFile(n)) + Cardinality(UnderWay(n))
              + (IF n \in csv_data THEN 1 ELSE 0) + (IF n \in csv_failed THEN 1 ELSE 0)
    BY <2>1, <2>2, PlacesAreCounted DEF AllAreCounted, Counted
  <2>4. CsvPlaces(n)' = Cardinality(InFile(n)) + Cardinality(UnderWay(n))
              + (IF n \in csv_data' THEN 1 ELSE 0) + (IF n \in csv_failed THEN 1 ELSE 0)
    <3>1. CsvPlaces(n)' = Cardinality(InFile(n)') + Cardinality(UnderWay(n)')
              + (IF n \in csv_data' THEN 1 ELSE 0) + (IF n \in csv_failed' THEN 1 ELSE 0)
      BY <1>3, <2>1, PlacesStayCounted DEF AllAreCounted, Counted
    <3>2. InFile(n)' = InFile(n) /\ UnderWay(n)' = UnderWay(n)  BY <1>5, <2>1
    <3> QED  BY <1>1, <3>1, <3>2
  <2>5. CASE n = csv_received'
    <3>1. n \notin 0..csv_received  BY <1>1, <2>5
    <3>2. InFile(n) = {} /\ UnderWay(n) = {} /\ n \notin csv_failed
      <4>1. \A i \in DOMAIN csv_file : csv_file[i] \subseteq 0..csv_received
        BY <2>2 DEF CsvTypes
      <4>2. \A a \in csv_appends : a.lines \subseteq 0..csv_received
        BY <2>2 DEF CsvTypes, Appends
      <4> QED  BY <2>2, <3>1, <4>1, <4>2 DEF CsvTypes, InFile, UnderWay
    <3>3. n \in csv_data'  BY <1>1, <2>5
    <3> QED  BY <2>4, <3>2, <3>3, FS_EmptySet
  <2>6. CASE n # csv_received' /\ n \notin header
    <3>1. n \in csv_data' <=> n \in csv_data  BY <1>1, <2>6
    <3>2. n \in 0..csv_received  BY <1>1, <2>6
    <3>3. CsvPlaces(n)' = CsvPlaces(n)  BY <2>3, <2>4, <3>1
    <3> QED  BY <3>2, <3>3 DEF CsvInv, OnePlace
  <2>7. CASE n \in header
    <3>1. n = 0 /\ csv_appends = {} /\ csv_file = << >> /\ csv_failed = {}
      BY <2>7 DEF CsvInv, HeaderIsFirst
    <3>2. InFile(n) = {} /\ UnderWay(n) = {} /\ n \notin csv_failed
      BY <3>1 DEF InFile, UnderWay
    <3>3. n \in csv_data'  BY <1>1, <2>7
    <3>4. CsvPlaces(n)' = 1  BY <2>4, <3>2, <3>3, FS_EmptySet
    <3> QED  BY <3>1, <3>4
  <2> QED  BY <2>5, <2>6, <2>7
<1> QED  BY <1>3, <1>4, <1>6 DEF CsvInv

\* A step that leaves each line in as many places as it was.
LEMMA PlacesKept ==
  ASSUME OnePlace, UNCHANGED csv_received, \A n \in 0..csv_received : UNCHANGED CsvPlaces(n)
  PROVE  OnePlace'
BY DEF OnePlace

LEMMA CsvWriteKeeps ==
  ASSUME CsvInv, NEW by \in {"heartbeat", "shutdown"}, CsvWriteToFile(by) PROVE CsvInv'
<1>1. /\ csv_shutdown = "no" /\ csv_data' = {} /\ csv_received \in Nat
      /\ csv_appends' = csv_appends \cup
           (IF csv_data = {} THEN {} ELSE {[lines |-> csv_data, by |-> by]})
      /\ csv_shutdown' = IF by = "heartbeat" THEN "no"
                         ELSE IF csv_data = {} THEN "ok" ELSE "writing"
      /\ UNCHANGED <<direct_fields, csv_received, csv_file, csv_failed>>
  BY DEF CsvWriteToFile, CsvInv, CsvTypes
<1>2. PICK new : new = [lines |-> csv_data, by |-> by]
  OBVIOUS
<1>3. new \in Appends /\ new.lines = csv_data /\ new.by = by
  BY <1>2 DEF CsvInv, CsvTypes, Appends
<1>4. csv_appends' = csv_appends \cup (IF csv_data = {} THEN {} ELSE {new})
  BY <1>1, <1>2
<1>5. CsvTypes'
  <2>1. IsFiniteSet(csv_appends')
    BY <1>4, FS_AddElement, csv_appends \cup {} = csv_appends DEF CsvInv, CsvTypes
  <2>2. csv_appends' \subseteq Appends'
    <3>1. Appends' = Appends  BY <1>1 DEF Appends
    <3> QED  BY <1>3, <1>4, <3>1 DEF CsvInv, CsvTypes
  <2>3. csv_shutdown' \in {"no", "writing", "ok", "error"}  BY <1>1
  <2> QED  BY <1>1, <2>1, <2>2, <2>3 DEF CsvInv, CsvTypes
<1>6. HeaderIsFirst'
  BY <1>1, <1>4 DEF CsvInv, HeaderIsFirst
<1>7. CsvEnding'
  <2>1. \A a \in csv_appends : a.by = "heartbeat"  BY <1>1 DEF CsvInv, CsvEnding
  <2>2. \A a \in csv_appends' : a \in csv_appends \/ (a = new /\ csv_data # {})  BY <1>4
  <2>3. by = "heartbeat" => \A a \in csv_appends' : a.by = "heartbeat"  BY <1>3, <2>1, <2>2
  <2>4. csv_data = {} => \A a \in csv_appends' : a.by = "heartbeat"  BY <2>1, <2>2
  <2>5. \A a, b \in csv_appends' : a.by = "shutdown" /\ b.by = "shutdown" => a = b
    BY <2>1, <2>2
  <2>6. csv_shutdown' # "writing" => by = "heartbeat" \/ csv_data = {}  BY <1>1
  <2> QED  BY <1>1, <2>3, <2>4, <2>5, <2>6 DEF CsvEnding
<1>8. OnePlace'
  <2> SUFFICES ASSUME NEW n \in 0..csv_received PROVE CsvPlaces(n)' = CsvPlaces(n)
    BY <1>1, PlacesKept DEF CsvInv
  <2>1. n \in Nat /\ CsvTypes  BY DEF CsvInv
  <2>2. CsvPlaces(n) <= 1
    BY <1>1 DEF CsvInv, OnePlace
  <2>3. /\ Cardinality(InFile(n)) \in Nat /\ Cardinality(UnderWay(n)) \in Nat
        /\ IsFiniteSet(UnderWay(n))
        /\ CsvPlaces(n) = Cardinality(InFile(n)) + Cardinality(UnderWay(n))
              + (IF n \in csv_data THEN 1 ELSE 0) + (IF n \in csv_failed THEN 1 ELSE 0)
    BY <2>1, PlacesAreCounted DEF AllAreCounted, Counted
  <2>4. CsvPlaces(n)' = Cardinality(InFile(n)) + Cardinality(UnderWay(n)')
              + (IF n \in csv_failed THEN 1 ELSE 0)
    <3>1. CsvPlaces(n)' = Cardinality(InFile(n)') + Cardinality(UnderWay(n)')
              + (IF n \in csv_data' THEN 1 ELSE 0) + (IF n \in csv_failed' THEN 1 ELSE 0)
      BY <1>5, <2>1, PlacesStayCounted DEF AllAreCounted, Counted
    <3>2. InFile(n)' = InFile(n)  BY <1>1 DEF InFile
    <3>3. Cardinality(UnderWay(n)') \in Nat  BY <1>5, <2>1, PlacesStayCounted DEF AllAreCounted, Counted
    <3> QED  BY <1>1, <3>1, <3>2, <3>3, <2>3
  <2>5. CASE n \notin csv_data
    <3>1. UnderWay(n)' = UnderWay(n)  BY <1>3, <1>4, <2>5 DEF UnderWay
    <3> QED  BY <2>3, <2>4, <2>5, <3>1
  <2>6. CASE n \in csv_data
    <3>1. Cardinality(UnderWay(n)) = 0  BY <2>2, <2>3, <2>6
    <3>2. UnderWay(n) = {}  BY <2>3, <3>1, FS_EmptySet
    <3>3. UnderWay(n)' = {new}  BY <1>3, <1>4, <2>6, <3>2 DEF UnderWay
    <3>4. Cardinality(UnderWay(n)') = 1  BY <3>3, FS_Singleton
    <3> QED  BY <2>3, <2>4, <2>6, <3>1, <3>4
  <2> QED  BY <2>5, <2>6
<1> QED  BY <1>5, <1>6, <1>7, <1>8 DEF CsvInv

LEMMA CsvAppendEndsKeeps ==
  ASSUME CsvInv, NEW append \in csv_appends, CsvAppendEnds(append) PROVE CsvInv'
<1>1. /\ csv_appends' = csv_appends \ {append}
      /\ UNCHANGED <<direct_fields, csv_received, csv_data>>
      /\ csv_received \in Nat /\ append \in Appends
  BY DEF CsvAppendEnds, CsvInv, CsvTypes
<1>2. PICK err \in BOOLEAN :
        /\ csv_file' = IF err THEN csv_file ELSE Append(csv_file, append.lines)
        /\ csv_failed' = IF err THEN csv_failed \cup append.lines ELSE csv_failed
        /\ csv_shutdown' = IF append.by = "heartbeat" THEN csv_shutdown
                           ELSE IF err THEN "error" ELSE "ok"
  BY DEF CsvAppendEnds
<1>3. append.lines \subseteq 0..csv_received /\ append.by \in {"heartbeat", "shutdown"}
  BY <1>1 DEF Appends
<1>4. CsvTypes'
  <2>1. IsFiniteSet(csv_appends')
    BY <1>1, FS_RemoveElement DEF CsvInv, CsvTypes
  <2>2. csv_appends' \subseteq Appends'
    <3>1. Appends' = Appends  BY <1>1 DEF Appends
    <3> QED  BY <1>1, <3>1 DEF CsvInv, CsvTypes
  <2>3. csv_file' \in Seq(SUBSET (0..csv_received))  BY <1>2, <1>3 DEF CsvInv, CsvTypes
  <2>4. csv_shutdown' \in {"no", "writing", "ok", "error"}  BY <1>2 DEF CsvInv, CsvTypes
  <2>5. csv_failed' \subseteq 0..csv_received  BY <1>2, <1>3 DEF CsvInv, CsvTypes
  <2> QED  BY <1>1, <2>1, <2>2, <2>3, <2>4, <2>5 DEF CsvInv, CsvTypes
<1>5. HeaderIsFirst'  BY <1>1 DEF CsvInv, HeaderIsFirst
<1>6. CsvEnding'
  <2>1. csv_shutdown = "writing" \/ append.by = "heartbeat"  BY DEF CsvInv, CsvEnding
  <2>2. CASE append.by = "heartbeat"
    <3>1. csv_shutdown' = csv_shutdown  BY <1>2, <2>2
    <3> QED  BY <1>1, <3>1 DEF CsvInv, CsvEnding
  <2>3. CASE append.by = "shutdown"
    <3>1. \A a \in csv_appends' : a.by = "heartbeat"
      BY <1>1, <2>3 DEF CsvInv, CsvTypes, Appends, CsvEnding
    <3>2. csv_data' = {}  BY <1>1, <2>1, <2>3 DEF CsvInv, CsvEnding
    <3> QED  BY <1>1, <3>1, <3>2 DEF CsvInv, CsvEnding
  <2> QED  BY <1>3, <2>2, <2>3
<1>7. OnePlace'
  <2> SUFFICES ASSUME NEW n \in 0..csv_received PROVE CsvPlaces(n)' = CsvPlaces(n)
    BY <1>1, PlacesKept DEF CsvInv
  <2>1. n \in Nat /\ CsvTypes  BY DEF CsvInv
  <2>2. CsvPlaces(n) <= 1
    BY <1>1 DEF CsvInv, OnePlace
  <2> DEFINE data == IF n \in csv_data THEN 1 ELSE 0
             failed == IF n \in csv_failed THEN 1 ELSE 0
             failedLater == IF n \in csv_failed' THEN 1 ELSE 0
  <2>3. /\ Cardinality(InFile(n)) \in Nat /\ Cardinality(UnderWay(n)) \in Nat
        /\ IsFiniteSet(UnderWay(n)) /\ IsFiniteSet(InFile(n))
        /\ CsvPlaces(n) = Cardinality(InFile(n)) + Cardinality(UnderWay(n)) + data + failed
    BY <2>1, PlacesAreCounted DEF AllAreCounted, Counted
  <2>4. CsvPlaces(n)' = Cardinality(InFile(n)') + Cardinality(UnderWay(n)') + data + failedLater
    BY <1>1, <1>4, <2>1, PlacesStayCounted DEF AllAreCounted, Counted
  <2>5. data \in Nat /\ failed \in Nat  OBVIOUS
  <2>6. csv_file \in Seq(SUBSET (0..csv_received)) /\ Len(csv_file) \in Nat
        /\ DOMAIN csv_file = 1..Len(csv_file)
    BY <2>1 DEF CsvTypes
  <2>7. CASE n \notin append.lines
    <3>1. UnderWay(n)' = UnderWay(n)  BY <1>1, <2>7 DEF UnderWay
    <3>2. InFile(n)' = InFile(n)
      <4>1. CASE err  BY <1>2, <4>1 DEF InFile
      <4>2. CASE ~err
        <5>1. csv_file' = Append(csv_file, append.lines)  BY <1>2, <4>2
        <5>2. /\ DOMAIN csv_file' = 1..(Len(csv_file) + 1)
              /\ \A i \in 1..Len(csv_file) : csv_file'[i] = csv_file[i]
              /\ csv_file'[Len(csv_file) + 1] = append.lines
          BY <5>1, <1>3, <2>6
        <5> QED  BY <2>6, <2>7, <5>2 DEF InFile
      <4> QED  BY <4>1, <4>2
    <3>3. failedLater = failed  BY <1>2, <2>7
    <3> QED  BY <2>3, <2>4, <3>1, <3>2, <3>3
  <2>8. CASE n \in append.lines
    <3>1. append \in UnderWay(n)  BY <2>8 DEF UnderWay
    <3>2. UnderWay(n)' = UnderWay(n) \ {append}  BY <1>1 DEF UnderWay
    <3>3. Cardinality(UnderWay(n)') = Cardinality(UnderWay(n)) - 1
      BY <2>3, <3>1, <3>2, FS_RemoveElement
    <3>4. Cardinality(UnderWay(n)) # 0  BY <2>3, <3>1, FS_EmptySet
    <3>5. failed = 0  BY <2>2, <2>3, <2>5, <3>4
    <3>6. CASE err
      <4>1. InFile(n)' = InFile(n)  BY <1>2, <3>6 DEF InFile
      <4>2. failedLater = 1  BY <1>2, <2>8, <3>6
      <4> HIDE DEF data, failed, failedLater
      <4> QED  BY <2>3, <2>4, <2>5, <3>3, <3>5, <4>1, <4>2
    <3>7. CASE ~err
      <4>1. csv_file' = Append(csv_file, append.lines)  BY <1>2, <3>7
      <4>2. /\ DOMAIN csv_file' = 1..(Len(csv_file) + 1)
            /\ \A i \in 1..Len(csv_file) : csv_file'[i] = csv_file[i]
            /\ csv_file'[Len(csv_file) + 1] = append.lines
        BY <4>1, <1>3, <2>6
      <4>3. InFile(n)' = InFile(n) \cup {Len(csv_file) + 1}
        BY <2>6, <2>8, <4>2 DEF InFile
      <4>4. Len(csv_file) + 1 \notin InFile(n)  BY <2>6 DEF InFile
      <4>5. Cardinality(InFile(n)') = Cardinality(InFile(n)) + 1
        BY <2>3, <4>3, <4>4, FS_AddElement
      <4>6. failedLater = failed  BY <1>2, <3>7
      <4> HIDE DEF data, failed, failedLater
      <4> QED  BY <2>3, <2>4, <2>5, <3>3, <3>5, <4>5, <4>6
    <3> QED  BY <3>6, <3>7
  <2> QED  BY <2>7, <2>8
<1> QED  BY <1>4, <1>5, <1>6, <1>7 DEF CsvInv

LEMMA CsvStutters ==
  ASSUME CsvInv, UNCHANGED csv_vars PROVE CsvInv'
<1> USE DEF csv_vars, CsvInv
<1>1. CsvTypes'  BY DEF CsvTypes, Appends
<1>2. HeaderIsFirst' /\ CsvEnding'  BY DEF HeaderIsFirst, CsvEnding
<1>3. OnePlace'  BY DEF OnePlace, CsvPlaces
<1> QED  BY <1>1, <1>2, <1>3

\* Each record of the CSV bolt is in one place, and its shutdown has an append of
\* its own at most.
THEOREM CsvInvariant == CsvSpec => []CsvInv
<1>1. CsvInv /\ [CsvNext]_csv_vars => CsvInv'
  BY CsvReceiveKeeps, CsvWriteKeeps, CsvAppendEndsKeeps, CsvStutters DEF CsvNext
<1> QED  BY <1>1, CsvInitially, PTL DEF CsvSpec

---------------------------------------------------------------------------
(* Both bolts.                                                             *)

\* No datum that a bolt has taken gets lost, whatever calls wait for zips or
\* appends, however long these take, whichever of them fail, and however often a call
\* is repeated, but one that was written over a zip to a file that was named late.
THEOREM NoDatumIsLost == FileAppendSpec /\ CsvSpec => []NothingLost
<1>1. AppendInv /\ CsvInv => NothingLost
  <2> SUFFICES ASSUME AppendInv, CsvInv PROVE NothingLost
    OBVIOUS
  <2>1. csv_received \in Nat /\ OnePlace  BY DEF CsvInv, CsvTypes
  <2>2. \A n \in 1..csv_received : CsvPlaces(n) = 1  BY <2>1 DEF OnePlace
  <2>3. CsvPlaces(0) <= 1  BY <2>1 DEF OnePlace
  <2> QED  BY <2>2, <2>3 DEF AppendInv, LinesAreKept, NothingLost
<1> QED  BY <1>1, AppendInvariant, CsvInvariant, PTL

\* A shutdown that calls back without an error has left nothing in the buffer and, if
\* no file was named late, none unzipped, and the CSV bolt's shutdown has waited for its own append.
THEOREM ShutdownsSaveAll == FileAppendSpec /\ CsvSpec => []ShutdownSaves
<1>1. AppendInv /\ CsvInv => ShutdownSaves
  BY DEF AppendInv, Ending, CsvInv, CsvEnding, ShutdownSaves
<1> QED  BY <1>1, AppendInvariant, CsvInvariant, PTL

---------------------------------------------------------------------------
(* FileAppendBoltEx: the parts of the invariant.                           *)

FileOf(k) == <<k, buckets[k].ts_start>>

InPeriod(r, k, start) == r.key = k /\ start <= r.ts /\ r.ts <= start + SplitPeriod

\* Data are numbered in the order in which they come.
RecordsOK ==
  /\ IsFiniteSet(records)
  /\ \A r \in records : r.ts \in Nat /\ r.id \in Nat /\ r.id < Cardinality(records)

BucketRecords == [ts_start : Nat, data : SUBSET records, contains : BOOLEAN]

\* A bucket was opened for a datum of its period, and later data are not older.
BucketsOK ==
  \A k \in DOMAIN buckets :
    /\ buckets[k] \in BucketRecords
    /\ \A r \in buckets[k].data : InPeriod(r, k, buckets[k].ts_start)
    /\ \E r \in records : r.key = k /\ buckets[k].ts_start <= r.ts

\* The files on the disk are the current files of the buckets.
FilesOK ==
  \A n \in DOMAIN bucket_files :
    /\ n[1] \in DOMAIN buckets /\ n = FileOf(n[1]) /\ buckets[n[1]].contains
    /\ bucket_files[n] \subseteq records
    /\ \A r \in bucket_files[n] : InPeriod(r, n[1], n[2])

ZippedOK ==
  \A g \in gz_files : g.data \subseteq records /\ \A r \in g.data : InPeriod(r, g.key, g.ts_start)

\* Until the shutdown a bucket finds the file that it believes to have written.
FilesExist == \A k \in DOMAIN buckets : buckets[k].contains => FileOf(k) \in DOMAIN bucket_files

\* While a file is closed nothing is written to it.
Closes(c) ==
  /\ c.key \in DOMAIN buckets /\ c.ts_start = buckets[c.key].ts_start
  /\ buckets[c.key].data = {}
  /\ FileOf(c.key) \in DOMAIN bucket_files /\ bucket_files[FileOf(c.key)] = c.data

\* receive closes one file, for its datum; shutdown closes one of each bucket.
ClosingOK ==
  \A c \in closing :
    /\ Closes(c)
    /\ c.for # {} => closing = {c} /\ ex_shutdown = "no" /\ \E r \in records : c.for = {r} /\ r.key = c.key
    /\ ex_shutdown = "no" => c.for # {}
    /\ \A d \in closing : d.key = c.key => d = c

EndingOK ==
  /\ ex_shutdown = "no" => FilesExist
  /\ ex_shutdown # "no" => \A k \in DOMAIN buckets : buckets[k].data = {}
  /\ ex_shutdown \in {"closing", "ok"} =>
       \A n \in DOMAIN bucket_files : \E c \in closing : n = <<c.key, c.ts_start>>
  /\ ex_shutdown = "ok" => closing = {}

\* Where a datum is.
Held(r) == \E c \in closing : r \in c.for
Buffered(r) == \E k \in DOMAIN buckets : r \in buckets[k].data
Filed(r) == \E n \in DOMAIN bucket_files : r \in bucket_files[n]
Zipped(r) == \E g \in gz_files : r \in g.data

SomewhereOK == \A r \in records \ refused : Held(r) \/ Buffered(r) \/ Filed(r) \/ Zipped(r)

Once(r) ==
  /\ Held(r) => ~Buffered(r) /\ ~Filed(r) /\ ~Zipped(r)
  /\ ~(Buffered(r) /\ Filed(r)) /\ (Buffered(r) \/ Filed(r) => ~Zipped(r))
  /\ \A g, h \in gz_files : r \in g.data /\ r \in h.data => g = h

OnceOK == ~unlink_failed => \A r \in records : Once(r)

BucketInv ==
  /\ RecordsOK /\ BucketsOK /\ FilesOK /\ ZippedOK /\ ClosingOK /\ EndingOK
  /\ SomewhereOK /\ OnceOK

---------------------------------------------------------------------------
(* Periods, and what writing does to the buckets and files.                *)

LEMMA PeriodsContain ==
  ASSUME NEW ts \in Nat
  PROVE  TsStart(ts) \in Nat /\ TsStart(ts) <= ts /\ ts <= TsStart(ts) + SplitPeriod
BY FileAppendExAssumption DEF TsStart

\* After writing, data of the buckets are in files, under the same names.
Wrote(keys) ==
  /\ DOMAIN buckets' = DOMAIN buckets
  /\ \A k \in DOMAIN buckets :
       /\ buckets'[k] \in BucketRecords /\ buckets'[k].ts_start = buckets[k].ts_start
       /\ buckets'[k].data = IF k \in keys THEN {} ELSE buckets[k].data
       /\ buckets'[k].contains = IF k \in keys /\ buckets[k].data # {} THEN TRUE ELSE buckets[k].contains
  /\ DOMAIN bucket_files' = DOMAIN bucket_files \cup {FileOf(k) : k \in {j \in keys : buckets[j].data # {}}}
  /\ \A n \in DOMAIN bucket_files : bucket_files[n] \subseteq bucket_files'[n]
  /\ \A k \in keys : buckets[k].data # {} => buckets[k].data \subseteq bucket_files'[FileOf(k)]
  /\ \A n \in DOMAIN bucket_files' : \A r \in bucket_files'[n] :
       \/ n \in DOMAIN bucket_files /\ r \in bucket_files[n]
       \/ \E k \in keys : n = FileOf(k) /\ r \in buckets[k].data

LEMMA Flushing ==
  ASSUME BucketsOK, NEW keys \in SUBSET DOMAIN buckets, Flushed(keys)
  PROVE  Wrote(keys)
<1> DEFINE written == {k \in keys : buckets[k].data # {}}
           names == DOMAIN bucket_files \cup {FileOf(k) : k \in written}
           Old(n) == IF n \in DOMAIN bucket_files THEN bucket_files[n] ELSE {}
           New(n) == UNION {buckets[k].data : k \in {j \in written : FileOf(j) = n}}
<1>1. bucket_files' = [n \in names |-> Old(n) \cup New(n)]
  BY DEF Flushed, FileOf
<1>2. buckets' = [k \in DOMAIN buckets |->
         IF k \in written THEN [buckets[k] EXCEPT !.data = {}, !.contains = TRUE] ELSE buckets[k]]
  BY DEF Flushed
<1>3. \A k \in DOMAIN buckets : buckets[k] \in BucketRecords
  BY DEF BucketsOK
<1>4. \A k \in DOMAIN buckets :
       /\ buckets'[k] \in BucketRecords /\ buckets'[k].ts_start = buckets[k].ts_start
       /\ buckets'[k].data = IF k \in keys THEN {} ELSE buckets[k].data
       /\ buckets'[k].contains = IF k \in keys /\ buckets[k].data # {} THEN TRUE ELSE buckets[k].contains
  <2> SUFFICES ASSUME NEW k \in DOMAIN buckets
               PROVE /\ buckets'[k] \in BucketRecords /\ buckets'[k].ts_start = buckets[k].ts_start
                     /\ buckets'[k].data = IF k \in keys THEN {} ELSE buckets[k].data
                     /\ buckets'[k].contains = IF k \in keys /\ buckets[k].data # {} THEN TRUE
                                               ELSE buckets[k].contains
    OBVIOUS
  <2>1. CASE k \in written
    <3>1. buckets'[k] = [buckets[k] EXCEPT !.data = {}, !.contains = TRUE]  BY <1>2, <2>1
    <3> QED  BY <1>3, <2>1, <3>1 DEF BucketRecords
  <2>2. CASE k \notin written
    <3>1. buckets'[k] = buckets[k]  BY <1>2, <2>2
    <3> QED  BY <1>3, <2>2, <3>1
  <2> QED  BY <2>1, <2>2
<1>5. DOMAIN buckets' = DOMAIN buckets  BY <1>2
<1>6. \A n \in DOMAIN bucket_files : Old(n) = bucket_files[n]  OBVIOUS
<1>7. \A k \in keys : buckets[k].data # {} =>
        FileOf(k) \in names /\ buckets[k].data \subseteq New(FileOf(k))
  OBVIOUS
<1>8. \A n, r : r \in New(n) => \E k \in keys : n = FileOf(k) /\ r \in buckets[k].data
  OBVIOUS
<1>9. \A n, r : r \in Old(n) => n \in DOMAIN bucket_files /\ r \in bucket_files[n]
  OBVIOUS
<1>10. DOMAIN bucket_files \subseteq names  OBVIOUS
<1> HIDE DEF names, Old, New
<1>11. DOMAIN bucket_files' = names /\ \A n \in names : bucket_files'[n] = Old(n) \cup New(n)
  BY <1>1
<1>12. \A n \in DOMAIN bucket_files : bucket_files[n] \subseteq bucket_files'[n]
  BY <1>6, <1>10, <1>11
<1>13. \A k \in keys : buckets[k].data # {} => buckets[k].data \subseteq bucket_files'[FileOf(k)]
  BY <1>7, <1>11
<1>14. \A n \in DOMAIN bucket_files' : \A r \in bucket_files'[n] :
         \/ n \in DOMAIN bucket_files /\ r \in bucket_files[n]
         \/ \E k \in keys : n = FileOf(k) /\ r \in buckets[k].data
  BY <1>8, <1>9, <1>11
<1>15. DOMAIN bucket_files' = DOMAIN bucket_files \cup {FileOf(k) : k \in {j \in keys : buckets[j].data # {}}}
  BY <1>11 DEF names
<1> QED  BY <1>4, <1>5, <1>12, <1>13, <1>14, <1>15 DEF Wrote

\* Writing keeps all data where they should be.
FlushKept ==
  /\ BucketsOK' /\ FilesOK' /\ ZippedOK' /\ (FilesExist => FilesExist')
  /\ \A c \in closing : Closes(c) => Closes(c)'
  /\ \A r : /\ Buffered(r)' => Buffered(r)
            /\ Filed(r) => Filed(r)'
            /\ Filed(r)' => Buffered(r) \/ Filed(r)
            /\ Buffered(r) => Buffered(r)' \/ Filed(r)'
            /\ Buffered(r)' /\ Filed(r)' => Filed(r)
            /\ Zipped(r)' <=> Zipped(r)

LEMMA FlushKeeps ==
  ASSUME BucketInv, NEW keys \in SUBSET DOMAIN buckets, Flushed(keys),
         records \subseteq records', UNCHANGED gz_files
  PROVE  FlushKept
<1>1. Wrote(keys)  BY Flushing DEF BucketInv
<1> USE DEF BucketInv
<1>2. \A k \in DOMAIN buckets : UNCHANGED FileOf(k)  BY <1>1 DEF Wrote, FileOf
<1>3. \A k \in DOMAIN buckets : buckets[k] \in BucketRecords  BY DEF BucketsOK
<1>4. BucketsOK'
  <2> SUFFICES ASSUME NEW k \in DOMAIN buckets
               PROVE  /\ buckets'[k] \in BucketRecords'
                      /\ \A r \in buckets'[k].data : InPeriod(r, k, buckets'[k].ts_start)
                      /\ \E r \in records' : r.key = k /\ buckets'[k].ts_start <= r.ts
    BY <1>1 DEF BucketsOK, Wrote, InPeriod
  <2>1. buckets'[k] \in BucketRecords'
    <3>1. BucketRecords \subseteq BucketRecords'  BY DEF BucketRecords
    <3> QED  BY <1>1, <3>1 DEF Wrote
  <2>2. \A r \in buckets'[k].data : InPeriod(r, k, buckets'[k].ts_start)
    BY <1>1 DEF BucketsOK, Wrote
  <2>3. \E r \in records' : r.key = k /\ buckets'[k].ts_start <= r.ts
    BY <1>1 DEF BucketsOK, Wrote
  <2> QED  BY <2>1, <2>2, <2>3
<1>5. FilesOK'
  <2> SUFFICES ASSUME NEW n \in DOMAIN bucket_files'
               PROVE  /\ n[1] \in DOMAIN buckets' /\ n = FileOf(n[1])' /\ buckets'[n[1]].contains
                      /\ bucket_files'[n] \subseteq records'
                      /\ \A r \in bucket_files'[n] : InPeriod(r, n[1], n[2])
    BY DEF FilesOK, FileOf, InPeriod
  <2>1. /\ n[1] \in DOMAIN buckets /\ n = FileOf(n[1]) /\ buckets'[n[1]].contains
    <3>1. CASE n \in DOMAIN bucket_files  BY <3>1, <1>1 DEF FilesOK, Wrote
    <3>2. ASSUME NEW k \in keys, buckets[k].data # {}, n = FileOf(k)
          PROVE  n[1] \in DOMAIN buckets /\ n = FileOf(n[1]) /\ buckets'[n[1]].contains
      <4>1. n[1] = k  BY <3>2 DEF FileOf
      <4> QED  BY <3>2, <4>1, <1>1 DEF Wrote
    <3> QED  BY <3>1, <3>2, <1>1 DEF Wrote
  <2>2. \A r \in bucket_files'[n] : r \in records /\ InPeriod(r, n[1], n[2])
    <3> SUFFICES ASSUME NEW r \in bucket_files'[n] PROVE r \in records /\ InPeriod(r, n[1], n[2])
      OBVIOUS
    <3>1. CASE n \in DOMAIN bucket_files /\ r \in bucket_files[n]  BY <3>1 DEF FilesOK
    <3>2. ASSUME NEW k \in keys, n = FileOf(k), r \in buckets[k].data
          PROVE  r \in records /\ InPeriod(r, n[1], n[2])
      <4>1. n[1] = k /\ n[2] = buckets[k].ts_start  BY <3>2 DEF FileOf
      <4> QED  BY <1>3, <3>2, <4>1 DEF BucketsOK, BucketRecords
    <3> QED  BY <3>1, <3>2, <1>1 DEF Wrote
  <2> QED  BY <1>1, <1>2, <2>1, <2>2 DEF Wrote
<1>6. ZippedOK'  BY DEF ZippedOK, InPeriod
<1>7. FilesExist => FilesExist'
  <2> SUFFICES ASSUME FilesExist, NEW k \in DOMAIN buckets, buckets'[k].contains
               PROVE  FileOf(k) \in DOMAIN bucket_files'
    BY <1>1, <1>2 DEF FilesExist, Wrote
  <2>1. CASE buckets[k].contains  BY <2>1, <1>1 DEF FilesExist, Wrote
  <2>2. CASE k \in keys /\ buckets[k].data # {}  BY <2>2, <1>1 DEF Wrote
  <2> QED  BY <2>1, <2>2, <1>1 DEF Wrote
<1>8. ASSUME NEW c \in closing, Closes(c) PROVE Closes(c)'
  <2>1. /\ c.key \in DOMAIN buckets' /\ c.ts_start = buckets'[c.key].ts_start
        /\ buckets'[c.key].data = {} /\ FileOf(c.key)' = FileOf(c.key)
    BY <1>1, <1>2, <1>8 DEF Closes, Wrote
  <2>2. FileOf(c.key) \in DOMAIN bucket_files'  BY <1>1, <1>8 DEF Closes, Wrote
  <2>3. bucket_files'[FileOf(c.key)] = bucket_files[FileOf(c.key)]
    <3>1. ASSUME NEW r \in bucket_files'[FileOf(c.key)] PROVE r \in bucket_files[FileOf(c.key)]
      <4> SUFFICES ASSUME NEW k \in keys, FileOf(c.key) = FileOf(k), r \in buckets[k].data
                   PROVE  FALSE
        BY <1>1, <2>2, <3>1 DEF Wrote
      <4>1. c.key = k  BY DEF FileOf
      <4> QED  BY <4>1, <1>8 DEF Closes
    <3> QED  BY <3>1, <1>1, <1>8 DEF Closes, Wrote
  <2> QED  BY <1>8, <2>1, <2>2, <2>3 DEF Closes
<1>9. ASSUME NEW r
      PROVE  /\ Buffered(r)' => Buffered(r)
             /\ Filed(r) => Filed(r)'
             /\ Filed(r)' => Buffered(r) \/ Filed(r)
             /\ Buffered(r) => Buffered(r)' \/ Filed(r)'
             /\ Buffered(r)' /\ Filed(r)' => Filed(r)
             /\ Zipped(r)' <=> Zipped(r)
  <2>1. Buffered(r)' => Buffered(r)  BY <1>1 DEF Buffered, Wrote
  <2>2. Filed(r) => Filed(r)'  BY <1>1 DEF Filed, Wrote
  <2>3. Filed(r)' => Buffered(r) \/ Filed(r)  BY <1>1 DEF Filed, Buffered, Wrote
  <2>4. Buffered(r) => Buffered(r)' \/ Filed(r)'
    <3> SUFFICES ASSUME NEW k \in DOMAIN buckets, r \in buckets[k].data
                 PROVE  Buffered(r)' \/ Filed(r)'
      BY DEF Buffered
    <3>1. CASE k \in keys
      <4>1. FileOf(k) \in DOMAIN bucket_files' /\ r \in bucket_files'[FileOf(k)]
        BY <1>1, <3>1 DEF Wrote
      <4> QED  BY <4>1 DEF Filed
    <3>2. CASE k \notin keys  BY <1>1, <3>2 DEF Wrote, Buffered
    <3> QED  BY <3>1, <3>2
  <2>5. Buffered(r)' /\ Filed(r)' => Filed(r)
    <3> SUFFICES ASSUME NEW k \in DOMAIN buckets, k \notin keys, r \in buckets[k].data,
                        NEW j \in keys, r \in buckets[j].data
                 PROVE  FALSE
      BY <1>1 DEF Buffered, Filed, Wrote
    <3> QED  BY DEF BucketsOK, InPeriod
  <2>6. Zipped(r)' <=> Zipped(r)  BY DEF Zipped
  <2> QED  BY <2>1, <2>2, <2>3, <2>4, <2>5, <2>6
<1> QED  BY <1>4, <1>5, <1>6, <1>7, <1>8, <1>9 DEF FlushKept

---------------------------------------------------------------------------
(* FileAppendBoltEx: each step keeps the invariant.                        *)

LEMMA BucketInitially == BucketInit => BucketInv
<1> SUFFICES ASSUME BucketInit PROVE BucketInv
  OBVIOUS
<1> USE DEF BucketInit
<1>1. DOMAIN buckets = {} /\ DOMAIN bucket_files = {}  OBVIOUS
<1>2. RecordsOK  BY FS_EmptySet DEF RecordsOK
<1>3. BucketsOK /\ FilesOK /\ ZippedOK /\ ClosingOK
  BY <1>1 DEF BucketsOK, FilesOK, ZippedOK, ClosingOK
<1>4. EndingOK /\ SomewhereOK /\ OnceOK  BY <1>1 DEF EndingOK, FilesExist, SomewhereOK, OnceOK
<1> QED  BY <1>2, <1>3, <1>4 DEF BucketInv

\* A new datum is nowhere yet.
LEMMA UnknownIsNowhere ==
  ASSUME BucketInv, NEW r, r \notin records
  PROVE  ~Buffered(r) /\ ~Filed(r) /\ ~Zipped(r) /\ ~Held(r)
BY DEF BucketInv, BucketsOK, BucketRecords, FilesOK, ZippedOK, ClosingOK, Buffered, Filed,
       Zipped, Held

LEMMA RecordIsAdded ==
  ASSUME RecordsOK, NEW r, r.id = Cardinality(records), r.ts \in Nat,
         records' = records \cup {r}
  PROVE  RecordsOK' /\ r \notin records
<1>1. IsFiniteSet(records) /\ Cardinality(records) \in Nat
  BY FS_CardinalityType DEF RecordsOK
<1>2. r \notin records  BY <1>1 DEF RecordsOK
<1>3. IsFiniteSet(records') /\ Cardinality(records') = Cardinality(records) + 1
  BY <1>1, <1>2, FS_AddElement
<1>4. \A x \in records' : x.ts \in Nat /\ x.id \in Nat /\ x.id < Cardinality(records')
  BY <1>1, <1>3 DEF RecordsOK
<1> QED  BY <1>2, <1>3, <1>4 DEF RecordsOK

LEMMA ReceiveIsSound ==
  ASSUME BucketInv, NEW k \in BucketKeys, NEW ts \in 0..MaxTimestamp, BucketReceive(k, ts)
  PROVE  BucketInv'
<1> DEFINE r == [id |-> Cardinality(records), key |-> k, ts |-> ts]
           known == k \in DOMAIN buckets
           late == known /\ TsMax(buckets[k]) < ts
           zip == late /\ ContainsData(buckets[k])
           Becomes(b) == buckets' = [j \in DOMAIN buckets \cup {k} |-> IF j = k THEN b ELSE buckets[j]]
<1>1. /\ ex_shutdown = "no" /\ closing = {} /\ InOrder(k, ts)
      /\ records' = records \cup {r}
      /\ UNCHANGED <<gz_files, refused, unlink_failed, ex_shutdown>>
      /\ \/ /\ ~late
            /\ Becomes(IF known THEN [buckets[k] EXCEPT !.data = @ \cup {r}] ELSE NewPeriod(ts, {r}))
            /\ UNCHANGED <<bucket_files, closing>>
         \/ /\ late /\ ~zip
            /\ Becomes(NewPeriod(ts, buckets[k].data \cup {r}))
            /\ UNCHANGED <<bucket_files, closing>>
         \/ zip /\ Flushed({k}) /\ closing' = closing \cup {Closing(k, {r})}
  BY DEF BucketReceive, BoltIsFree
<1>2. PICK new : new = r
  OBVIOUS
<1>3. /\ new.id = Cardinality(records) /\ new.key = k /\ new.ts = ts /\ ts \in Nat
      /\ records' = records \cup {new}
  BY <1>1, <1>2
<1>4. RecordsOK' /\ new \notin records
  BY <1>3, RecordIsAdded DEF BucketInv
<1>5. ~Buffered(new) /\ ~Filed(new) /\ ~Zipped(new) /\ ~Held(new)
  BY <1>4, UnknownIsNowhere
<1>6. FilesExist /\ \A x : ~Held(x)
  BY <1>1 DEF BucketInv, EndingOK, Held
<1>7. \A j \in DOMAIN buckets : buckets[j] \in BucketRecords
  BY DEF BucketInv, BucketsOK
<1> USE DEF BucketInv
<1>8. ASSUME NEW b, Becomes(b), UNCHANGED <<bucket_files, closing>>,
             b \in BucketRecords',
             b.contains => known /\ buckets[k].contains /\ b.ts_start = buckets[k].ts_start,
             known /\ buckets[k].contains => b.contains /\ b.ts_start = buckets[k].ts_start,
             b.data = (IF known THEN buckets[k].data ELSE {}) \cup {new},
             \A x \in b.data : InPeriod(x, k, b.ts_start)
      PROVE  BucketInv'
  <2>1. /\ DOMAIN buckets' = DOMAIN buckets \cup {k} /\ buckets'[k] = b
        /\ \A j \in DOMAIN buckets : j # k => buckets'[j] = buckets[j]
    BY <1>8
  <2>2. \A j \in DOMAIN buckets : j # k \/ buckets[j].contains \/ b.contains => UNCHANGED FileOf(j)
    BY <1>8, <2>1 DEF FileOf
  <2>3. BucketsOK'
    <3>1. BucketRecords \subseteq BucketRecords'  BY <1>3 DEF BucketRecords
    <3>2. \E x \in records' : x.key = k /\ b.ts_start <= x.ts
      BY <1>3, <1>8 DEF InPeriod
    <3> QED  BY <1>3, <1>8, <2>1, <3>1, <3>2 DEF BucketsOK, InPeriod
  <2>4. FilesOK'
    <3> SUFFICES ASSUME NEW n \in DOMAIN bucket_files
                 PROVE  /\ n[1] \in DOMAIN buckets' /\ n = FileOf(n[1])' /\ buckets'[n[1]].contains
                        /\ bucket_files[n] \subseteq records'
                        /\ \A x \in bucket_files[n] : InPeriod(x, n[1], n[2])
      BY <1>8 DEF FilesOK, FileOf, InPeriod
    <3> QED  BY <1>3, <1>8, <2>1, <2>2 DEF FilesOK
  <2>5. ZippedOK'  BY <1>1, <1>3 DEF ZippedOK, InPeriod
  <2>6. ClosingOK'  BY <1>1, <1>8 DEF ClosingOK
  <2>7. EndingOK'
    <3>1. FilesExist'  BY <1>6, <1>8, <2>1, <2>2 DEF FilesExist
    <3> QED  BY <1>1, <1>8, <3>1 DEF EndingOK
  <2>8. \A x : ~Held(x)'  BY <1>1, <1>8 DEF Held
  <2>9. \A x : x # new => ((Buffered(x)' <=> Buffered(x)) /\ (Filed(x)' <=> Filed(x)) /\ (Zipped(x)' <=> Zipped(x)))
    <3> SUFFICES ASSUME NEW x, x # new
                 PROVE  (Buffered(x)' <=> Buffered(x)) /\ (Filed(x)' <=> Filed(x)) /\ (Zipped(x)' <=> Zipped(x))
      OBVIOUS
    <3>1. Buffered(x)' <=> Buffered(x)  BY <1>8, <2>1 DEF Buffered
    <3>2. Filed(x)' <=> Filed(x)  BY <1>8 DEF Filed
    <3>3. Zipped(x)' <=> Zipped(x)  BY <1>1 DEF Zipped
    <3> QED  BY <3>1, <3>2, <3>3
  <2>10. Buffered(new)' /\ ~Filed(new)' /\ ~Zipped(new)'
    BY <1>1, <1>5, <1>8, <2>1 DEF Buffered, Filed, Zipped
  <2>11. SomewhereOK'  BY <1>1, <1>3, <1>6, <2>9, <2>10 DEF SomewhereOK
  <2>12. OnceOK'
    <3> SUFFICES ASSUME ~unlink_failed, NEW x \in records' PROVE Once(x)'
      BY <1>1 DEF OnceOK
    <3>1. CASE x = new  BY <1>1, <1>5, <2>8, <2>10, <3>1 DEF Once, Zipped
    <3>2. CASE x \in records /\ x # new
      BY <1>1, <2>8, <2>9, <3>2 DEF OnceOK, Once
    <3> QED  BY <1>3, <3>1, <3>2
  <2> QED  BY <1>4, <2>3, <2>4, <2>5, <2>6, <2>7, <2>11, <2>12
<1>9. CASE /\ ~late /\ UNCHANGED <<bucket_files, closing>>
           /\ Becomes(IF known THEN [buckets[k] EXCEPT !.data = @ \cup {r}] ELSE NewPeriod(ts, {r}))
  <2>1. CASE known
    <3>1. PICK b : b = [buckets[k] EXCEPT !.data = @ \cup {new}]
      OBVIOUS
    <3>2. /\ b.contains = buckets[k].contains /\ b.ts_start = buckets[k].ts_start
          /\ b.data = buckets[k].data \cup {new} /\ b \in BucketRecords'
      BY <1>3, <1>7, <2>1, <3>1 DEF BucketRecords
    <3>3. InPeriod(new, k, b.ts_start)
      <4>1. ts <= buckets[k].ts_start + SplitPeriod
        <5>1. buckets[k].ts_start \in Nat  BY <1>7, <2>1 DEF BucketRecords
        <5>2. ~(buckets[k].ts_start + SplitPeriod < ts)  BY <1>9, <2>1 DEF TsMax
        <5> QED  BY <1>3, <5>1, <5>2, FileAppendExAssumption
      <4>2. PICK x \in records : x.key = k /\ buckets[k].ts_start <= x.ts
        BY <2>1 DEF BucketsOK
      <4>3. x.ts <= ts  BY <1>1, <4>2 DEF InOrder
      <4>4. buckets[k].ts_start <= ts
        <5>1. buckets[k].ts_start \in Nat /\ x.ts \in Nat
          BY <1>7, <2>1 DEF BucketRecords, RecordsOK
        <5> QED  BY <1>3, <4>2, <4>3, <5>1
      <4> QED  BY <1>3, <3>2, <4>1, <4>4 DEF InPeriod
    <3>4. \A x \in b.data : InPeriod(x, k, b.ts_start)
      BY <2>1, <3>2, <3>3 DEF BucketsOK
    <3>5. Becomes(b)  BY <1>2, <1>9, <2>1, <3>1
    <3> QED  BY <1>8, <1>9, <2>1, <3>2, <3>4, <3>5
  <2>2. CASE ~known
    <3>1. PICK b : b = NewPeriod(ts, {new})
      OBVIOUS
    <3>2. b.contains = FALSE /\ b.ts_start = TsStart(ts) /\ b.data = {new} /\ b \in BucketRecords'
      BY <1>3, <3>1, PeriodsContain DEF NewPeriod, BucketRecords
    <3>3. \A x \in b.data : InPeriod(x, k, b.ts_start)
      BY <1>3, <3>2, PeriodsContain DEF InPeriod
    <3>4. Becomes(b)  BY <1>2, <1>9, <2>2, <3>1
    <3> QED  BY <1>8, <1>9, <2>2, <3>2, <3>3, <3>4
  <2> QED  BY <2>1, <2>2
<1>10. CASE /\ late /\ ~zip /\ UNCHANGED <<bucket_files, closing>>
            /\ Becomes(NewPeriod(ts, buckets[k].data \cup {r}))
  <2>1. ~buckets[k].contains /\ buckets[k].data = {}
    BY <1>10 DEF ContainsData
  <2>2. PICK b : b = NewPeriod(ts, {new})
    OBVIOUS
  <2>3. b.contains = FALSE /\ b.ts_start = TsStart(ts) /\ b.data = {new} /\ b \in BucketRecords'
    BY <1>3, <2>2, PeriodsContain DEF NewPeriod, BucketRecords
  <2>4. \A x \in b.data : InPeriod(x, k, b.ts_start)
    BY <1>3, <2>3, PeriodsContain DEF InPeriod
  <2>5. Becomes(b)
    <3>1. buckets[k].data \cup {r} = {new}  BY <1>2, <2>1
    <3> QED  BY <1>10, <2>2, <3>1
  <2> QED  BY <1>8, <1>10, <2>1, <2>3, <2>4, <2>5
<1>11. CASE zip /\ Flushed({k}) /\ closing' = closing \cup {Closing(k, {r})}
  <2>1. known  BY <1>11
  <2>2. PICK c : c = Closing(k, {new})
    OBVIOUS
  <2>3. /\ c.key = k /\ c.ts_start = buckets[k].ts_start /\ c.for = {new}
        /\ c.data = bucket_files'[FileOf(k)]
    BY <2>2 DEF Closing, FileOf
  <2>4. closing' = {c}  BY <1>1, <1>2, <1>11, <2>2
  <2>5. {k} \in SUBSET DOMAIN buckets  BY <2>1
  <2>6. Wrote({k})  BY <1>11, <2>5, Flushing
  <2>7. FlushKept  BY <1>1, <1>11, <2>5, FlushKeeps
  <2>8. Closes(c)'
    <3>1. buckets'[k].ts_start = buckets[k].ts_start /\ buckets'[k].data = {} /\ k \in DOMAIN buckets'
      BY <2>1, <2>6 DEF Wrote
    <3>2. FileOf(k)' = FileOf(k)  BY <3>1 DEF FileOf
    <3>3. FileOf(k) \in DOMAIN bucket_files'
      <4>1. buckets'[k].contains
        BY <1>11, <2>1, <2>6 DEF ContainsData, Wrote
      <4> QED  BY <1>6, <2>7, <3>1, <3>2, <4>1 DEF FlushKept, FilesExist
    <3> QED  BY <2>3, <3>1, <3>2, <3>3 DEF Closes
  <2>9. ClosingOK'
    BY <1>1, <1>3, <2>3, <2>4, <2>8 DEF ClosingOK
  <2>10. EndingOK'  BY <1>1, <1>6, <2>7 DEF EndingOK, FlushKept
  <2>11. \A x : Held(x)' <=> x = new  BY <2>3, <2>4 DEF Held
  <2>12. ~Buffered(new)' /\ ~Filed(new)' /\ ~Zipped(new)'  BY <1>5, <2>7 DEF FlushKept
  <2>13. SomewhereOK'
    BY <1>1, <1>3, <1>6, <2>7, <2>11 DEF SomewhereOK, FlushKept
  <2>14. OnceOK'
    <3> SUFFICES ASSUME ~unlink_failed, NEW x \in records' PROVE Once(x)'
      BY <1>1 DEF OnceOK
    <3>1. CASE x = new  BY <1>1, <1>5, <2>11, <2>12, <3>1 DEF Once, Zipped
    <3>2. CASE x \in records /\ x # new
      <4>1. Once(x)  BY <3>2 DEF OnceOK
      <4>2. ~Held(x)'  BY <2>11, <3>2
      <4>3. /\ Buffered(x)' => Buffered(x)
            /\ Filed(x)' => Buffered(x) \/ Filed(x)
            /\ Buffered(x)' /\ Filed(x)' => Filed(x)
            /\ Zipped(x)' <=> Zipped(x)
        BY <2>7 DEF FlushKept
      <4> QED  BY <1>1, <4>1, <4>2, <4>3 DEF Once
    <3> QED  BY <1>3, <3>1, <3>2
  <2> QED  BY <1>4, <2>7, <2>9, <2>10, <2>13, <2>14 DEF FlushKept
<1> QED  BY <1>1, <1>9, <1>10, <1>11

\* A datum is in one file at most.
LEMMA FiledOnce ==
  ASSUME BucketInv, NEW n \in DOMAIN bucket_files, NEW m \in DOMAIN bucket_files,
         NEW r \in bucket_files[n] \cap bucket_files[m]
  PROVE  n = m
<1>1. n = FileOf(n[1]) /\ m = FileOf(m[1]) /\ n[1] = r.key /\ m[1] = r.key
  BY DEF BucketInv, FilesOK, InPeriod
<1> QED  BY <1>1

LEMMA HeartbeatIsSound ==
  ASSUME BucketInv, BucketHeartbeat PROVE BucketInv'
<1>1. /\ ex_shutdown = "no" /\ Flushed(DOMAIN buckets)
      /\ UNCHANGED <<gz_files, closing, records, refused, unlink_failed, ex_shutdown>>
  BY DEF BucketHeartbeat
<1>2. FlushKept  BY <1>1, FlushKeeps
<1> USE DEF BucketInv
<1>3. RecordsOK'  BY <1>1 DEF RecordsOK
<1>4. ClosingOK'  BY <1>1, <1>2 DEF ClosingOK, FlushKept
<1>5. EndingOK'  BY <1>1, <1>2 DEF EndingOK, FlushKept
<1>6. \A x : Held(x)' <=> Held(x)  BY <1>1 DEF Held
<1>7. SomewhereOK'  BY <1>1, <1>2, <1>6 DEF SomewhereOK, FlushKept
<1>8. OnceOK'
  <2> SUFFICES ASSUME ~unlink_failed, NEW x \in records PROVE Once(x)'
    BY <1>1 DEF OnceOK
  <2>1. Once(x)  BY DEF OnceOK
  <2>2. Held(x)' <=> Held(x)  BY <1>6
  <2>3. /\ Buffered(x)' => Buffered(x)
        /\ Filed(x)' => Buffered(x) \/ Filed(x)
        /\ Buffered(x)' /\ Filed(x)' => Filed(x)
        /\ Zipped(x)' <=> Zipped(x)
    BY <1>2 DEF FlushKept
  <2> QED  BY <1>1, <2>1, <2>2, <2>3 DEF Once
<1> QED  BY <1>2, <1>3, <1>4, <1>5, <1>7, <1>8 DEF FlushKept

LEMMA ShutdownIsSound ==
  ASSUME BucketInv, BucketShutdown PROVE BucketInv'
<1> DEFINE zipped == {k \in DOMAIN buckets : buckets'[k].contains}
<1>1. /\ ex_shutdown = "no" /\ closing = {} /\ Flushed(DOMAIN buckets)
      /\ closing' = closing \cup {Closing(k, {}) : k \in zipped}
      /\ ex_shutdown' = IF zipped = {} THEN "ok" ELSE "closing"
      /\ UNCHANGED <<gz_files, records, refused, unlink_failed>>
  BY DEF BucketShutdown, BoltIsFree
<1>2. FlushKept /\ Wrote(DOMAIN buckets)
  BY <1>1, FlushKeeps, Flushing DEF BucketInv
<1> USE DEF BucketInv
<1>3. RecordsOK'  BY <1>1 DEF RecordsOK
<1>4. \A k \in DOMAIN buckets :
        /\ Closing(k, {}).key = k /\ Closing(k, {}).ts_start = buckets[k].ts_start
        /\ Closing(k, {}).for = {} /\ Closing(k, {}).data = bucket_files'[FileOf(k)]
  BY DEF Closing, FileOf
<1>5. /\ DOMAIN buckets' = DOMAIN buckets
      /\ \A k \in DOMAIN buckets : /\ buckets'[k].data = {} /\ UNCHANGED FileOf(k)
                                   /\ buckets'[k].ts_start = buckets[k].ts_start
  BY <1>2 DEF Wrote, FileOf
<1>6. FilesExist'  BY <1>1, <1>2 DEF EndingOK, FlushKept
<1>7. \A c \in closing' : c.key \in zipped /\ c = Closing(c.key, {})
  BY <1>1, <1>4
<1>8. ClosingOK'
  <2>1. \A c \in closing' : Closes(c)' /\ c.for = {}
    <3> SUFFICES ASSUME NEW c \in closing' PROVE Closes(c)' /\ c.for = {}
      OBVIOUS
    <3>1. PICK k \in zipped : k = c.key /\ c = Closing(k, {})  BY <1>7
    <3>2. FileOf(k) \in DOMAIN bucket_files'  BY <1>5, <1>6 DEF FilesExist
    <3> QED  BY <1>4, <1>5, <3>1, <3>2 DEF Closes
  <2>2. \A c, d \in closing' : d.key = c.key => d = c  BY <1>7
  <2>3. ex_shutdown' # "no"  BY <1>1
  <2> QED  BY <2>1, <2>2, <2>3 DEF ClosingOK
<1>9. EndingOK'
  <2>1. ASSUME NEW n \in DOMAIN bucket_files'
        PROVE  \E c \in closing' : n = <<c.key, c.ts_start>>
    <3>1. n[1] \in zipped /\ n = FileOf(n[1])
      BY <1>2, <1>5 DEF FlushKept, FilesOK
    <3>2. Closing(n[1], {}) \in closing'  BY <1>1, <3>1
    <3> QED  BY <1>4, <3>1, <3>2 DEF FileOf
  <2>2. ex_shutdown' = "ok" => closing' = {}  BY <1>1
  <2>3. ex_shutdown' # "no"  BY <1>1
  <2> QED  BY <1>5, <2>1, <2>2, <2>3 DEF EndingOK
<1>10. \A x : ~Held(x) /\ ~Held(x)'
  <2>1. \A c \in closing' : c.for = {}  BY <1>4, <1>7
  <2> QED  BY <1>1, <2>1 DEF Held
<1>11. SomewhereOK'  BY <1>1, <1>2, <1>10 DEF SomewhereOK, FlushKept
<1>12. OnceOK'
  <2> SUFFICES ASSUME ~unlink_failed, NEW x \in records PROVE Once(x)'
    BY <1>1 DEF OnceOK
  <2>1. Once(x)  BY DEF OnceOK
  <2>2. ~Held(x)'  BY <1>10
  <2>3. /\ Buffered(x)' => Buffered(x)
        /\ Filed(x)' => Buffered(x) \/ Filed(x)
        /\ Buffered(x)' /\ Filed(x)' => Filed(x)
        /\ Zipped(x)' <=> Zipped(x)
    BY <1>2 DEF FlushKept
  <2> QED  BY <1>1, <2>1, <2>2, <2>3 DEF Once
<1> QED  BY <1>2, <1>3, <1>8, <1>9, <1>11, <1>12 DEF FlushKept

\* What both ends of a zip have in common: its data are in a zipped file too.
LEMMA ZipIsKept ==
  ASSUME BucketInv, NEW c \in closing, ZipFinishes(c)
  PROVE  /\ ZippedOK' /\ closing' = closing \ {c} /\ RecordsOK' /\ records' = records
         /\ \A x : Zipped(x)' <=> Zipped(x) \/ x \in c.data
         /\ \E h : /\ h.data = c.data /\ gz_files' = gz_files \cup {h}
<1> DEFINE g == [key |-> c.key, ts_start |-> c.ts_start, data |-> c.data, counter |-> c.counter]
<1>1. /\ gz_files' = gz_files \cup {g}
      /\ closing' = closing \ {c} /\ records' = records
  BY DEF ZipFinishes
<1>2. Closes(c)  BY DEF BucketInv, ClosingOK
<1>3. c.data \subseteq records /\ \A r \in c.data : InPeriod(r, c.key, c.ts_start)
  <2>1. /\ c.data = bucket_files[FileOf(c.key)] /\ FileOf(c.key) \in DOMAIN bucket_files
        /\ FileOf(c.key)[1] = c.key /\ FileOf(c.key)[2] = c.ts_start
    BY <1>2 DEF Closes, FileOf
  <2> QED  BY <2>1 DEF BucketInv, FilesOK
<1>4. g.key = c.key /\ g.ts_start = c.ts_start /\ g.data = c.data  OBVIOUS
<1> HIDE DEF g
<1>5. ZippedOK'
  BY <1>1, <1>3, <1>4 DEF BucketInv, ZippedOK, InPeriod
<1>6. RecordsOK'  BY <1>1 DEF BucketInv, RecordsOK
<1>7. \A x : Zipped(x)' <=> Zipped(x) \/ x \in c.data  BY <1>1, <1>4 DEF Zipped
<1> QED  BY <1>1, <1>4, <1>5, <1>6, <1>7

LEMMA CloseEndsIsSound ==
  ASSUME BucketInv, NEW c \in closing, CloseEnds(c) PROVE BucketInv'
<1> DEFINE n == <<c.key, c.ts_start>>
<1>1. /\ ZippedOK' /\ closing' = closing \ {c} /\ RecordsOK' /\ records' = records
      /\ \A x : Zipped(x)' <=> Zipped(x) \/ x \in c.data
  BY ZipIsKept DEF CloseEnds
<1>2. PICK g : g.data = c.data /\ gz_files' = gz_files \cup {g}
  BY ZipIsKept DEF CloseEnds
<1>3. /\ bucket_files' = [m \in DOMAIN bucket_files \ {n} |-> bucket_files[m]]
      /\ UNCHANGED <<refused, unlink_failed>>
      /\ \/ /\ c.for # {} /\ UNCHANGED ex_shutdown
            /\ buckets' = [buckets EXCEPT ![c.key] =
                 NewPeriod((CHOOSE r \in c.for : TRUE).ts, @.data \cup c.for)]
         \/ /\ c.for = {} /\ UNCHANGED buckets
            /\ ex_shutdown' = IF closing' = {} /\ ex_shutdown = "closing" THEN "ok" ELSE ex_shutdown
  BY DEF CloseEnds
<1> USE DEF BucketInv
<1>4. /\ Closes(c) /\ n = FileOf(c.key) /\ n \in DOMAIN bucket_files /\ bucket_files[n] = c.data
      /\ c.key \in DOMAIN buckets /\ buckets[c.key].data = {}
  BY DEF ClosingOK, Closes, FileOf
<1>5. /\ DOMAIN bucket_files' = DOMAIN bucket_files \ {n}
      /\ \A m \in DOMAIN bucket_files' : bucket_files'[m] = bucket_files[m] /\ m[1] # c.key
  BY <1>3, <1>4 DEF FilesOK
<1>6. \A x : Filed(x) <=> Filed(x)' \/ x \in c.data
  BY <1>4, <1>5 DEF Filed
<1> HIDE DEF n
<1>7. CASE c.for # {}
  <2>1. closing = {c} /\ ex_shutdown = "no"  BY <1>7 DEF ClosingOK
  <2>2. PICK r \in records : c.for = {r} /\ r.key = c.key
    BY <1>7 DEF ClosingOK
  <2>3. (CHOOSE x \in c.for : TRUE) = r  BY <2>2
  <2>4. PICK b : b = NewPeriod(r.ts, {r})
    OBVIOUS
  <2>5. r.ts \in Nat  BY DEF RecordsOK
  <2>6. b.ts_start = TsStart(r.ts) /\ b.data = {r} /\ b.contains = FALSE /\ b \in BucketRecords
    BY <2>4, <2>5, PeriodsContain DEF NewPeriod, BucketRecords
  <2>7. buckets' = [buckets EXCEPT ![c.key] = b]
    <3>1. buckets[c.key].data \cup c.for = {r}  BY <1>4, <2>2
    <3> QED  BY <1>3, <1>7, <2>3, <2>4, <3>1
  <2>8. /\ DOMAIN buckets' = DOMAIN buckets /\ buckets'[c.key] = b
        /\ \A k \in DOMAIN buckets : k # c.key => buckets'[k] = buckets[k]
    BY <1>4, <2>7
  <2>9. closing' = {} /\ ex_shutdown' = "no"  BY <1>1, <1>3, <1>7, <2>1
  <2>10. BucketsOK'
    <3>1. BucketRecords' = BucketRecords  BY <1>1 DEF BucketRecords
    <3>2. InPeriod(r, c.key, b.ts_start)  BY <2>2, <2>5, <2>6, PeriodsContain DEF InPeriod
    <3>3. \E x \in records : x.key = c.key /\ b.ts_start <= x.ts  BY <2>2, <3>2 DEF InPeriod
    <3> QED  BY <1>1, <2>6, <2>8, <3>1, <3>2, <3>3 DEF BucketsOK, InPeriod
  <2>11. FilesOK'
    BY <1>1, <1>5, <2>8 DEF FilesOK, FileOf, InPeriod
  <2>12. ClosingOK' /\ EndingOK'
    <3>1. FilesExist'
      <4> SUFFICES ASSUME NEW k \in DOMAIN buckets, k # c.key, buckets[k].contains
                   PROVE  FileOf(k)' \in DOMAIN bucket_files'
        BY <2>6, <2>8 DEF FilesExist
      <4>1. FileOf(k)' = FileOf(k) /\ FileOf(k) # n /\ FileOf(k) \in DOMAIN bucket_files
        BY <1>4, <2>1, <2>8 DEF FileOf, EndingOK, FilesExist
      <4> QED  BY <1>5, <4>1
    <3> QED  BY <2>9, <3>1 DEF ClosingOK, EndingOK
  <2>13. \A x : ~Held(x)' /\ (Held(x) <=> x = r)  BY <2>1, <2>2, <2>9 DEF Held
  <2>14. \A x : Buffered(x)' <=> Buffered(x) \/ x = r
    <3>1. \A x : x \notin buckets[c.key].data  BY <1>4
    <3> QED  BY <1>4, <2>6, <2>8, <3>1 DEF Buffered
  <2>15. SomewhereOK'
    BY <1>1, <1>3, <1>6, <2>13, <2>14 DEF SomewhereOK
  <2>16. OnceOK'
    <3> SUFFICES ASSUME ~unlink_failed, NEW x \in records PROVE Once(x)'
      BY <1>1, <1>3 DEF OnceOK
    <3>1. Once(x)  BY DEF OnceOK
    <3>2. x \in c.data => Filed(x)  BY <1>6
    <3>3. /\ ~Held(x)' /\ (Held(x) <=> x = r) /\ (Buffered(x)' <=> Buffered(x) \/ x = r)
          /\ (Filed(x)' => Filed(x)) /\ (Zipped(x)' <=> Zipped(x) \/ x \in c.data)
      BY <1>1, <1>6, <2>13, <2>14
    <3>4. Filed(x)' => x \notin c.data
      BY <1>4, <1>5, FiledOnce DEF Filed
    <3>5. \A e, h \in gz_files' : x \in e.data /\ x \in h.data => e = h
      BY <1>2, <3>1, <3>2 DEF Once, Zipped
    <3> QED  BY <3>1, <3>2, <3>3, <3>4, <3>5 DEF Once
  <2> QED  BY <1>1, <2>10, <2>11, <2>12, <2>15, <2>16
<1>8. CASE c.for = {}
  <2>1. UNCHANGED buckets /\ ex_shutdown # "no"
    BY <1>3, <1>8 DEF ClosingOK
  <2>2. ex_shutdown' = IF closing' = {} /\ ex_shutdown = "closing" THEN "ok" ELSE ex_shutdown
    BY <1>3, <1>8
  <2>3. BucketsOK'  BY <1>1, <2>1 DEF BucketsOK, BucketRecords, InPeriod
  <2>4. FilesOK'  BY <1>1, <1>5, <2>1 DEF FilesOK, FileOf, InPeriod
  <2>5. ClosingOK'
    <3> SUFFICES ASSUME NEW d \in closing, d # c PROVE Closes(d)' /\ d.for = {}
      BY <1>1, <2>1, <2>2 DEF ClosingOK
    <3>1. Closes(d) /\ d.for = {} /\ d.key # c.key  BY <2>1 DEF ClosingOK
    <3>2. FileOf(d.key) # n  BY <1>4, <3>1 DEF FileOf
    <3> QED  BY <1>5, <2>1, <3>1, <3>2 DEF Closes, FileOf
  <2>6. EndingOK'
    <3>1. \A k \in DOMAIN buckets' : buckets'[k].data = {}  BY <2>1 DEF EndingOK
    <3>2. ASSUME ex_shutdown \in {"closing", "ok"}, NEW m \in DOMAIN bucket_files'
          PROVE  \E d \in closing' : m = <<d.key, d.ts_start>>
      <4>1. PICK d \in closing : m = <<d.key, d.ts_start>>  BY <1>5, <3>2 DEF EndingOK
      <4>2. d # c  BY <1>5, <4>1 DEF n
      <4> QED  BY <1>1, <4>1, <4>2
    <3>3. ex_shutdown' \in {"closing", "ok"} => ex_shutdown \in {"closing", "ok"}  BY <2>2
    <3>4. ex_shutdown' # "no"  BY <2>1, <2>2
    <3>5. ex_shutdown' = "ok" => closing' = {}  BY <1>1, <2>2 DEF EndingOK
    <3> QED  BY <3>1, <3>2, <3>3, <3>4, <3>5 DEF EndingOK
  <2>7. \A x : (Held(x)' <=> Held(x)) /\ (Buffered(x)' <=> Buffered(x))
    BY <1>1, <1>8, <2>1 DEF Held, Buffered
  <2>8. SomewhereOK'
    BY <1>1, <1>3, <1>6, <2>7 DEF SomewhereOK
  <2>9. OnceOK'
    <3> SUFFICES ASSUME ~unlink_failed, NEW x \in records PROVE Once(x)'
      BY <1>1, <1>3 DEF OnceOK
    <3>1. Once(x)  BY DEF OnceOK
    <3>2. x \in c.data => Filed(x)  BY <1>6
    <3>3. /\ (Held(x)' <=> Held(x)) /\ (Buffered(x)' <=> Buffered(x))
          /\ (Filed(x)' => Filed(x)) /\ (Zipped(x)' <=> Zipped(x) \/ x \in c.data)
      BY <1>1, <1>6, <2>7
    <3>4. Filed(x)' => x \notin c.data
      BY <1>4, <1>5, FiledOnce DEF Filed
    <3>5. \A e, h \in gz_files' : x \in e.data /\ x \in h.data => e = h
      BY <1>2, <3>1, <3>2 DEF Once, Zipped
    <3> QED  BY <3>1, <3>2, <3>3, <3>4, <3>5 DEF Once
  <2> QED  BY <1>1, <2>3, <2>4, <2>5, <2>6, <2>8, <2>9
<1> QED  BY <1>7, <1>8

LEMMA CloseFailsIsSound ==
  ASSUME BucketInv, NEW c \in closing, CloseFails(c) PROVE BucketInv'
<1>1. /\ ZippedOK' /\ closing' = closing \ {c} /\ RecordsOK' /\ records' = records
      /\ \A x : Zipped(x)' <=> Zipped(x) \/ x \in c.data
  BY ZipIsKept DEF CloseFails
<1>2. /\ unlink_failed' = (unlink_failed \/ <<c.key, c.ts_start>> \in DOMAIN bucket_files)
      /\ refused' = refused \cup c.for
      /\ ex_shutdown' = IF c.for = {} THEN "error" ELSE ex_shutdown
      /\ UNCHANGED <<buckets, bucket_files>>
  BY DEF CloseFails
<1> USE DEF BucketInv
<1>3. unlink_failed'
  <2>1. <<c.key, c.ts_start>> \in DOMAIN bucket_files  BY DEF ClosingOK, Closes, FileOf
  <2> QED  BY <1>2, <2>1
<1>4. BucketsOK'  BY <1>1, <1>2 DEF BucketsOK, BucketRecords, InPeriod
<1>5. FilesOK'  BY <1>1, <1>2 DEF FilesOK, FileOf, InPeriod
<1>6. ClosingOK'
  <2> SUFFICES ASSUME NEW d \in closing, d # c
               PROVE  /\ Closes(d)' /\ d.for = {} /\ ex_shutdown' # "no"
    BY <1>1 DEF ClosingOK
  <2>1. Closes(d)'  BY <1>2 DEF ClosingOK, Closes, FileOf
  <2>2. d.for = {} /\ ex_shutdown # "no"  BY DEF ClosingOK
  <2> QED  BY <1>2, <2>1, <2>2
<1>7. EndingOK'
  <2>1. CASE c.for = {}
    <3>1. ex_shutdown # "no"  BY <2>1 DEF ClosingOK
    <3> QED  BY <1>2, <2>1, <3>1 DEF EndingOK
  <2>2. CASE c.for # {}
    <3>1. ex_shutdown = "no"  BY <2>2 DEF ClosingOK
    <3> QED  BY <1>2, <2>2, <3>1 DEF EndingOK, FilesExist, FileOf
  <2> QED  BY <2>1, <2>2
<1>8. SomewhereOK'
  <2>1. \A x : Buffered(x)' = Buffered(x) /\ Filed(x)' = Filed(x)  BY <1>2 DEF Buffered, Filed
  <2>2. \A x : Held(x) => Held(x)' \/ x \in c.for  BY <1>1 DEF Held
  <2> QED  BY <1>1, <1>2, <2>1, <2>2 DEF SomewhereOK
<1>9. OnceOK'  BY <1>3 DEF OnceOK
<1> QED  BY <1>1, <1>4, <1>5, <1>6, <1>7, <1>8, <1>9

LEMMA BucketStutters ==
  ASSUME BucketInv, UNCHANGED bucket_vars PROVE BucketInv'
<1> USE DEF bucket_vars, BucketInv
<1>1. RecordsOK' /\ BucketsOK' /\ FilesOK' /\ ZippedOK'
  BY DEF RecordsOK, BucketsOK, BucketRecords, FilesOK, FileOf, ZippedOK, InPeriod
<1>2. ClosingOK'  BY DEF ClosingOK, Closes, FileOf
<1>3. EndingOK'  BY DEF EndingOK, FilesExist, FileOf
<1>4. \A x : /\ Held(x)' <=> Held(x)
             /\ Buffered(x)' <=> Buffered(x)
             /\ Filed(x)' <=> Filed(x)
             /\ Zipped(x)' <=> Zipped(x)
  BY DEF Held, Buffered, Filed, Zipped
<1>5. SomewhereOK' /\ OnceOK'  BY <1>4 DEF SomewhereOK, OnceOK, Once
<1> QED  BY <1>1, <1>2, <1>3, <1>5

\* Buckets, files and zips agree: what a bucket believes to be on the disk is there,
\* nothing is written to a file while it is closed, and a datum is in one place.
THEOREM BucketInvariant == BucketSpec => []BucketInv
<1>1. BucketInv /\ [BucketNext]_bucket_vars => BucketInv'
  BY ReceiveIsSound, HeartbeatIsSound, ShutdownIsSound, CloseEndsIsSound, CloseFailsIsSound,
     BucketStutters DEF BucketNext
<1> QED  BY <1>1, BucketInitially, PTL DEF BucketSpec

\* The places of a datum, and when two of them are the same.
LEMMA PlacesAre ==
  ASSUME BucketInv, NEW r \in records
  PROVE  /\ Places(r) # {} <=> Held(r) \/ Buffered(r) \/ Filed(r) \/ Zipped(r)
         /\ \A p \in Places(r) : p.start <= r.ts /\ r.ts <= p.start + SplitPeriod
         /\ Once(r) => \A p, q \in Places(r) : p = q
<1> USE DEF BucketInv
<1> DEFINE waiting == {[at |-> "waiting", start |-> TsStart(r.ts)] : c \in {d \in closing : r \in d.for}}
           buffer == {[at |-> "buffer", start |-> buckets[k].ts_start] :
                        k \in {j \in DOMAIN buckets : r \in buckets[j].data}}
           file == {[at |-> "file", start |-> n[2]] :
                      n \in {m \in DOMAIN bucket_files : r \in bucket_files[m]}}
           archive == {[at |-> "zipped", start |-> g.ts_start, counter |-> g.counter] :
                        g \in {h \in gz_files : r \in h.data}}
<1>1. Places(r) = waiting \cup buffer \cup file \cup archive  BY DEF Places
<1>2. /\ waiting # {} <=> Held(r)
      /\ buffer # {} <=> Buffered(r)
      /\ file # {} <=> Filed(r)
      /\ archive # {} <=> Zipped(r)
  BY DEF Held, Buffered, Filed, Zipped
<1>3. r.ts \in Nat  BY DEF RecordsOK
<1>4. \A p \in waiting : p = [at |-> "waiting", start |-> TsStart(r.ts)]  OBVIOUS
<1>5. \A p \in waiting : p.start <= r.ts /\ r.ts <= p.start + SplitPeriod
  <2>1. \A p \in waiting : p.start = TsStart(r.ts)  OBVIOUS
  <2> QED  BY <1>3, <2>1, PeriodsContain
<1>6. \A p \in buffer : /\ p = [at |-> "buffer", start |-> buckets[r.key].ts_start]
                        /\ p.start <= r.ts /\ r.ts <= p.start + SplitPeriod
  <2> SUFFICES ASSUME NEW k \in DOMAIN buckets, r \in buckets[k].data
               PROVE  InPeriod(r, k, buckets[k].ts_start)
    BY DEF InPeriod
  <2> QED  BY DEF BucketsOK
<1>7. \A p \in file : /\ p = [at |-> "file", start |-> buckets[r.key].ts_start]
                      /\ p.start <= r.ts /\ r.ts <= p.start + SplitPeriod
  <2> SUFFICES ASSUME NEW n \in DOMAIN bucket_files, r \in bucket_files[n]
               PROVE  InPeriod(r, n[1], n[2]) /\ n[2] = buckets[r.key].ts_start
    BY DEF InPeriod
  <2>1. InPeriod(r, n[1], n[2]) /\ n = FileOf(n[1])  BY DEF FilesOK
  <2> QED  BY <2>1 DEF InPeriod, FileOf
<1>8. \A p \in archive : p.start <= r.ts /\ r.ts <= p.start + SplitPeriod
  <2> SUFFICES ASSUME NEW g \in gz_files, r \in g.data
               PROVE  g.ts_start <= r.ts /\ r.ts <= g.ts_start + SplitPeriod
    OBVIOUS
  <2> QED  BY DEF ZippedOK, InPeriod
<1>9. ASSUME Once(r) PROVE \A p, q \in archive : p = q
  <2> SUFFICES ASSUME NEW g \in gz_files, r \in g.data, NEW h \in gz_files, r \in h.data
               PROVE  g = h
    OBVIOUS
  <2> QED  BY <1>9 DEF Once
<1> HIDE DEF waiting, buffer, file, archive
<1>10. ASSUME Once(r), NEW p \in Places(r), NEW q \in Places(r) PROVE p = q
  <2>1. CASE Held(r)
    <3>1. Places(r) = waiting  BY <1>1, <1>2, <1>10, <2>1 DEF Once
    <3> QED  BY <1>4, <3>1
  <2>2. CASE ~Held(r) /\ Buffered(r)
    <3>1. Places(r) = buffer  BY <1>1, <1>2, <1>10, <2>2 DEF Once
    <3> QED  BY <1>6, <3>1
  <2>3. CASE ~Held(r) /\ ~Buffered(r) /\ Filed(r)
    <3>1. Places(r) = file  BY <1>1, <1>2, <1>10, <2>3 DEF Once
    <3> QED  BY <1>7, <3>1
  <2>4. CASE ~Held(r) /\ ~Buffered(r) /\ ~Filed(r)
    <3>1. Places(r) = archive  BY <1>1, <1>2, <2>4
    <3> QED  BY <1>9, <1>10, <3>1
  <2> QED  BY <2>1, <2>2, <2>3, <2>4
<1>11. Places(r) # {} <=> Held(r) \/ Buffered(r) \/ Filed(r) \/ Zipped(r)
  BY <1>1, <1>2
<1>12. \A p \in Places(r) : p.start <= r.ts /\ r.ts <= p.start + SplitPeriod
  BY <1>1, <1>5, <1>6, <1>7, <1>8
<1> QED  BY <1>10, <1>11, <1>12

\* Every datum that was not refused is in the bucket or the file of its own period, in
\* one place unless a file could not be deleted, and zipped when the shutdown has
\* succeeded, for any buckets, periods and order of the zips.
THEOREM DataKeepTheirPeriod == BucketSpec => []ArchivedInPeriod
<1>1. BucketInv => ArchivedInPeriod
  <2> SUFFICES ASSUME BucketInv, NEW r \in records \ refused
               PROVE  /\ Places(r) # {}
                      /\ \A p \in Places(r) : p.start <= r.ts /\ r.ts <= p.start + SplitPeriod
                      /\ unlink_failed \/ Cardinality(Places(r)) = 1
                      /\ ex_shutdown = "ok" => \E g \in gz_files : r \in g.data
    BY DEF ArchivedInPeriod
  <2>1. Held(r) \/ Buffered(r) \/ Filed(r) \/ Zipped(r)  BY DEF BucketInv, SomewhereOK
  <2>2. Places(r) # {} /\ \A p \in Places(r) : p.start <= r.ts /\ r.ts <= p.start + SplitPeriod
    BY <2>1, PlacesAre
  <2>3. unlink_failed \/ Cardinality(Places(r)) = 1
    <3> SUFFICES ASSUME ~unlink_failed PROVE Cardinality(Places(r)) = 1
      OBVIOUS
    <3>1. Once(r)  BY DEF BucketInv, OnceOK
    <3>2. PICK p : p \in Places(r)  BY <2>2
    <3>3. \A q \in Places(r) : q = p  BY <3>1, <3>2, PlacesAre
    <3>4. Places(r) = {p}  BY <3>2, <3>3
    <3> QED  BY <3>4, FS_Singleton
  <2>4. ex_shutdown = "ok" => \E g \in gz_files : r \in g.data
    <3> SUFFICES ASSUME ex_shutdown = "ok" PROVE Zipped(r)
      BY DEF Zipped
    <3>1. closing = {} /\ DOMAIN bucket_files = {} /\ \A k \in DOMAIN buckets : buckets[k].data = {}
      BY DEF BucketInv, EndingOK
    <3> QED  BY <2>1, <3>1 DEF Held, Buffered, Filed
  <2> QED  BY <2>2, <2>3, <2>4
<1> QED  BY <1>1, BucketInvariant, PTL

---------------------------------------------------------------------------
(* The calls there are.                                                    *)

TopologyOp ==
  {"registerTopology", "enableTopology", "disableTopology", "stopTopology",
   "killTopology", "deleteTopology", "clearTopologyError", "getTopologyInfo",
   "getTopologyHistory"}
WorkerOp ==
  {"getMessages", "getMessage", "getTopologiesForWorker", "registerWorker", "pingWorker",
   "announceLeaderCandidacy", "checkLeaderCandidacy", "getWorkerHistory", "deleteWorker",
   "shutDownWorker", "setWorkerStatus", "setWorkerLStatus"}
OtherOp ==
  {"getWorkerStatus", "getTopologyStatus", "getMsgQueueContent", "assignTopology",
   "setTopologyStatus", "setTopologyPid", "sendMessageToWorker"}
Op == TopologyOp \cup WorkerOp \cup OtherOp
Name == Op \cup {"setTopologyError", "enableWorker", "disableWorker", "rebalanceLeader"}
By == {"command line", "dashboard", "worker", "http"}
What ==
  {"", "status", "error", "unassigned", "running", "pid", "shutdown", "set_enabled",
   "set_disabled", "rebalance", "start_topology", "stop_topology"}
CallRec == [op : Op, worker : {"w", "null", "undefined"}, uuid : {"t", "null"}, what : What]

\* A call that a front end makes itself: the server passes it on, and where it
\* does not find the worker there is one to be found.
Simple(call) ==
  /\ call \in CallRec
  /\ call.op \notin {"clearTopologyError", "shutDownWorker"}
  /\ call.op \in Misread => call.worker # "null"

\* What a front end issues.  The calls of HttpOnly come alone.
SimpleCalls(calls) ==
  /\ calls \in Seq(CallRec) /\ calls # << >>
  /\ \A i \in DOMAIN calls : Simple(calls[i])
Command ==
  {c \in [by : By, name : Name, calls : Seq(CallRec)] :
     IF c.by = "http"
     THEN \E call \in HttpOnly : c.name = call.op /\ c.calls = <<call>>
     ELSE SimpleCalls(c.calls)}

\* A call that is none of the two that are misread, nor of those the server makes
\* others of.
LEMMA SimpleCall ==
  ASSUME NEW op \in Op \ {"clearTopologyError", "shutDownWorker"},
         NEW worker \in {"w", "null"}, NEW uuid \in {"t", "null"}, NEW what \in What,
         op \in Misread => worker = "w"
  PROVE  Simple(Call(op, worker, uuid, what))
BY DEF Simple, Call, CallRec

LEMMA SimpleOnTopology ==
  ASSUME NEW op \in TopologyOp \ {"clearTopologyError"}
  PROVE  Simple(OnTopology(op))
<1>1. op \in Op /\ op # "shutDownWorker" /\ op \notin Misread
  BY DEF Op, TopologyOp, Misread
<1>. QED  BY <1>1, SimpleCall DEF OnTopology, What

LEMMA SimpleOnWorker ==
  ASSUME NEW op \in WorkerOp \ {"shutDownWorker"}
  PROVE  Simple(OnWorker(op))
<1>1. op \in Op /\ op # "clearTopologyError"
  BY DEF Op, WorkerOp
<1>. QED  BY <1>1, SimpleCall DEF OnWorker, What

LEMMA SimpleOther ==
  /\ Simple(Plain("getWorkerStatus")) /\ Simple(Plain("getTopologyStatus"))
  /\ Simple(Plain("getMsgQueueContent"))
  /\ \A cmd \in What : Simple(Send(cmd))
  /\ Simple(Call("assignTopology", "w", "t", ""))
  /\ Simple(Call("setTopologyPid", "null", "t", "pid"))
  /\ \A what \in What : /\ Simple(Call("setTopologyStatus", "null", "t", what))
                        /\ Simple(Call("setTopologyStatus", "w", "t", what))
                        /\ Simple(Call("setWorkerStatus", "w", "null", what))
                        /\ Simple(Call("setWorkerLStatus", "w", "null", what))
<1>1. {"getWorkerStatus", "getTopologyStatus", "getMsgQueueContent", "sendMessageToWorker",
       "assignTopology", "setTopologyPid", "setTopologyStatus", "setWorkerStatus",
       "setWorkerLStatus"} \subseteq Op \ {"clearTopologyError", "shutDownWorker"}
  BY DEF Op, OtherOp, WorkerOp
<1>2. {"", "pid"} \subseteq What
  BY DEF What
<1>3. \A op \in {"getWorkerStatus", "getTopologyStatus", "getMsgQueueContent",
                "setTopologyPid", "setTopologyStatus"} : op \notin Misread
  BY DEF Misread
<1>4. /\ Simple(Plain("getWorkerStatus")) /\ Simple(Plain("getTopologyStatus"))
      /\ Simple(Plain("getMsgQueueContent"))
  BY <1>1, <1>2, <1>3, SimpleCall DEF Plain
<1>5. \A cmd \in What : Simple(Send(cmd))
  BY <1>1, SimpleCall DEF Send
<1>6. Simple(Call("assignTopology", "w", "t", ""))
  BY <1>1, <1>2, SimpleCall
<1>7. Simple(Call("setTopologyPid", "null", "t", "pid"))
  BY <1>1, <1>2, <1>3, SimpleCall
<1>8. ASSUME NEW what \in What
      PROVE  /\ Simple(Call("setTopologyStatus", "null", "t", what))
             /\ Simple(Call("setTopologyStatus", "w", "t", what))
             /\ Simple(Call("setWorkerStatus", "w", "null", what))
             /\ Simple(Call("setWorkerLStatus", "w", "null", what))
  BY <1>1, <1>3, SimpleCall
<1>. QED  BY <1>4, <1>5, <1>6, <1>7, <1>8

LEMMA SimpleSingle ==
  ASSUME NEW call, Simple(call)
  PROVE  SimpleCalls(<<call>>)
BY DEF Simple, SimpleCalls

LEMMA ClearCallsSimple ==
  ASSUME NEW a \in BOOLEAN
  PROVE  SimpleCalls(ClearCalls(a))
<1>. DEFINE c1 == OnTopology("getTopologyInfo")
            c2 == Plain("getWorkerStatus")
            c3 == Call("assignTopology", "w", "t", "")
            c4 == Send("start_topology")
            c5 == Call("setTopologyStatus", "null", "t", "unassigned")
<1>1. Simple(c1)
  BY SimpleOnTopology DEF TopologyOp
<1>2. Simple(c2) /\ Simple(c3)
  BY SimpleOther
<1>3. Simple(c4) /\ Simple(c5)
  BY SimpleOther DEF What
<1>4. ClearCalls(a) = IF a THEN <<c1, c2, c3, c4>> ELSE <<c1, c2, c5>>
  BY DEF ClearCalls
<1>. HIDE DEF c1, c2, c3, c4, c5
<1>5. SimpleCalls(<<c1, c2, c3, c4>>)
  BY <1>1, <1>2, <1>3 DEF SimpleCalls, Simple
<1>6. SimpleCalls(<<c1, c2, c5>>)
  BY <1>1, <1>2, <1>3 DEF SimpleCalls, Simple
<1>. QED  BY <1>4, <1>5, <1>6

\* The commands of the command line and of the dashboard.
LEMMA WebCommandsSimple ==
  ASSUME NEW c \in CommandLine \cup Dashboard
  PROVE  c[1] \in Name /\ SimpleCalls(c[2])
<1>1. CASE c \in Clears
  <2>1. PICK a \in BOOLEAN : c = <<"clearTopologyError", ClearCalls(a)>>
    BY <1>1 DEF Clears
  <2>2. "clearTopologyError" \in Name  BY DEF Name, Op, TopologyOp
  <2>3. c[1] = "clearTopologyError" /\ c[2] = ClearCalls(a)  BY <2>1
  <2>. QED  BY <2>2, <2>3, ClearCallsSimple
<1>2. CASE c \in Reads \cup Histories
  <2>1. PICK call \in {Plain("getWorkerStatus"), Plain("getTopologyStatus"),
                       OnTopology("getTopologyInfo"), OnTopology("getTopologyHistory"),
                       OnWorker("getWorkerHistory"), Plain("getMsgQueueContent")} :
          c = <<call.op, <<call>>>>
    BY <1>2 DEF Reads, Histories
  <2>2. Simple(call)
    BY <2>1, SimpleOther, SimpleOnTopology, SimpleOnWorker DEF TopologyOp, WorkerOp
  <2>3. call.op \in Name  BY <2>2 DEF Simple, CallRec, Name
  <2>. QED  BY <2>1, <2>2, <2>3, SimpleSingle
<1>3. CASE \E op \in {"registerTopology", "enableTopology", "disableTopology",
                      "stopTopology", "killTopology"} : c = <<op, <<OnTopology(op)>>>>
  <2>1. PICK op \in {"registerTopology", "enableTopology", "disableTopology",
                     "stopTopology", "killTopology"} : c = <<op, <<OnTopology(op)>>>>
    BY <1>3
  <2>2. Simple(OnTopology(op))
    BY <2>1, SimpleOnTopology DEF TopologyOp
  <2>3. op \in Name  BY <2>1 DEF Name, Op, TopologyOp
  <2>. QED  BY <2>1, <2>2, <2>3, SimpleSingle
<1>4. CASE \/ c = <<"setTopologyError", <<Call("setTopologyStatus", "null", "t", "error")>>>>
           \/ c = <<"deleteWorker", <<OnWorker("deleteWorker")>>>>
  <2>1. /\ Simple(Call("setTopologyStatus", "null", "t", "error"))
        /\ Simple(OnWorker("deleteWorker"))
    BY SimpleOther, SimpleOnWorker DEF What, WorkerOp
  <2>2. "setTopologyError" \in Name /\ "deleteWorker" \in Name
    BY DEF Name, Op, WorkerOp
  <2>. QED  BY <1>4, <2>1, <2>2, SimpleSingle
<1>5. CASE \E name \in {"shutDownWorker", "enableWorker", "disableWorker", "rebalanceLeader"},
              cmd \in {"shutdown", "set_enabled", "set_disabled", "rebalance"} :
             c = <<name, <<Send(cmd)>>>>
  <2>1. PICK name \in {"shutDownWorker", "enableWorker", "disableWorker", "rebalanceLeader"},
             cmd \in {"shutdown", "set_enabled", "set_disabled", "rebalance"} :
               c = <<name, <<Send(cmd)>>>>
    BY <1>5
  <2>2. Simple(Send(cmd))
    BY <2>1, SimpleOther DEF What
  <2>3. name \in Name  BY <2>1 DEF Name, Op, WorkerOp
  <2>. QED  BY <2>1, <2>2, <2>3, SimpleSingle
<1>6. \/ c \in Clears \/ c \in Reads \cup Histories
      \/ \E op \in {"registerTopology", "enableTopology", "disableTopology",
                    "stopTopology", "killTopology"} : c = <<op, <<OnTopology(op)>>>>
      \/ c = <<"setTopologyError", <<Call("setTopologyStatus", "null", "t", "error")>>>>
      \/ c = <<"deleteWorker", <<OnWorker("deleteWorker")>>>>
      \/ c \in {<<"shutDownWorker", <<Send("shutdown")>>>>,
                <<"enableWorker", <<Send("set_enabled")>>>>,
                <<"disableWorker", <<Send("set_disabled")>>>>,
                <<"rebalanceLeader", <<Send("rebalance")>>>>}
  BY Zenon DEF CommandLine, Dashboard
<1>. QED  BY <1>1, <1>2, <1>3, <1>4, <1>5, <1>6

LEMMA WorkerCallsSimple ==
  ASSUME NEW c \in WorkerCalls
  PROVE  Simple(c)
<1>1. ASSUME NEW op \in {"getMessages", "getMessage", "getTopologiesForWorker",
                         "registerWorker", "pingWorker", "announceLeaderCandidacy",
                         "checkLeaderCandidacy"}
      PROVE  Simple(OnWorker(op))
  BY <1>1, SimpleOnWorker DEF WorkerOp
<1>2. ASSUME NEW op \in {"setWorkerStatus", "setWorkerLStatus"}
      PROVE  Simple(Call(op, "w", "null", "status"))
  BY <1>2, SimpleOther DEF What
<1>3. /\ Simple(Call("assignTopology", "w", "t", ""))
      /\ Simple(Call("setTopologyStatus", "w", "t", "running"))
      /\ Simple(Call("setTopologyPid", "null", "t", "pid"))
  BY SimpleOther DEF What
<1>4. /\ Simple(Send("stop_topology")) /\ Simple(Plain("getWorkerStatus"))
      /\ Simple(Plain("getTopologyStatus")) /\ Simple(OnTopology("getTopologyInfo"))
  BY SimpleOther, SimpleOnTopology DEF What, TopologyOp
<1>. QED  BY <1>1, <1>2, <1>3, <1>4, Zenon DEF WorkerCalls

LEMMA HttpOnlyTyped ==
  ASSUME NEW call \in HttpOnly
  PROVE  call \in CallRec
<1>1. ASSUME NEW op \in {"clearTopologyError", "deleteTopology"}
      PROVE  OnTopology(op) \in CallRec
  BY DEF OnTopology, Call, CallRec, Op, TopologyOp, What
<1>2. OnWorker("shutDownWorker") \in CallRec
  BY DEF OnWorker, Call, CallRec, Op, WorkerOp, What
<1>. QED  BY <1>1, <1>2 DEF HttpOnly

LEMMA HttpOnlyOps ==
  ASSUME NEW call \in HttpOnly
  PROVE  call.op \in {"clearTopologyError", "shutDownWorker", "deleteTopology"}
<1>1. ASSUME NEW op PROVE OnTopology(op).op = op /\ OnWorker(op).op = op
  BY DEF OnTopology, OnWorker, Call
<1>. QED  BY <1>1 DEF HttpOnly

LEMMA CommandsTyped ==
  ASSUME NEW c \in Commands
  PROVE  /\ [by |-> c[1], name |-> c[2][1], calls |-> c[2][2]] \in Command
         /\ c[2][2] \in Seq(CallRec) /\ c[2][2] # << >>
         /\ c[1] = "http" => over_http
<1>1. CASE \E w \in CommandLine \cup Dashboard :
             c = <<"command line", w>> \/ c = <<"dashboard", w>>
  <2>1. PICK w \in CommandLine \cup Dashboard :
          c = <<"command line", w>> \/ c = <<"dashboard", w>>
    BY <1>1
  <2>2. w[1] \in Name /\ SimpleCalls(w[2])  BY WebCommandsSimple
  <2>3. c[1] \in By /\ c[1] # "http" /\ c[2] = w
    <3>1. CASE c = <<"command line", w>>  BY <3>1 DEF By
    <3>2. CASE c = <<"dashboard", w>>  BY <3>2 DEF By
    <3>. QED  BY <2>1, <3>1, <3>2
  <2>. QED  BY <2>2, <2>3 DEF Command, SimpleCalls
<1>2. CASE \E w \in WorkerCalls : c = <<"worker", <<w.op, <<w>>>>>>
  <2>1. PICK w \in WorkerCalls : c = <<"worker", <<w.op, <<w>>>>>>  BY <1>2
  <2>2. Simple(w) /\ SimpleCalls(<<w>>)  BY WorkerCallsSimple, SimpleSingle
  <2>3. w.op \in Name  BY <2>2 DEF Simple, CallRec, Name
  <2>4. c[1] = "worker" /\ c[1] \in By /\ c[2][1] = w.op /\ c[2][2] = <<w>>
    BY <2>1 DEF By
  <2>. QED  BY <2>2, <2>3, <2>4 DEF Command, SimpleCalls
<1>3. CASE over_http /\ \E h \in HttpOnly : c = <<"http", <<h.op, <<h>>>>>>
  <2>1. PICK h \in HttpOnly : c = <<"http", <<h.op, <<h>>>>>>  BY <1>3
  <2>2. h \in CallRec  BY HttpOnlyTyped
  <2>3. h.op \in Name /\ <<h>> \in Seq(CallRec) /\ <<h>> # << >>
    BY <2>2 DEF CallRec, Name
  <2>4. c[1] = "http" /\ c[1] \in By /\ c[2][1] = h.op /\ c[2][2] = <<h>>
    BY <2>1 DEF By
  <2>. QED  BY <1>3, <2>3, <2>4 DEF Command
<1>. QED  BY <1>1, <1>2, <1>3 DEF Commands

---------------------------------------------------------------------------
(* What the server makes of a call.                                        *)

Meant(http, call, meant) ==
  IF http /\ meant.op \in Misread
  THEN call = [meant EXCEPT !.worker = "undefined"]
  ELSE call = meant

LEMMA SimpleIsPassedOn ==
  ASSUME NEW call, Simple(call)
  PROVE  /\ ServerCalls(call) = {<<Received(call)>>}
         /\ Received(call) \in CallRec /\ Meant(TRUE, Received(call), call)
<1>1. call \in CallRec /\ call.op # "clearTopologyError" /\ call.op # "shutDownWorker"
  BY DEF Simple
<1>2. ServerCalls(call) = {<<Received(call)>>}
  BY <1>1 DEF ServerCalls
<1>3. CASE call.op \in Misread
  <2>1. /\ call.worker # "null" /\ call.op \in SentAsName /\ call.op \notin ReadAsName
    BY <1>3 DEF Simple, Misread, SentAsName, ReadAsName
  <2>2. Received(call) = [call EXCEPT !.worker = "undefined"]
    BY <2>1 DEF Received
  <2>3. Received(call) \in CallRec
    BY <1>1, <2>2 DEF CallRec
  <2>. QED  BY <1>2, <1>3, <2>2, <2>3 DEF Meant
<1>4. CASE call.op \notin Misread
  <2>1. call.op \in SentAsName <=> call.op \in ReadAsName
    BY <1>1, <1>4 DEF Misread, SentAsName, ReadAsName
  <2>2. (call.op \in SentAsName) = (call.op \in ReadAsName)
    BY <2>1
  <2>3. Received(call) = [call EXCEPT !.worker = call.worker]
    BY <2>2 DEF Received
  <2>4. Received(call) = call
    BY <1>1, <2>3 DEF CallRec
  <2>. QED  BY <1>1, <1>2, <1>4, <2>4 DEF Meant
<1>. QED  BY <1>3, <1>4

\* The calls the server makes itself are those of the dashboard.
LEMMA ServerMakesTheSame ==
  ASSUME NEW call \in HttpOnly, NEW calls \in ServerCalls(call)
  PROVE  /\ calls \in Seq(CallRec) /\ call.op \notin Unknown
         /\ calls # << >>
         /\ <<call.op, calls>> \in Dashboard \cup {<<"deleteTopology", <<call>>>>}
<1>1. CASE call = OnTopology("clearTopologyError")
  <2>1. call.op = "clearTopologyError"
    BY <1>1 DEF OnTopology, Call
  <2>2. PICK a \in BOOLEAN : calls = ClearCalls(a)
    BY <2>1 DEF ServerCalls
  <2>3. calls \in Seq(CallRec) /\ calls # << >>
    BY <2>2, ClearCallsSimple DEF SimpleCalls
  <2>4. <<call.op, calls>> \in Clears
    BY <2>1, <2>2 DEF Clears
  <2>. QED  BY <2>1, <2>3, <2>4 DEF Dashboard, Unknown
<1>2. CASE call = OnWorker("shutDownWorker")
  <2>1. call.op = "shutDownWorker" /\ call.worker = "w" /\ call \in CallRec
    BY <1>2, HttpOnlyTyped DEF OnWorker, Call
  <2>2. Received(call) = [call EXCEPT !.worker = call.worker]
    BY <2>1 DEF Received, SentAsName, ReadAsName
  <2>3. Received(call).worker = "w"
    BY <2>1, <2>2 DEF CallRec
  <2>4. calls = <<[Send("shutdown") EXCEPT !.worker = Received(call).worker]>>
    BY <2>1 DEF ServerCalls
  <2>5. Send("shutdown") \in CallRec /\ Send("shutdown").worker = "w"
    BY SimpleOther DEF Send, Call, What, Simple
  <2>6. [Send("shutdown") EXCEPT !.worker = "w"] = Send("shutdown")
    BY <2>5 DEF CallRec
  <2>7. calls = <<Send("shutdown")>>
    BY <2>3, <2>4, <2>6
  <2>8. <<call.op, calls>> \in Dashboard
    BY <2>1, <2>7 DEF Dashboard
  <2>. QED  BY <2>1, <2>5, <2>7, <2>8 DEF Unknown
<1>3. CASE call = OnTopology("deleteTopology")
  <2>1. /\ call.op = "deleteTopology" /\ call.worker = "null" /\ call \in CallRec
    BY <1>3, HttpOnlyTyped DEF OnTopology, Call
  <2>2. Received(call) = [call EXCEPT !.worker = call.worker]
    BY <2>1 DEF Received
  <2>3. Received(call) = call
    BY <2>1, <2>2 DEF CallRec
  <2>4. calls = <<call>>
    BY <2>1, <2>3 DEF ServerCalls
  <2>. QED  BY <2>1, <2>4 DEF Unknown
<1>. QED  BY <1>1, <1>2, <1>3 DEF HttpOnly

---------------------------------------------------------------------------
(* One command: c, the calls t it has to do, its request r, the calls g    *)
(* that the storage has got from it, and its answer a.                     *)

RequestState == {"none", "sent", "handled", "refused"}
Told == {"none", "ok", "error", "logged"}

\* A request is of a command that has calls to do, and made over HTTP.
CallUnderWay(http, t, r, a) ==
  /\ a = "none" <=> t # << >>
  /\ r # "none" => http /\ a = "none"

\* What is to be done is the rest of the calls; what was got, a beginning.  It is one
\* call ahead while the answer to a request that was handled is awaited, and may be
\* when the request was refused.
Passed(http, c, t, r, g, a) ==
  LET n == Len(c.calls)
  IN  /\ Len(t) <= n /\ \A i \in 1 .. Len(t) : t[i] = c.calls[n - Len(t) + i]
      /\ Len(g) <= n /\ \A i \in 1 .. Len(g) : Meant(http, g[i], c.calls[i])
      /\ a = "none" /\ r # "handled" => Len(g) + Len(t) = n \/ r = "refused"
      /\ a = "none" /\ r = "handled" => Len(g) + Len(t) = n + 1
      /\ a = "none" => Len(g) + Len(t) = n \/ Len(g) + Len(t) = n + 1
      /\ a = "ok" => Len(g) = n

\* One call, of which the server makes others.
Served(http, c, t, r, g, a) ==
  /\ http
  /\ a = "none" => t = c.calls
  /\ r \in {"none", "sent"} /\ a = "none" => g = << >>
  /\ r = "handled" \/ a = "ok" => g \in ServerCalls(c.calls[1])

Good(http, c, t, r, g, a) ==
  /\ CallUnderWay(http, t, r, a)
  /\ IF c.by = "http" THEN Served(http, c, t, r, g, a) ELSE Passed(http, c, t, r, g, a)

LEMMA Issued ==
  ASSUME NEW http \in BOOLEAN, NEW c \in Command, c.calls # << >>,
         c.by = "http" => http
  PROVE  Good(http, c, c.calls, "none", << >>, "none")
<1>1. c.calls \in Seq(CallRec) /\ Len(c.calls) \in Nat  BY DEF Command
<1>2. CallUnderWay(http, c.calls, "none", "none")  BY DEF CallUnderWay
<1>3. CASE c.by = "http"
  BY <1>2, <1>3 DEF Good, Served
<1>4. CASE c.by # "http"
  <2>1. Passed(http, c, c.calls, "none", << >>, "none")  BY <1>1 DEF Passed
  <2>. QED  BY <1>2, <1>4, <2>1 DEF Good
<1>. QED  BY <1>3, <1>4

\* The first call is done.
LEMMA RestIsShorter ==
  ASSUME NEW t \in Seq(CallRec), t # << >>
  PROVE  /\ Tail(t) \in Seq(CallRec) /\ Len(Tail(t)) = Len(t) - 1
         /\ Len(t) \in Nat /\ Len(t) > 0
         /\ \A i \in 1 .. Len(t) - 1 : Tail(t)[i] = t[i + 1]
         /\ Tail(t) = << >> <=> Len(t) = 1
<1>. DEFINE rest == Tail(t)
<1>1. /\ rest \in Seq(CallRec) /\ Len(rest) = Len(t) - 1 /\ Len(t) \in Nat /\ Len(t) > 0
      /\ \A i \in 1 .. Len(t) - 1 : rest[i] = t[i + 1]
  OBVIOUS
<1>2. \A s \in Seq(CallRec) : s = << >> <=> Len(s) = 0  OBVIOUS
<1>. HIDE DEF rest
<1>3. rest = << >> <=> Len(t) = 1  BY <1>1, <1>2
<1>. QED  BY <1>1, <1>3 DEF rest

LEMMA RestUnderWay ==
  ASSUME NEW http \in BOOLEAN, NEW t \in Seq(CallRec), t # << >>
  PROVE  CallUnderWay(http, Tail(t), "none", IF Len(t) = 1 THEN "ok" ELSE "none")
<1>1. Tail(t) = << >> <=> Len(t) = 1  BY RestIsShorter
<1>. QED  BY <1>1 DEF CallUnderWay

LEMMA RestPassed ==
  ASSUME NEW http \in BOOLEAN, NEW c \in Command, NEW t \in Seq(CallRec),
         NEW g \in Seq(CallRec), t # << >>, Passed(http, c, t, "handled", g, "none")
  PROVE  Passed(http, c, Tail(t), "none", g, IF Len(t) = 1 THEN "ok" ELSE "none")
<1>. DEFINE n == Len(c.calls)
            lt == Len(t)
            rest == Tail(t)
            b == IF lt = 1 THEN "ok" ELSE "none"
<1>1. /\ Len(rest) = lt - 1 /\ lt \in Nat /\ lt > 0
      /\ \A i \in 1 .. lt - 1 : rest[i] = t[i + 1]
  BY RestIsShorter
<1>2. n \in Nat /\ Len(g) \in Nat  BY DEF Command
<1>3. /\ lt <= n /\ \A i \in 1 .. lt : t[i] = c.calls[n - lt + i]
      /\ Len(g) <= n /\ \A i \in 1 .. Len(g) : Meant(http, g[i], c.calls[i])
      /\ Len(g) + lt = n + 1
  BY DEF Passed
<1>4. (b = "ok" => lt = 1) /\ (b = "none" => lt # 1)  OBVIOUS
<1>. HIDE DEF n, lt, rest, b
<1>5. ASSUME NEW i \in 1 .. Len(rest)
      PROVE  rest[i] = c.calls[n - Len(rest) + i]
  <2>1. i \in 1 .. lt - 1 /\ i + 1 \in 1 .. lt /\ rest[i] = t[i + 1]
    BY <1>1
  <2>2. n - Len(rest) + i = n - lt + (i + 1)
    BY <1>1, <1>2, <2>1
  <2>. QED  BY <1>3, <2>1, <2>2
<1>6. Len(rest) <= n /\ Len(g) + Len(rest) = n
  <2>1. Len(rest) = lt - 1 /\ lt \in Nat /\ lt > 0  BY <1>1
  <2>2. lt <= n /\ Len(g) + lt = n + 1  BY <1>3
  <2>. QED  BY <1>2, <2>1, <2>2
<1>7. b = "ok" => Len(g) = n
  <2>1. lt \in Nat /\ Len(g) + lt = n + 1  BY <1>1, <1>3
  <2>. QED  BY <1>2, <1>4, <2>1
<1>8. Passed(http, c, rest, "none", g, b)
  BY <1>3, <1>5, <1>6, <1>7 DEF Passed, n
<1>. QED  BY <1>8 DEF rest, b, lt

\* Over HTTP the answer came.
LEMMA Proceeded ==
  ASSUME NEW http \in BOOLEAN, NEW c \in Command, NEW t \in Seq(CallRec),
         NEW g \in Seq(CallRec), NEW a \in Told, Good(http, c, t, "handled", g, a)
  PROVE  Good(http, c, Tail(t), "none", g, IF Len(t) = 1 THEN "ok" ELSE a)
<1>. DEFINE b == IF Len(t) = 1 THEN "ok" ELSE "none"
<1>1. /\ http /\ a = "none" /\ t # << >>  BY DEF Good, CallUnderWay
<1>2. CallUnderWay(http, Tail(t), "none", b)  BY <1>1, RestUnderWay
<1>3. CASE c.by = "http"
  <2>1. g \in ServerCalls(c.calls[1]) /\ t = c.calls
    BY <1>1, <1>3 DEF Good, Served
  <2>2. PICK call \in HttpOnly : c.calls = <<call>>  BY <1>3 DEF Command
  <2>3. b = "ok"  BY <2>1, <2>2
  <2>. HIDE DEF b
  <2>4. Served(http, c, Tail(t), "none", g, b)
    BY <1>1, <2>1, <2>3 DEF Served
  <2>5. Good(http, c, Tail(t), "none", g, b)
    BY <1>2, <1>3, <2>4 DEF Good
  <2>. QED  BY <1>1, <2>5 DEF b
<1>4. CASE c.by # "http"
  <2>1. Passed(http, c, t, "handled", g, "none")
    BY <1>1, <1>4 DEF Good
  <2>2. Passed(http, c, Tail(t), "none", g, b)
    BY <1>1, <2>1, RestPassed
  <2>. HIDE DEF b
  <2>3. Good(http, c, Tail(t), "none", g, b)
    BY <1>2, <1>4, <2>2 DEF Good
  <2>. QED  BY <1>1, <2>3 DEF b
<1>. QED  BY <1>3, <1>4

Failures == {"error", "logged"}

LEMMA Failed ==
  ASSUME NEW http \in BOOLEAN, NEW c \in Command, NEW t \in Seq(CallRec), NEW r \in RequestState,
         NEW g \in Seq(CallRec), NEW a \in Told, Good(http, c, t, r, g, a), NEW e \in Failures
  PROVE  Good(http, c, << >>, "none", g, e)
<1>1. e # "none" /\ e # "ok"  BY DEF Failures
<1>2. CallUnderWay(http, << >>, "none", e)  BY <1>1 DEF CallUnderWay
<1>3. CASE c.by = "http"
  <2>1. Served(http, c, << >>, "none", g, e)
    BY <1>1, <1>3 DEF Good, Served
  <2>. QED  BY <1>2, <1>3, <2>1 DEF Good
<1>4. CASE c.by # "http"
  <2>1. Len(c.calls) \in Nat  BY DEF Command
  <2>2. Passed(http, c, << >>, "none", g, e)
    BY <1>1, <1>4, <2>1 DEF Good, Passed
  <2>. QED  BY <1>2, <1>4, <2>2 DEF Good
<1>. QED  BY <1>3, <1>4

\* The request is sent, or refused.
LEMMA Moved ==
  ASSUME NEW http \in BOOLEAN, NEW c \in Command, NEW t \in Seq(CallRec),
         NEW g \in Seq(CallRec), NEW a \in Told, NEW r \in {"none", "sent"},
         NEW s \in {"sent", "refused"}, Good(http, c, t, r, g, a), http, t # << >>,
         s = "refused" => c.by # "http"
  PROVE  Good(http, c, t, s, g, a)
<1>1. CallUnderWay(http, t, s, a)  BY DEF Good, CallUnderWay
<1>2. CASE c.by = "http"
  <2>1. Served(http, c, t, s, g, a)
    BY <1>2 DEF Good, Served
  <2>. QED  BY <1>1, <1>2, <2>1 DEF Good
<1>3. CASE c.by # "http"
  <2>1. Passed(http, c, t, s, g, a)
    BY <1>3 DEF Good, Passed
  <2>. QED  BY <1>1, <1>3, <2>1 DEF Good
<1>. QED  BY <1>2, <1>3

\* A call of a front end is made as it was meant, and none was missed before it.
LEMMA Passes ==
  ASSUME NEW http \in BOOLEAN, NEW c \in Command, NEW t \in Seq(CallRec),
         NEW g \in Seq(CallRec), NEW a \in Told, NEW r \in {"none", "sent"},
         NEW call \in CallRec, c.by # "http", Good(http, c, t, r, g, a), t # << >>,
         Meant(http, call, t[1])
  PROVE  Passed(http, c, t, "handled", Append(g, call), a)
<1>. DEFINE n == Len(c.calls)
            h == Append(g, call)
<1>1. n \in Nat /\ Len(g) \in Nat /\ Len(t) \in Nat /\ 1 \in 1 .. Len(t)
  BY DEF Command
<1>2. /\ Len(h) = Len(g) + 1 /\ h[Len(g) + 1] = call
      /\ \A i \in 1 .. Len(g) : h[i] = g[i]
  BY <1>1
<1>3. a = "none"  BY DEF Good, CallUnderWay
<1>4. /\ Len(t) <= n /\ \A i \in 1 .. Len(t) : t[i] = c.calls[n - Len(t) + i]
      /\ Len(g) <= n /\ \A i \in 1 .. Len(g) : Meant(http, g[i], c.calls[i])
      /\ Len(g) + Len(t) = n
  BY <1>3 DEF Good, Passed
<1>. HIDE DEF n
<1>5. n - Len(t) + 1 = Len(g) + 1 /\ Len(g) + 1 <= n /\ Len(g) + 1 + Len(t) = n + 1
  BY <1>1, <1>4
<1>6. t[1] = c.calls[Len(g) + 1]
  BY <1>1, <1>4, <1>5
<1>7. ASSUME NEW i \in 1 .. Len(h)
      PROVE  Meant(http, h[i], c.calls[i])
  <2>1. CASE i = Len(g) + 1
    BY <1>2, <1>6, <2>1
  <2>2. CASE i # Len(g) + 1
    <3>1. i \in 1 .. Len(g)  BY <1>1, <1>2, <2>2
    <3>. QED  BY <1>2, <1>4, <3>1
  <2>. QED  BY <2>1, <2>2
<1>8. Len(h) <= n /\ Len(h) + Len(t) = n + 1
  BY <1>1, <1>2, <1>5
<1>. HIDE DEF h
<1>9. Passed(http, c, t, "handled", h, a)
  BY <1>3, <1>4, <1>7, <1>8 DEF Passed, n
<1>. QED  BY <1>9 DEF h

\* The call to be made next is one that the front end makes itself.
LEMMA FirstIsSimple ==
  ASSUME NEW http \in BOOLEAN, NEW c \in Command, NEW t \in Seq(CallRec), NEW r, NEW g, NEW a,
         c.by # "http", Good(http, c, t, r, g, a), t # << >>
  PROVE  Simple(t[1])
<1>1. Passed(http, c, t, r, g, a) /\ SimpleCalls(c.calls)
  BY DEF Good, Command
<1>2. /\ Len(c.calls) \in Nat /\ Len(t) \in Nat /\ Len(t) > 0
      /\ DOMAIN c.calls = 1 .. Len(c.calls)
  BY DEF Command
<1>3. Len(t) <= Len(c.calls) /\ t[1] = c.calls[Len(c.calls) - Len(t) + 1]
  BY <1>1, <1>2 DEF Passed
<1>4. Len(c.calls) - Len(t) + 1 \in DOMAIN c.calls
  BY <1>2, <1>3
<1>. QED  BY <1>1, <1>3, <1>4 DEF SimpleCalls

LEMMA Handled ==
  ASSUME NEW http \in BOOLEAN, NEW c \in Command, NEW t \in Seq(CallRec),
         NEW g \in Seq(CallRec), NEW a \in Told, Good(http, c, t, "sent", g, a),
         t # << >>, NEW calls \in ServerCalls(t[1])
  PROVE  /\ Good(http, c, t, "handled", g \o calls, a)
         /\ g \o calls \in Seq(CallRec)
<1>1. http /\ a = "none"  BY DEF Good, CallUnderWay
<1>2. CallUnderWay(http, t, "handled", a)  BY <1>1 DEF CallUnderWay
<1>3. CASE c.by = "http"
  <2>1. g = << >> /\ t = c.calls
    BY <1>1, <1>3 DEF Good, Served
  <2>2. PICK call \in HttpOnly : c.calls = <<call>>
    BY <1>3 DEF Command
  <2>3. t[1] = call /\ c.calls[1] = call
    BY <2>1, <2>2
  <2>4. calls \in Seq(CallRec)
    BY <2>3, ServerMakesTheSame
  <2>5. g \o calls = calls
    BY <2>1, <2>4
  <2>6. Served(http, c, t, "handled", calls, a)
    BY <1>1, <2>1, <2>3 DEF Served
  <2>. QED  BY <1>2, <1>3, <2>4, <2>5, <2>6 DEF Good
<1>4. CASE c.by # "http"
  <2>2. Simple(t[1])
    BY <1>4, FirstIsSimple
  <2>3. /\ calls = <<Received(t[1])>> /\ Received(t[1]) \in CallRec
        /\ Meant(TRUE, Received(t[1]), t[1])
    BY <2>2, SimpleIsPassedOn
  <2>4. Meant(http, Received(t[1]), t[1])
    BY <1>1, <2>3 DEF Meant
  <2>5. g \o calls = Append(g, Received(t[1])) /\ Append(g, Received(t[1])) \in Seq(CallRec)
    BY <2>3
  <2>6. Passed(http, c, t, "handled", Append(g, Received(t[1])), a)
    BY <1>4, <2>3, <2>4, Passes
  <2>. QED  BY <1>2, <1>4, <2>5, <2>6 DEF Good
<1>. QED  BY <1>3, <1>4

\* The first of the server's calls is refused.
LEMMA Refused ==
  ASSUME NEW http \in BOOLEAN, NEW c \in Command, NEW t \in Seq(CallRec),
         NEW g \in Seq(CallRec), NEW a \in Told, Good(http, c, t, "sent", g, a),
         t # << >>, NEW calls \in ServerCalls(t[1])
  PROVE  /\ Good(http, c, t, "refused", Append(g, calls[1]), a)
         /\ Append(g, calls[1]) \in Seq(CallRec)
<1>1. http /\ a = "none"  BY DEF Good, CallUnderWay
<1>2. CallUnderWay(http, t, "refused", a)  BY <1>1 DEF Good, CallUnderWay
<1>3. CASE c.by = "http"
  <2>1. t = c.calls
    BY <1>1, <1>3 DEF Good, Served
  <2>2. PICK call \in HttpOnly : c.calls = <<call>>
    BY <1>3 DEF Command
  <2>3. calls \in Seq(CallRec) /\ calls # << >>
    <3>1. t[1] = call  BY <2>1, <2>2
    <3>. QED  BY <3>1, ServerMakesTheSame
  <2>4. calls[1] \in CallRec /\ Append(g, calls[1]) \in Seq(CallRec)
    BY <2>3
  <2>5. Served(http, c, t, "refused", Append(g, calls[1]), a)
    BY <1>1, <2>1 DEF Served
  <2>. QED  BY <1>2, <1>3, <2>4, <2>5 DEF Good
<1>4. CASE c.by # "http"
  <2>1. t[1] \in CallRec  OBVIOUS
  <2>2. Simple(t[1])
    BY <1>4, FirstIsSimple
  <2>3. /\ calls = <<Received(t[1])>> /\ Received(t[1]) \in CallRec
        /\ Meant(TRUE, Received(t[1]), t[1])
    BY <2>2, SimpleIsPassedOn
  <2>4. calls[1] = Received(t[1]) /\ Meant(http, calls[1], t[1]) /\ calls[1] \in CallRec
    BY <1>1, <2>3 DEF Meant
  <2>5. Append(g, calls[1]) \in Seq(CallRec)
    BY <2>4
  <2>6. Passed(http, c, t, "handled", Append(g, calls[1]), a)
    BY <1>4, <2>4, Passes
  <2>7. Passed(http, c, t, "refused", Append(g, calls[1]), a)
    BY <1>1, <2>6 DEF Passed
  <2>. QED  BY <1>2, <1>4, <2>5, <2>7 DEF Good
<1>. QED  BY <1>3, <1>4

\* Without HTTP a call is made and done at once.
LEMMA Made ==
  ASSUME NEW http \in BOOLEAN, NEW c \in Command, NEW t \in Seq(CallRec),
         NEW g \in Seq(CallRec), NEW a \in Told, Good(http, c, t, "none", g, a),
         ~http, t # << >>
  PROVE  Good(http, c, Tail(t), "none", Append(g, t[1]), IF Len(t) = 1 THEN "ok" ELSE a)
<1>. DEFINE b == IF Len(t) = 1 THEN "ok" ELSE "none"
            h == Append(g, t[1])
<1>1. a = "none" /\ c.by # "http"  BY DEF Good, CallUnderWay, Served
<1>2. t[1] \in CallRec /\ h \in Seq(CallRec)  OBVIOUS
<1>3. Meant(http, t[1], t[1])  BY DEF Meant
<1>4. Passed(http, c, t, "handled", h, "none")
  BY <1>1, <1>2, <1>3, Passes
<1>5. CallUnderWay(http, Tail(t), "none", b)  BY RestUnderWay
<1>6. Passed(http, c, Tail(t), "none", h, b)
  BY <1>2, <1>4, RestPassed
<1>. HIDE DEF b, h
<1>7. Good(http, c, Tail(t), "none", h, b)
  BY <1>1, <1>5, <1>6 DEF Good
<1>. QED  BY <1>1, <1>7 DEF b, h

\* Or it is refused.
LEMMA NotMade ==
  ASSUME NEW http \in BOOLEAN, NEW c \in Command, NEW t \in Seq(CallRec),
         NEW g \in Seq(CallRec), NEW a \in Told, Good(http, c, t, "none", g, a),
         ~http, t # << >>, NEW e \in Failures
  PROVE  Good(http, c, << >>, "none", Append(g, t[1]), e)
<1>1. a = "none" /\ c.by # "http"  BY DEF Good, CallUnderWay, Served
<1>2. t[1] \in CallRec /\ Append(g, t[1]) \in Seq(CallRec)  OBVIOUS
<1>3. Meant(http, t[1], t[1])  BY DEF Meant
<1>4. Passed(http, c, t, "handled", Append(g, t[1]), a)
  BY <1>1, <1>2, <1>3, Passes
<1>5. e # "none" /\ e # "ok" /\ Len(c.calls) \in Nat  BY DEF Failures, Command
<1>6. CallUnderWay(http, << >>, "none", e)  BY <1>5 DEF CallUnderWay
<1>7. Passed(http, c, << >>, "none", Append(g, t[1]), e)
  BY <1>4, <1>5 DEF Passed
<1>. QED  BY <1>1, <1>6, <1>7 DEF Good

---------------------------------------------------------------------------
(* All commands.                                                           *)

FrontendTypes ==
  /\ over_http \in BOOLEAN /\ commands \in Seq(Command)
  /\ todo \in Seq(Seq(CallRec)) /\ request \in Seq(RequestState)
  /\ arrived \in Seq(Seq(CallRec)) /\ answers \in Seq(Told)
  /\ Len(todo) = Len(commands) /\ Len(request) = Len(commands)
  /\ Len(arrived) = Len(commands) /\ Len(answers) = Len(commands)

IsGood(id) ==
  Good(over_http, commands[id], todo[id], request[id], arrived[id], answers[id])
FrontendInv == FrontendTypes /\ \A id \in DOMAIN commands : IsGood(id)

LEMMA Domains ==
  ASSUME FrontendTypes
  PROVE  /\ DOMAIN commands = 1 .. Len(commands) /\ DOMAIN todo = DOMAIN commands
         /\ DOMAIN request = DOMAIN commands /\ DOMAIN arrived = DOMAIN commands
         /\ DOMAIN answers = DOMAIN commands /\ Len(commands) \in Nat
BY DEF FrontendTypes

LEMMA Typed ==
  ASSUME FrontendTypes, NEW id \in DOMAIN commands
  PROVE  /\ over_http \in BOOLEAN /\ commands[id] \in Command
         /\ todo[id] \in Seq(CallRec) /\ request[id] \in RequestState
         /\ arrived[id] \in Seq(CallRec) /\ answers[id] \in Told
BY Domains DEF FrontendTypes

LEMMA AppendSeq ==
  ASSUME NEW S, NEW s \in Seq(S), NEW e \in S
  PROVE  /\ Append(s, e) \in Seq(S) /\ Len(Append(s, e)) = Len(s) + 1
         /\ DOMAIN Append(s, e) = DOMAIN s \cup {Len(s) + 1}
         /\ Append(s, e)[Len(s) + 1] = e
         /\ \A i \in DOMAIN s : Append(s, e)[i] = s[i]
OBVIOUS

LEMMA SetSeq ==
  ASSUME NEW S, NEW s \in Seq(S), NEW e \in S, NEW i \in DOMAIN s
  PROVE  /\ [s EXCEPT ![i] = e] \in Seq(S) /\ Len([s EXCEPT ![i] = e]) = Len(s)
         /\ [s EXCEPT ![i] = e][i] = e
         /\ \A j \in DOMAIN s : j # i => [s EXCEPT ![i] = e][j] = s[j]
         /\ [s EXCEPT ![i] = s[i]] = s
OBVIOUS

\* A step of one command is one of that command alone.
LEMMA Updated ==
  ASSUME FrontendInv, NEW id \in DOMAIN commands,
         NEW t \in Seq(CallRec), NEW r \in RequestState, NEW g \in Seq(CallRec), NEW a \in Told,
         UNCHANGED <<over_http, commands>>,
         todo' = [todo EXCEPT ![id] = t], request' = [request EXCEPT ![id] = r],
         arrived' = [arrived EXCEPT ![id] = g], answers' = [answers EXCEPT ![id] = a],
         Good(over_http, commands[id], t, r, g, a)
  PROVE  FrontendInv'
<1>1. FrontendTypes  BY DEF FrontendInv
<1>2. /\ id \in DOMAIN todo /\ id \in DOMAIN request /\ id \in DOMAIN arrived
      /\ id \in DOMAIN answers
  BY <1>1, Domains
<1>3. /\ todo' \in Seq(Seq(CallRec)) /\ Len(todo') = Len(todo) /\ todo'[id] = t
      /\ \A j \in DOMAIN todo : j # id => todo'[j] = todo[j]
  BY <1>1, <1>2, SetSeq DEF FrontendTypes
<1>4. /\ request' \in Seq(RequestState) /\ Len(request') = Len(request) /\ request'[id] = r
      /\ \A j \in DOMAIN request : j # id => request'[j] = request[j]
  BY <1>1, <1>2, SetSeq DEF FrontendTypes
<1>5. /\ arrived' \in Seq(Seq(CallRec)) /\ Len(arrived') = Len(arrived) /\ arrived'[id] = g
      /\ \A j \in DOMAIN arrived : j # id => arrived'[j] = arrived[j]
  BY <1>1, <1>2, SetSeq DEF FrontendTypes
<1>6. /\ answers' \in Seq(Told) /\ Len(answers') = Len(answers) /\ answers'[id] = a
      /\ \A j \in DOMAIN answers : j # id => answers'[j] = answers[j]
  BY <1>1, <1>2, SetSeq DEF FrontendTypes
<1>7. FrontendTypes'
  BY <1>1, <1>3, <1>4, <1>5, <1>6 DEF FrontendTypes
<1>8. ASSUME NEW j \in DOMAIN commands'
      PROVE  IsGood(j)'
  <2>1. j \in DOMAIN commands  OBVIOUS
  <2>2. CASE j = id
    BY <1>3, <1>4, <1>5, <1>6, <2>2 DEF IsGood
  <2>3. CASE j # id
    <3>1. IsGood(j)  BY <2>1 DEF FrontendInv
    <3>2. /\ todo'[j] = todo[j] /\ request'[j] = request[j] /\ arrived'[j] = arrived[j]
          /\ answers'[j] = answers[j]
      BY <1>1, <1>3, <1>4, <1>5, <1>6, <2>1, <2>3, Domains
    <3>. QED  BY <3>1, <3>2 DEF IsGood
  <2>. QED  BY <2>2, <2>3
<1>. QED  BY <1>7, <1>8 DEF FrontendInv

LEMMA SameSeq ==
  ASSUME FrontendTypes, NEW id \in DOMAIN commands
  PROVE  /\ todo = [todo EXCEPT ![id] = todo[id]]
         /\ request = [request EXCEPT ![id] = request[id]]
         /\ arrived = [arrived EXCEPT ![id] = arrived[id]]
         /\ answers = [answers EXCEPT ![id] = answers[id]]
BY Domains DEF FrontendTypes

LEMMA IssueStep ==
  ASSUME FrontendInv, Issue
  PROVE  FrontendInv'
<1>1. FrontendTypes  BY DEF FrontendInv
<1>2. PICK c \in Commands :
        /\ commands' = Append(commands, [by |-> c[1], name |-> c[2][1], calls |-> c[2][2]])
        /\ todo' = Append(todo, c[2][2])
  BY DEF Issue
<1>3. /\ request' = Append(request, "none") /\ arrived' = Append(arrived, << >>)
      /\ answers' = Append(answers, "none") /\ UNCHANGED over_http
  BY DEF Issue
<1>. DEFINE new == [by |-> c[1], name |-> c[2][1], calls |-> c[2][2]]
<1>4. /\ new \in Command /\ new.calls \in Seq(CallRec) /\ new.calls # << >>
      /\ new.calls = c[2][2] /\ (new.by = "http" => over_http)
  BY CommandsTyped
<1>. HIDE DEF new
<1>5. commands' = Append(commands, new) /\ todo' = Append(todo, new.calls)
  BY <1>2, <1>4 DEF new
<1>. DEFINE n == Len(commands) + 1
<1>6. Len(commands) \in Nat /\ n \notin DOMAIN commands
  BY <1>1, Domains
<1>7. /\ commands' \in Seq(Command) /\ Len(commands') = n /\ commands'[n] = new
      /\ DOMAIN commands' = DOMAIN commands \cup {n}
      /\ \A i \in DOMAIN commands : commands'[i] = commands[i]
  BY <1>1, <1>4, <1>5, AppendSeq DEF FrontendTypes
<1>8. /\ todo' \in Seq(Seq(CallRec)) /\ Len(todo') = n /\ todo'[n] = new.calls
      /\ \A i \in DOMAIN todo : todo'[i] = todo[i]
  BY <1>1, <1>4, <1>5, AppendSeq DEF FrontendTypes
<1>9. /\ request' \in Seq(RequestState) /\ Len(request') = n /\ request'[n] = "none"
      /\ \A i \in DOMAIN request : request'[i] = request[i]
  <2>1. "none" \in RequestState  BY DEF RequestState
  <2>. QED  BY <1>1, <1>3, <2>1, AppendSeq DEF FrontendTypes
<1>10. /\ arrived' \in Seq(Seq(CallRec)) /\ Len(arrived') = n /\ arrived'[n] = << >>
       /\ \A i \in DOMAIN arrived : arrived'[i] = arrived[i]
  <2>1. << >> \in Seq(CallRec)  OBVIOUS
  <2>. QED  BY <1>1, <1>3, <2>1, AppendSeq DEF FrontendTypes
<1>11. /\ answers' \in Seq(Told) /\ Len(answers') = n /\ answers'[n] = "none"
       /\ \A i \in DOMAIN answers : answers'[i] = answers[i]
  <2>1. "none" \in Told  BY DEF Told
  <2>. QED  BY <1>1, <1>3, <2>1, AppendSeq DEF FrontendTypes
<1>. HIDE DEF n
<1>12. FrontendTypes'
  BY <1>1, <1>3, <1>7, <1>8, <1>9, <1>10, <1>11 DEF FrontendTypes
<1>13. ASSUME NEW j \in DOMAIN commands'
       PROVE  IsGood(j)'
  <2>1. CASE j = n
    <3>1. Good(over_http, new, new.calls, "none", << >>, "none")
      BY <1>1, <1>4, Issued DEF FrontendTypes
    <3>. QED  BY <1>3, <1>7, <1>8, <1>9, <1>10, <1>11, <2>1, <3>1 DEF IsGood
  <2>2. CASE j # n
    <3>1. j \in DOMAIN commands  BY <1>7, <2>2
    <3>2. IsGood(j)  BY <3>1 DEF FrontendInv
    <3>3. /\ commands'[j] = commands[j] /\ todo'[j] = todo[j] /\ request'[j] = request[j]
          /\ arrived'[j] = arrived[j] /\ answers'[j] = answers[j]
      BY <1>1, <1>7, <1>8, <1>9, <1>10, <1>11, <3>1, Domains
    <3>. QED  BY <1>3, <3>2, <3>3 DEF IsGood
  <2>. QED  BY <2>1, <2>2
<1>. QED  BY <1>12, <1>13 DEF FrontendInv

\* What a command looks like after its call was done, or failed.
LEMMA ProceedsSets ==
  ASSUME FrontendTypes, NEW id \in DOMAIN commands, Proceeds(id)
  PROVE  /\ todo' = [todo EXCEPT ![id] = Tail(todo[id])]
         /\ answers' = [answers EXCEPT ![id] =
              IF Len(todo[id]) = 1 THEN "ok" ELSE answers[id]]
<1>1. answers = [answers EXCEPT ![id] = answers[id]]  BY SameSeq
<1>2. todo' = [todo EXCEPT ![id] = Tail(todo[id])]  BY DEF Proceeds
<1>3. CASE Len(todo[id]) = 1  BY <1>2, <1>3 DEF Proceeds
<1>4. CASE Len(todo[id]) # 1  BY <1>1, <1>2, <1>4 DEF Proceeds
<1>. QED  BY <1>3, <1>4

\* A command that ended by an error, with g arrived of it.
LEMMA FailStep ==
  ASSUME FrontendInv, NEW id \in DOMAIN commands, NEW g \in Seq(CallRec),
         \A e \in Failures : Good(over_http, commands[id], << >>, "none", g, e), Fails(id),
         request' = [request EXCEPT ![id] = "none"], arrived' = [arrived EXCEPT ![id] = g],
         UNCHANGED <<over_http, commands>>
  PROVE  FrontendInv'
<1>. DEFINE nothing == << >>
            e == IF commands[id].by = "command line" THEN "logged" ELSE "error"
<1>1. e \in Failures /\ Failures \subseteq Told  BY DEF Failures, Told
<1>2. Good(over_http, commands[id], nothing, "none", g, e)
  BY <1>1
<1>3. /\ todo' = [todo EXCEPT ![id] = nothing] /\ answers' = [answers EXCEPT ![id] = e]
  BY DEF Fails
<1>4. "none" \in RequestState /\ nothing \in Seq(CallRec)
  BY DEF RequestState
<1>5. e \in Told
  BY <1>1
<1>. HIDE DEF nothing, e
<1>. QED  BY <1>2, <1>3, <1>4, <1>5, Updated

\* One that failed while its request was under way.
LEMMA FailUnderWay ==
  ASSUME FrontendInv, NEW id \in DOMAIN commands, Fails(id),
         request' = [request EXCEPT ![id] = "none"], UNCHANGED <<over_http, commands, arrived>>
  PROVE  FrontendInv'
<1>1. FrontendTypes /\ IsGood(id)  BY DEF FrontendInv
<1>2. /\ over_http \in BOOLEAN /\ commands[id] \in Command /\ todo[id] \in Seq(CallRec)
      /\ arrived[id] \in Seq(CallRec) /\ answers[id] \in Told /\ request[id] \in RequestState
  BY <1>1, Typed
<1>3. \A e \in Failures : Good(over_http, commands[id], << >>, "none", arrived[id], e)
  BY <1>1, <1>2, Failed DEF IsGood
<1>4. arrived' = [arrived EXCEPT ![id] = arrived[id]]
  BY <1>1, SameSeq
<1>. QED  BY <1>2, <1>3, <1>4, FailStep

LEMMA DirectStep ==
  ASSUME FrontendInv, NEW id \in DOMAIN commands, CallsDirectly(id)
  PROVE  FrontendInv'
<1>. DEFINE t == todo[id]
            g == arrived[id]
            h == Append(g, t[1])
            b == IF Len(t) = 1 THEN "ok" ELSE answers[id]
<1>1. FrontendTypes /\ IsGood(id)  BY DEF FrontendInv
<1>2. /\ ~over_http /\ t # << >> /\ UNCHANGED <<over_http, commands, request>>
      /\ arrived' = [arrived EXCEPT ![id] = h]
  BY DEF CallsDirectly
<1>3. /\ over_http \in BOOLEAN /\ commands[id] \in Command /\ t \in Seq(CallRec)
      /\ g \in Seq(CallRec) /\ answers[id] \in Told /\ request[id] \in RequestState
  BY <1>1, Typed
<1>4. request[id] = "none"
  BY <1>1, <1>2 DEF IsGood, Good, CallUnderWay
<1>5. Tail(t) \in Seq(CallRec) /\ h \in Seq(CallRec) /\ b \in Told
  BY <1>2, <1>3 DEF Told
<1>6. Good(over_http, commands[id], t, "none", g, answers[id])
  BY <1>1, <1>4 DEF IsGood
<1>7. request' = [request EXCEPT ![id] = "none"]
  BY <1>1, <1>2, <1>4, SameSeq
<1>8. "none" \in RequestState  BY DEF RequestState
<1>9. CASE Proceeds(id)
  <2>1. todo' = [todo EXCEPT ![id] = Tail(t)] /\ answers' = [answers EXCEPT ![id] = b]
    BY <1>1, <1>9, ProceedsSets
  <2>2. Good(over_http, commands[id], Tail(t), "none", h, b)
    <3>. HIDE DEF t, g
    <3>. QED  BY <1>2, <1>3, <1>6, Made
  <2>. HIDE DEF t, g, h, b
  <2>. QED  BY <1>2, <1>3, <1>5, <1>7, <1>8, <2>1, <2>2, Updated
<1>10. CASE Fails(id)
  <2>1. \A e \in Failures : Good(over_http, commands[id], << >>, "none", h, e)
    <3>. HIDE DEF t, g
    <3>. QED  BY <1>2, <1>3, <1>6, NotMade
  <2>. HIDE DEF t, g, h, b
  <2>. QED  BY <1>2, <1>5, <1>7, <1>10, <2>1, FailStep
<1>. QED  BY <1>9, <1>10 DEF CallsDirectly

LEMMA PostStep ==
  ASSUME FrontendInv, NEW id \in DOMAIN commands, Posts(id)
  PROVE  FrontendInv'
<1>. DEFINE t == todo[id]
            g == arrived[id]
            a == answers[id]
<1>1. FrontendTypes /\ IsGood(id)  BY DEF FrontendInv
<1>2. /\ over_http \in BOOLEAN /\ commands[id] \in Command /\ t \in Seq(CallRec)
      /\ g \in Seq(CallRec) /\ a \in Told
  BY <1>1, Typed
<1>3. /\ request' = [request EXCEPT ![id] = "sent"]
      /\ UNCHANGED <<over_http, commands, todo, arrived, answers>>
  BY DEF Posts
<1>4. Good(over_http, commands[id], t, "sent", g, a)
  <2>1. over_http /\ t # << >> /\ request[id] = "none"
    BY DEF Posts
  <2>. QED  BY <1>1, <1>2, <2>1, Moved DEF IsGood
<1>5. "sent" \in RequestState  BY DEF RequestState
<1>6. /\ todo' = [todo EXCEPT ![id] = t] /\ arrived' = [arrived EXCEPT ![id] = g]
      /\ answers' = [answers EXCEPT ![id] = a]
  BY <1>1, <1>3, SameSeq
<1>. HIDE DEF t, g, a
<1>. QED  BY <1>2, <1>3, <1>4, <1>5, <1>6, Updated

LEMMA HandleStep ==
  ASSUME FrontendInv, NEW id \in DOMAIN commands, Handles(id)
  PROVE  FrontendInv'
<1>. DEFINE t == todo[id]
            g == arrived[id]
<1>1. FrontendTypes /\ IsGood(id)  BY DEF FrontendInv
<1>2. /\ over_http \in BOOLEAN /\ commands[id] \in Command /\ t \in Seq(CallRec)
      /\ g \in Seq(CallRec) /\ answers[id] \in Told
  BY <1>1, Typed
<1>3. request[id] = "sent" /\ UNCHANGED <<over_http, commands, todo, answers>>
  BY DEF Handles
<1>4. Good(over_http, commands[id], t, "sent", g, answers[id])
  BY <1>1, <1>3 DEF IsGood
<1>5. over_http /\ t # << >>
  BY <1>4 DEF Good, CallUnderWay
<1>6. /\ todo' = [todo EXCEPT ![id] = t]
      /\ answers' = [answers EXCEPT ![id] = answers[id]]
  BY <1>1, <1>3, SameSeq
<1>7. "refused" \in RequestState /\ "handled" \in RequestState  BY DEF RequestState
<1>8. CASE t[1].op \in Unknown
  <2>1. request' = [request EXCEPT ![id] = "refused"] /\ UNCHANGED arrived
    BY <1>8 DEF Handles
  <2>2. arrived' = [arrived EXCEPT ![id] = g]
    BY <1>1, <2>1, SameSeq
  <2>3. commands[id].by # "http"
    <3>1. SUFFICES ASSUME commands[id].by = "http" PROVE FALSE
      OBVIOUS
    <3>2. PICK call \in HttpOnly : commands[id].calls = <<call>>
      BY <1>2, <3>1 DEF Command
    <3>3. t = commands[id].calls
      BY <1>4, <1>5, <3>1 DEF Good, CallUnderWay, Served
    <3>4. call.op \in Unknown  BY <1>8, <3>2, <3>3
    <3>5. call.op \in {"clearTopologyError", "shutDownWorker", "deleteTopology"}
      BY HttpOnlyOps
    <3>. QED  BY <3>4, <3>5 DEF Unknown
  <2>4. Good(over_http, commands[id], t, "refused", g, answers[id])
    <3>. HIDE DEF t, g
    <3>. QED  BY <1>2, <1>4, <1>5, <2>3, Moved
  <2>. DEFINE r == "refused"
  <2>5. /\ r \in RequestState /\ request' = [request EXCEPT ![id] = r]
        /\ Good(over_http, commands[id], t, r, g, answers[id])
    BY <1>7, <2>1, <2>4
  <2>. HIDE DEF t, g, r
  <2>. QED  BY <1>2, <1>3, <1>6, <2>2, <2>5, Updated
<1>9. CASE t[1].op \notin Unknown
  <2>1. PICK calls \in ServerCalls(t[1]) :
          \/ /\ request' = [request EXCEPT ![id] = "handled"]
             /\ arrived' = [arrived EXCEPT ![id] = g \o calls]
          \/ /\ request' = [request EXCEPT ![id] = "refused"]
             /\ arrived' = [arrived EXCEPT ![id] = Append(g, calls[1])]
    BY <1>9 DEF Handles
  <2>. HIDE DEF t, g
  <2>2. CASE /\ request' = [request EXCEPT ![id] = "handled"]
             /\ arrived' = [arrived EXCEPT ![id] = g \o calls]
    <3>1. /\ Good(over_http, commands[id], t, "handled", g \o calls, answers[id])
          /\ g \o calls \in Seq(CallRec)
      BY <1>2, <1>4, <1>5, Handled
    <3>. QED  BY <1>2, <1>3, <1>6, <1>7, <2>2, <3>1, Updated
  <2>3. CASE /\ request' = [request EXCEPT ![id] = "refused"]
             /\ arrived' = [arrived EXCEPT ![id] = Append(g, calls[1])]
    <3>1. /\ Good(over_http, commands[id], t, "refused", Append(g, calls[1]), answers[id])
          /\ Append(g, calls[1]) \in Seq(CallRec)
      BY <1>2, <1>4, <1>5, Refused
    <3>. QED  BY <1>2, <1>3, <1>6, <1>7, <2>3, <3>1, Updated
  <2>. QED  BY <2>1, <2>2, <2>3
<1>. QED  BY <1>8, <1>9

LEMMA AnswerStep ==
  ASSUME FrontendInv, NEW id \in DOMAIN commands, AnswerComes(id)
  PROVE  FrontendInv'
<1>. DEFINE t == todo[id]
            g == arrived[id]
            b == IF Len(t) = 1 THEN "ok" ELSE answers[id]
<1>1. FrontendTypes /\ IsGood(id)  BY DEF FrontendInv
<1>2. /\ over_http \in BOOLEAN /\ commands[id] \in Command /\ t \in Seq(CallRec)
      /\ g \in Seq(CallRec) /\ answers[id] \in Told
  BY <1>1, Typed
<1>3. /\ request[id] # "none" /\ request' = [request EXCEPT ![id] = "none"]
      /\ UNCHANGED <<over_http, commands, arrived>>
  BY DEF AnswerComes
<1>4. CASE request[id] = "handled" /\ Proceeds(id)
  <2>1. todo' = [todo EXCEPT ![id] = Tail(t)] /\ answers' = [answers EXCEPT ![id] = b]
    BY <1>1, <1>4, ProceedsSets
  <2>2. Good(over_http, commands[id], t, "handled", g, answers[id])
    BY <1>1, <1>4 DEF IsGood
  <2>3. t # << >>  BY <2>2 DEF Good, CallUnderWay
  <2>4. arrived' = [arrived EXCEPT ![id] = g]
    BY <1>1, <1>3, SameSeq
  <2>5. Tail(t) \in Seq(CallRec) /\ b \in Told /\ "none" \in RequestState
    BY <1>2, <2>3 DEF Told, RequestState
  <2>6. Good(over_http, commands[id], Tail(t), "none", g, b)
    <3>. HIDE DEF t, g
    <3>. QED  BY <1>2, <2>2, Proceeded
  <2>. HIDE DEF t, g, b
  <2>. QED  BY <1>2, <1>3, <2>1, <2>4, <2>5, <2>6, Updated
<1>5. CASE Fails(id)
  BY <1>3, <1>5, FailUnderWay
<1>. QED  BY <1>4, <1>5 DEF AnswerComes

LEMMA FrontendStep ==
  ASSUME FrontendInv, [FrontendNext]_frontend_vars
  PROVE  FrontendInv'
<1>1. CASE UNCHANGED frontend_vars
  BY <1>1 DEF frontend_vars, FrontendInv, FrontendTypes, IsGood
<1>2. ASSUME NEW id \in DOMAIN commands, ConnectionBreaks(id)
      PROVE  FrontendInv'
  BY <1>2, FailUnderWay DEF ConnectionBreaks
<1>. QED
  BY <1>1, <1>2, IssueStep, DirectStep, PostStep, HandleStep, AnswerStep DEF FrontendNext

LEMMA GoodArrives ==
  ASSUME FrontendInv
  PROVE  CallsArrive
<1>1. FrontendTypes  BY DEF FrontendInv
<1>2. ASSUME NEW id \in DOMAIN commands, commands[id].by # "http"
      PROVE  /\ Len(arrived[id]) <= Len(commands[id].calls)
             /\ \A i \in DOMAIN arrived[id] :
                  IsWhatWasMeant(arrived[id][i], commands[id].calls[i])
             /\ answers[id] = "ok" => Len(arrived[id]) = Len(commands[id].calls)
             /\ answers[id] = "none" =>
                  Len(arrived[id]) - (Len(commands[id].calls) - Len(todo[id])) \in 0 .. 1
  <2>. DEFINE n == Len(commands[id].calls)
              lg == Len(arrived[id])
              lt == Len(todo[id])
  <2>1. /\ commands[id] \in Command /\ todo[id] \in Seq(CallRec)
        /\ arrived[id] \in Seq(CallRec)
    BY <1>1, Typed
  <2>2. n \in Nat /\ lg \in Nat /\ lt \in Nat /\ DOMAIN arrived[id] = 1 .. lg
    BY <2>1 DEF Command
  <2>3. Passed(over_http, commands[id], todo[id], request[id], arrived[id], answers[id])
    BY <1>2 DEF FrontendInv, IsGood, Good
  <2>4. /\ lg <= n
        /\ \A i \in 1 .. lg : Meant(over_http, arrived[id][i], commands[id].calls[i])
        /\ answers[id] = "none" => lg + lt = n + 1 \/ lg + lt = n
        /\ answers[id] = "ok" => lg = n
    BY <2>3 DEF Passed
  <2>5. \A i \in DOMAIN arrived[id] :
          IsWhatWasMeant(arrived[id][i], commands[id].calls[i])
    BY <2>2, <2>4 DEF Meant, IsWhatWasMeant
  <2>. HIDE DEF n, lg, lt
  <2>6. answers[id] = "none" => lg - (n - lt) \in 0 .. 1
    BY <2>2, <2>4
  <2>. QED  BY <2>4, <2>5, <2>6 DEF n, lg, lt
<1>3. ASSUME NEW id \in DOMAIN commands, commands[id].by = "http", answers[id] = "ok"
      PROVE  <<commands[id].name, arrived[id]>>
               \in Dashboard \cup {<<"deleteTopology", commands[id].calls>>}
  <2>1. commands[id] \in Command  BY <1>1, Typed
  <2>2. PICK call \in HttpOnly :
          commands[id].name = call.op /\ commands[id].calls = <<call>>
    BY <1>3, <2>1 DEF Command
  <2>3. Served(over_http, commands[id], todo[id], request[id], arrived[id], answers[id])
    BY <1>3 DEF FrontendInv, IsGood, Good
  <2>4. arrived[id] \in ServerCalls(call)
    BY <1>3, <2>2, <2>3 DEF Served
  <2>. QED  BY <2>2, <2>4, ServerMakesTheSame
<1>. QED  BY <1>2, <1>3 DEF CallsArrive

\* Of every command, from the command line, the dashboard, a worker or a leader: the
\* storage gets its calls in their order and each at most once, with the worker and the
\* topology they were made with, but for the two calls whose worker the server does
\* not find.  It has got all of them when the caller is called back without an error
\* and none was logged, and, while the command goes on, those that were answered and
\* at most one more, whichever calls the storage refuses and whatever requests and
\* answers are lost.  What the server makes of a command itself is what the dashboard
\* would have made.
THEOREM CallsDoArrive == FrontendSpec => []CallsArrive
<1>1. FrontendInit => FrontendInv
  BY DEF FrontendInit, FrontendInv, FrontendTypes
<1>2. FrontendInv /\ [FrontendNext]_frontend_vars => FrontendInv'
  BY FrontendStep
<1>3. FrontendInv => CallsArrive
  BY GoodArrives
<1>. QED  BY <1>1, <1>2, <1>3, PTL DEF FrontendSpec
=============================================================================
