--------------------------- MODULE TopologyLeader ---------------------------
(***************************************************************************)
(* The leadership object that every worker runs (topology_leader.ts) over  *)
(* the shared storage.  A call to the storage is one step: it takes effect *)
(* and its result is looked at.  Between two steps any other worker may    *)
(* act, so what a loop has read may be stale when it acts on it.  Calls    *)
(* that async.each makes in parallel are kept in a set and made in any     *)
(* order.  The coordinator of the worker and the clients appear here only  *)
(* through the calls they make (see "The rest of the worker").  The load   *)
(* balancer may choose any alive worker.                                   *)
(***************************************************************************)
EXTENDS MemoryStorage

CONSTANTS
  IdleInterval,     \* WORKER_IDLE_INTERVAL, 300 seconds
  MessageInterval,  \* MESSAGE_INTERVAL, 120 seconds
  Rebalances,       \* whether rebalancing comes due
  Clearable,        \* topologies whose error an operator clears
  Reported,         \* statuses that workers report of topologies
  Disabling,        \* whether clients disable topologies
  Disruptions,      \* the kinds of disruption that may happen
  MaxDisruptions    \* bound on their number

ASSUME IntervalsAreOrdered ==
  /\ IdleInterval \in Nat /\ WorkerTimeout <= IdleInterval
  /\ MessageInterval \in Age /\ Rebalances \in BOOLEAN
  /\ Clearable \subseteq Topology /\ MaxDisruptions \in Nat
  /\ Disruptions \subseteq {"crash", "close", "disable", "fail", "late"}
  /\ Reported \subseteq {"running", "unassigned", "error"}
  /\ Disabling \in BOOLEAN

VARIABLES
  up,          \* worker -> what its process does: see Life
  is_leader,   \* worker -> it believes that it has been elected
  is_running,  \* worker -> its loop has not been told to stop
  step,        \* worker -> where its loop is: see Step
  calls,       \* worker -> the parallel calls it still has to make
  seen,        \* worker -> what it has read in this pass of the loop
  due,         \* worker -> next_rebalance has passed
  clearing,    \* topology -> how far clearTopologyError has come with it
  disruptions  \* counts the disruptions so far

loop_vars == <<is_leader, is_running, step, calls, seen, due>>
leader_vars == <<up, loop_vars, clearing, disruptions>>
vars == <<storage_vars, leader_vars>>

Life == {"down", "starting", "up", "closing"}
Step == {"stopped", "sleep", "elected", "defunct", "waiting", "announced",
         "dead", "assign", "end"}
Op == {"dead", "normal", "unassign", "list", "unloaded", "assign", "start",
       "stop"}
Call == [op : Op, worker : Addressee, topologies : SUBSET Topology]

\* Fault: the call is made by another name (breaks LeaderTypeOK).
CallMisnamed(op, w, T) == [op |-> "update", worker |-> w, topologies |-> T]

ACall(op, w, T) == [op |-> op, worker |-> w, topologies |-> T]

\* announce: nobody leads, and this worker is alive.  gone: dead or unloaded
\* workers.  alive: alive workers.  placed: enabled topologies, and where
\* they are or are to be.
Unseen == [announce |-> FALSE, gone |-> {}, alive |-> {}, placed |-> Nothing]

NotClearing == [step |-> "idle", worker |-> NoWorker, assign |-> FALSE]

LeaderInit ==
  /\ StorageInit
  /\ up = [w \in Worker |-> "down"]
  /\ is_leader = [w \in Worker |-> FALSE]
  /\ is_running = [w \in Worker |-> FALSE]
  /\ step = [w \in Worker |-> "stopped"]
  /\ calls = [w \in Worker |-> {}]
  /\ seen = [w \in Worker |-> Unseen]
  /\ due = [w \in Worker |-> FALSE]
  /\ clearing = [t \in Topology |-> NotClearing]
  /\ disruptions = 0

---------------------------------------------------------------------------
(* Calls made in parallel.  Those about the same worker are partly ordered *)
(* by the callbacks they are made in.                                      *)


\* Fault: messages overtake assignments (breaks StartsAreOwn).
PrecedesButStart == {<<"dead", "normal">>, <<"unassign", "unloaded">>}

Precedes == {<<"dead", "normal">>, <<"unassign", "unloaded">>,
             <<"assign", "start">>}
Ready(w, c) ==
  \A d \in calls[w] : d.worker = c.worker => <<d.op, c.op>> \notin Precedes

\* Calls that are never made if c fails: what its callback would have made.
Dependent(w, c) ==
  {d \in calls[w] : d.worker = c.worker /\ <<c.op, d.op>> \in Precedes}

\* handleDeadWorker goes through the topologies that the storage returned
\* (all those of v, or none when the request failed: the error is ignored).
\* Those in error stay as they are; then v is pronounced unloaded.
HandleDeadWorker(v, T, ts) ==
  {ACall("unassign", v, {t}) : t \in {u \in T : ts[u].status # "error"}}
    \cup {ACall("unloaded", v, {})}

\* The effect of a call on the storage.
Perform(c) ==
  CASE c.op = "dead" -> SetWorkerStatus(c.worker, "dead")
    [] c.op = "normal" -> SetWorkerLStatus(c.worker, "normal")
    [] c.op = "unloaded" -> SetWorkerStatus(c.worker, "unloaded")
    [] c.op = "list" -> GetTopologiesForWorker
    [] c.op = "unassign" ->
         \E t \in c.topologies : SetTopologyStatus(t, NoWorker, "unassigned")
    [] c.op = "assign" -> \E t \in c.topologies : AssignTopology(t, c.worker)
    [] c.op = "start" -> SendMessageToWorker(c.worker,
         Message("start_topologies", c.topologies, MessageInterval))
    [] c.op = "stop" -> SendMessageToWorker(c.worker,
         Message("stop_topologies", c.topologies, MessageInterval))


\* Fault: whatever is not dead counts as alive (breaks UnloadedIsEmpty).
UndeadWorkers == {v \in DOMAIN workers : workers[v].status # "dead"}

AliveWorkers == {v \in DOMAIN workers : workers[v].status = "alive"}
DeadWorkers == {v \in DOMAIN workers : workers[v].status = "dead"}
Alive(w) == w \in AliveWorkers
Loops(w) == up[w] # "down"

MakeCall(w) ==
  /\ Loops(w)
  /\ \E c \in calls[w] :
       /\ Ready(w, c)
       /\ Perform(c)
       /\ calls' = [calls EXCEPT ![w] = (@ \ {c}) \cup
            IF c.op = "list"
            THEN HandleDeadWorker(c.worker, TopologiesOf(c.worker)',
                                  topologies')
            ELSE {}]
  /\ UNCHANGED <<up, is_leader, is_running, step, seen, due, clearing,
                 disruptions>>

\* Something goes wrong once more.
Disrupts(kind) ==
  /\ kind \in Disruptions
  /\ disruptions < MaxDisruptions
  /\ disruptions' = disruptions + 1

\* A call fails: the loop ends with its error and is not started again, but
\* the calls beside it go on.  A failed list is ignored.
CallFails(w) ==
  /\ Loops(w)
  /\ Disrupts("fail")
  /\ \E c \in calls[w] :
       /\ Ready(w, c)
       /\ IF c.op = "list"
          THEN /\ calls' = [calls EXCEPT ![w] = (@ \ {c}) \cup
                     HandleDeadWorker(c.worker, {}, topologies)]
               /\ UNCHANGED <<is_running, step>>
          ELSE /\ calls' = [calls EXCEPT ![w] =
                              @ \ ({c} \cup Dependent(w, c))]
               /\ is_running' = [is_running EXCEPT ![w] = FALSE]
               /\ step' = [step EXCEPT ![w] = "stopped"]
       /\ Perform(c) \/ UNCHANGED storage_vars
  /\ UNCHANGED <<up, is_leader, seen, due, clearing>>

\* The parallel calls of the step at which w stands have all returned.
At(w, s) == Loops(w) /\ step[w] = s /\ calls[w] = {}

---------------------------------------------------------------------------
(* refreshStatuses, which each pass of the loop starts with.               *)

\* disableDefunctWorkerSingle: a worker that did not ping for long is marked
\* dead, and only alive workers are left candidates or leaders.
Idle(v) ==
  workers[v].status \notin {"dead", "unloaded"} /\ workers[v].age > IdleInterval
Disabled(v) == Idle(v) \/ workers[v].status # "alive"
DefunctCalls ==
  {ACall("dead", v, {}) : v \in {u \in DOMAIN workers : Idle(u)}} \cup
  {ACall("normal", v, {}) : v \in {u \in DOMAIN workers :
                              Disabled(u) /\ workers[u].lstatus # "normal"}}

\* No worker leads, once those calls have been made.
Vacant ==
  \A v \in DOMAIN workers : workers[v].lstatus = "leader" => Disabled(v)

Gone ==
  {v \in DOMAIN workers : Idle(v) \/ workers[v].status \in {"dead", "unloaded"}}

\* The loop wakes up, or goes on at once as the leader it has just become.
\* Registration, sent five seconds before the first pass, seldom comes later.
RefreshStatuses(w) ==
  /\ At(w, "sleep") \/ At(w, "elected")
  /\ IF up[w] = "starting" THEN Disrupts("late") ELSE UNCHANGED disruptions
  /\ GetWorkerStatus
  /\ calls' = [calls EXCEPT ![w] = DefunctCalls']
  /\ seen' = [seen EXCEPT ![w] =
       [Unseen EXCEPT !.announce = ~is_leader[w] /\ (Vacant /\ Alive(w))',
                      !.gone = Gone']]
  /\ step' = [step EXCEPT ![w] = "defunct"]
  /\ UNCHANGED <<up, is_leader, is_running, due, clearing>>

Stranded(x, gone) ==
  \/ x.status = "waiting" /\ x.age > IdleInterval
  \/ x.status = "running" /\ x.worker \in gone

\* The leader's own unassignWaitingTopologies, after that of the storage.
UnassignWaiting(w) ==
  /\ At(w, "defunct")
  /\ GetTopologyStatus
  /\ calls' = [calls EXCEPT ![w] =
       {ACall("unassign", NoWorker, {t}) :
          t \in {u \in DOMAIN topologies' :
                   Stranded(topologies'[u], seen[w].gone)}}]
  /\ step' = [step EXCEPT ![w] = "waiting"]
  /\ UNCHANGED <<up, is_leader, is_running, seen, due, clearing, disruptions>>

---------------------------------------------------------------------------
(* checkIfLeaderDetermined.                                                *)

AnnounceCandidacy(w) ==
  /\ At(w, "waiting")
  /\ ~is_leader[w] /\ seen[w].announce
  /\ AnnounceLeaderCandidacy(w)
  /\ step' = [step EXCEPT ![w] = "announced"]
  /\ UNCHANGED <<up, is_leader, is_running, calls, seen, due, clearing,
                 disruptions>>

CheckCandidacy(w) ==
  /\ At(w, "announced")
  /\ CheckLeaderCandidacy(w)
  /\ is_leader' = [is_leader EXCEPT ![w] = workers'[w].lstatus = "leader"]
  /\ step' = [step EXCEPT ![w] = IF is_leader'[w] THEN "elected" ELSE "end"]
  /\ seen' = [seen EXCEPT ![w] = Unseen]
  /\ UNCHANGED <<up, is_running, calls, due, clearing, disruptions>>

\* Without a record the check fails, and the loop with it.
CheckCandidacyFails(w) ==
  /\ At(w, "announced")
  /\ CheckLeaderCandidacyFails(w)
  /\ is_running' = [is_running EXCEPT ![w] = FALSE]
  /\ step' = [step EXCEPT ![w] = "stopped"]
  /\ seen' = [seen EXCEPT ![w] = Unseen]
  /\ UNCHANGED <<up, is_leader, calls, due, clearing, disruptions>>

\* The pass ends: a worker that is not to announce itself has nothing to do
\* after the refresh.  The loop is then left when it was told to stop.
EndPass(w) ==
  /\ \/ At(w, "end")
     \/ At(w, "waiting") /\ ~is_leader[w] /\ ~seen[w].announce
  /\ step' = [step EXCEPT ![w] = IF is_running[w] THEN "sleep" ELSE "stopped"]
  /\ seen' = [seen EXCEPT ![w] = Unseen]
  /\ UNCHANGED <<storage_vars, up, is_leader, is_running, calls, due,
                 clearing, disruptions>>

---------------------------------------------------------------------------
(* performLeaderLoop.                                                      *)

IsRecorded(w) == w \in DOMAIN workers /\ workers[w].lstatus = "leader"

\* Fault: the record is left as it is (breaks RecordedLeaderServes and
\* LeadershipSettles).
ReleaseNothing(w) == {}

\* What a recorded leader that is not alive any more does about its record.
Release(w) == {ACall("normal", w, {})}

ConfirmLeadership(w) ==
  /\ At(w, "waiting") /\ is_leader[w]
  /\ GetWorkerStatus
  /\ LET serves == IsRecorded(w)' /\ Alive(w)'
     IN  /\ is_leader' = [is_leader EXCEPT ![w] = serves]
         /\ step' = [step EXCEPT ![w] = IF serves THEN "dead" ELSE "end"]
         /\ calls' = [calls EXCEPT ![w] =
              CASE serves -> {ACall("list", v, {}) : v \in DeadWorkers'}
                [] IsRecorded(w)' /\ ~serves -> Release(w)
                [] OTHER -> {}]
         /\ seen' = [seen EXCEPT ![w] =
              [Unseen EXCEPT !.alive = IF serves THEN AliveWorkers' ELSE {}]]
  /\ UNCHANGED <<up, is_running, due, clearing, disruptions>>

\* Fault: those that a worker gave back are overlooked (breaks
\* UnassignedAreAssigned).
NeverAssigned(t) ==
  /\ topologies[t].enabled /\ topologies[t].status = "unassigned"
  /\ topologies[t].worker = NoWorker

\* The topologies that the leader finds enabled and unassigned.
ToAssign(t) == topologies[t].enabled /\ topologies[t].status = "unassigned"

\* The topologies are read and those unassigned are given to alive workers.
\* handleSuspiciousTopologies finds nothing: ActiveHasWorker.
AssignUnassigned(w) ==
  /\ At(w, "dead")
  /\ GetTopologyStatus
  /\ LET enabled == {t \in DOMAIN topologies' : topologies'[t].enabled}
         T == {t \in DOMAIN topologies' : ToAssign(t)'}
     IN  \E target \in [T -> seen[w].alive] :
           /\ calls' = [calls EXCEPT ![w] =
                {ACall("assign", target[t], {t}) : t \in T} \cup
                {ACall("start", v, {t \in T : target[t] = v}) :
                   v \in {target[t] : t \in T}}]
           /\ seen' = [seen EXCEPT ![w] = [Unseen EXCEPT !.placed =
                [t \in enabled |-> IF t \in T THEN target[t]
                                   ELSE topologies'[t].worker]]]
  /\ step' = [step EXCEPT ![w] = "assign"]
  /\ UNCHANGED <<up, is_leader, is_running, due, clearing, disruptions>>

\* When it is due, any of the enabled topologies may be moved away: their
\* workers (null for one in error that has none) are told to stop them.
Rebalance(w) ==
  /\ At(w, "assign")
  /\ \E T \in SUBSET DOMAIN seen[w].placed :
       /\ T # {} => due[w]
       /\ calls' = [calls EXCEPT ![w] =
            {ACall("stop", v, {t \in T : seen[w].placed[t] = v}) :
               v \in {seen[w].placed[t] : t \in T}}]
  /\ due' = [due EXCEPT ![w] = FALSE]
  /\ seen' = [seen EXCEPT ![w] = Unseen]
  /\ step' = [step EXCEPT ![w] = "end"]
  /\ UNCHANGED <<storage_vars, up, is_leader, is_running, clearing,
                 disruptions>>

\* An hour has passed, or the message rebalance called forceRebalance.
RebalanceDue(w) ==
  /\ Rebalances /\ Loops(w) /\ ~due[w]
  /\ due' = [due EXCEPT ![w] = TRUE]
  /\ UNCHANGED <<storage_vars, up, is_leader, is_running, step, calls, seen,
                 clearing, disruptions>>

\* Any other request of the loop fails, before or after it took effect.
RequestFails(w) ==
  /\ Disrupts("fail")
  /\ \/ /\ \E s \in {"sleep", "elected", "defunct", "waiting", "announced",
                    "dead"} : At(w, s)
        /\ UNCHANGED storage_vars
     \/ /\ At(w, "waiting") /\ ~is_leader[w] /\ seen[w].announce
        /\ AnnounceLeaderCandidacy(w)
     \/ At(w, "announced") /\ CheckLeaderCandidacy(w)
  /\ is_running' = [is_running EXCEPT ![w] = FALSE]
  /\ step' = [step EXCEPT ![w] = "stopped"]
  /\ seen' = [seen EXCEPT ![w] = Unseen]
  /\ UNCHANGED <<up, is_leader, calls, due, clearing>>

LeaderStep(w) ==
  \/ MakeCall(w)
  \/ RefreshStatuses(w)
  \/ UnassignWaiting(w)
  \/ AnnounceCandidacy(w)
  \/ CheckCandidacy(w)
  \/ CheckCandidacyFails(w)
  \/ EndPass(w)
  \/ ConfirmLeadership(w)
  \/ AssignUnassigned(w)
  \/ Rebalance(w)

---------------------------------------------------------------------------
(* clearTopologyError, which an operator runs in a process of its own.     *)

ClearReadsTopology(t) ==
  /\ clearing[t].step = "idle"
  /\ t \in Clearable \cap DOMAIN topologies
  /\ topologies[t].status = "error"
  /\ clearing' = [clearing EXCEPT ![t] =
       [step |-> "worker", worker |-> topologies[t].worker, assign |-> FALSE]]
  /\ UNCHANGED <<storage_vars, up, loop_vars, disruptions>>

ClearReadsWorkers(t) ==
  /\ clearing[t].step = "worker"
  /\ GetWorkerStatus
  /\ clearing' = [clearing EXCEPT ![t].step = "status",
                                  ![t].assign = clearing[t].worker \in AliveWorkers']
  /\ UNCHANGED <<up, loop_vars, disruptions>>

\* Back to the worker it failed on, when that is alive.
ClearSetsStatus(t) ==
  /\ clearing[t].step = "status"
  /\ IF clearing[t].assign
     THEN /\ AssignTopology(t, clearing[t].worker)
          /\ clearing' = [clearing EXCEPT ![t].step = "message"]
     ELSE /\ SetTopologyStatus(t, NoWorker, "unassigned")
          /\ clearing' = [clearing EXCEPT ![t] = NotClearing]
  /\ UNCHANGED <<up, loop_vars, disruptions>>

ClearSendsMessage(t) ==
  /\ clearing[t].step = "message"
  /\ SendMessageToWorker(clearing[t].worker,
                         Message("start_topology", {t}, MessageInterval))
  /\ clearing' = [clearing EXCEPT ![t] = NotClearing]
  /\ UNCHANGED <<up, loop_vars, disruptions>>

ClearStep(t) ==
  ClearReadsTopology(t) \/ ClearReadsWorkers(t) \/ ClearSetsStatus(t)
    \/ ClearSendsMessage(t)

---------------------------------------------------------------------------
(* The rest of the worker and the clients, as the calls they make: any     *)
(* order of them is allowed.  What goes wrong is counted in disruptions.   *)

\* The process is gone: a crash, or the exit after a shutdown.
ProcessEnds(w) ==
  /\ up' = [up EXCEPT ![w] = "down"]
  /\ is_leader' = [is_leader EXCEPT ![w] = FALSE]
  /\ is_running' = [is_running EXCEPT ![w] = FALSE]
  /\ step' = [step EXCEPT ![w] = "stopped"]
  /\ calls' = [calls EXCEPT ![w] = {}]
  /\ seen' = [seen EXCEPT ![w] = Unseen]
  /\ due' = [due EXCEPT ![w] = FALSE]
  /\ UNCHANGED clearing

Crash(w) ==
  /\ up[w] # "down"
  /\ Disrupts("crash")
  /\ ProcessEnds(w)
  /\ UNCHANGED storage_vars

\* The coordinator starts the loop of the leader while it registers.
Start(w) ==
  /\ up[w] = "down"
  /\ up' = [up EXCEPT ![w] = "starting"]
  /\ is_running' = [is_running EXCEPT ![w] = TRUE]
  /\ step' = [step EXCEPT ![w] = "sleep"]
  /\ UNCHANGED <<storage_vars, is_leader, calls, seen, due, clearing,
                 disruptions>>

Register(w) ==
  /\ up[w] = "starting"
  /\ RegisterWorker(w)
  /\ up' = [up EXCEPT ![w] = "up"]
  /\ UNCHANGED <<loop_vars, clearing, disruptions>>

Pings(w) == up[w] \in {"up", "closing"}
Ping(w) == Pings(w) /\ PingWorker(w) /\ UNCHANGED leader_vars

\* checkWorkerStatus of the coordinator.  It reads before it writes, but what
\* others do to the record in between it would overwrite all the same.
Recover(w) ==
  /\ Pings(w)
  /\ IF w \in DOMAIN workers
     THEN /\ workers[w].status \notin {"alive", "disabled"}
          /\ SetWorkerStatus(w, "alive")
     ELSE RegisterWorker(w)
  /\ UNCHANGED leader_vars

\* The messages set_disabled and set_enabled.
ReleaseLeadership(w) ==
  /\ up[w] = "up" /\ Disrupts("disable")
  /\ SetWorkerLStatus(w, "normal")
  /\ UNCHANGED <<up, loop_vars, clearing>>
Disable(w) ==
  /\ up[w] = "up" /\ Disrupts("disable")
  /\ SetWorkerStatus(w, "disabled")
  /\ UNCHANGED <<up, loop_vars, clearing>>
Enable(w) ==
  /\ up[w] = "up" /\ SetWorkerStatus(w, "alive") /\ UNCHANGED leader_vars

\* A worker closes when it is told to, and when its loop was left.
Close(w) ==
  /\ up[w] \in {"starting", "up"}
  /\ \/ step[w] = "stopped" /\ UNCHANGED disruptions
     \/ step[w] # "stopped" /\ Disrupts("close")
  /\ SetWorkerStatus(w, "closing")
  /\ up' = [up EXCEPT ![w] = "closing"]
  /\ is_running' = [is_running EXCEPT ![w] = FALSE]
  /\ UNCHANGED <<is_leader, step, calls, seen, due, clearing>>
Exit(w) ==
  /\ up[w] = "closing" /\ step[w] = "stopped"
  /\ SetWorkerStatus(w, "dead")
  /\ ProcessEnds(w)
  /\ UNCHANGED disruptions

Report(w, t, status) ==
  /\ Pings(w)
  /\ Accepted(t, w)
  /\ SetTopologyStatus(t, w, status)
  /\ UNCHANGED leader_vars

ReadMessages(w) ==
  /\ up[w] = "up"
  /\ GetMessage(w) \/ GetNoMessage(w)
  /\ UNCHANGED leader_vars

Client(t) ==
  /\ \/ t \notin DOMAIN topologies /\ RegisterTopology(t)
     \/ t \in DOMAIN topologies /\ EnableTopology(t)
     \/ t \in DOMAIN topologies /\ Disabling /\ DisableTopology(t)
  /\ UNCHANGED leader_vars

\* An operator deletes the record of an unloaded worker.
Delete(w) == DeleteWorker(w) /\ UNCHANGED leader_vars

\* Time that passes while a worker fails to ping is a disruption.
TimePasses ==
  /\ Tick
  /\ \/ /\ \A w \in DOMAIN workers : Pings(w) => workers[w].age = 0
        /\ UNCHANGED disruptions
     \/ Disrupts("late")
  /\ UNCHANGED <<up, loop_vars, clearing>>

WorkerStep(w) ==
  \/ Start(w) \/ Register(w) \/ Ping(w) \/ Recover(w) \/ Close(w) \/ Exit(w)
  \/ ReadMessages(w)

Disruption(w) ==
  \/ Crash(w) \/ ReleaseLeadership(w) \/ Disable(w) \/ Enable(w)
  \/ CallFails(w) \/ RequestFails(w) \/ Delete(w)

LeaderNext ==
  \/ \E w \in Worker : \/ LeaderStep(w) \/ RebalanceDue(w)
                       \/ WorkerStep(w) \/ Disruption(w)
                       \/ \E t \in Topology :
                            \E status \in Reported : Report(w, t, status)
  \/ \E t \in Topology : ClearStep(t) \/ Client(t)
  \/ TimePasses

\* The loops of a started worker keep running.  Nobody need start it again, a
\* client need not do anything and a disruption need not happen.
LeaderFairness ==
  /\ \A w \in Worker :
       /\ WF_vars(LeaderStep(w))
       /\ WF_vars(Register(w)) /\ WF_vars(Ping(w))
       /\ WF_vars(Recover(w)) /\ WF_vars(step[w] = "stopped" /\ Close(w))
       /\ WF_vars(Exit(w)) /\ WF_vars(ReadMessages(w))
  /\ WF_vars(TimePasses)

LeaderSpec == LeaderInit /\ [][LeaderNext]_vars
FairLeaderSpec == LeaderSpec /\ LeaderFairness

---------------------------------------------------------------------------
(* Properties.                                                             *)

\* Type invariant of the loops.
LeaderTypeOK ==
  /\ up \in [Worker -> Life]
  /\ is_leader \in [Worker -> BOOLEAN]
  /\ is_running \in [Worker -> BOOLEAN]
  /\ step \in [Worker -> Step]
  /\ calls \in [Worker -> SUBSET Call]
  /\ due \in [Worker -> BOOLEAN]
  /\ disruptions \in 0 .. MaxDisruptions

\* A registered worker that is recorded as leader, and whose loop was not
\* told to stop, knows that it leads or is about to clear the record: the office is never held by a
\* worker that does not serve, while the others take it to be filled
\* (leadership_status of refreshStatuses).
RecordedLeaderServes ==
  \A w \in DOMAIN workers :
    workers[w].lstatus = "leader" /\ up[w] = "up" /\ is_running[w]
      => is_leader[w] \/ ACall("normal", w, {}) \in calls[w]

\* If some worker stays alive, then whatever happened before, the office is
\* filled and stays filled in the end.
Serves(w) == IsRecorded(w) /\ is_leader[w] /\ is_running[w]
StaysAlive == \E w \in Worker : <>[](up[w] = "up" /\ Alive(w))
LeadershipSettles == StaysAlive => <>[](\E w \in Worker : Serves(w))

\* If some worker stays alive, then an enabled and unassigned topology is
\* given to a worker, or disabled by a client.
IsWanting(t) ==
  /\ t \in DOMAIN topologies
  /\ topologies[t].enabled /\ topologies[t].status = "unassigned"
UnassignedAreAssigned ==
  StaysAlive => \A t \in Topology : IsWanting(t) ~> ~IsWanting(t)

\* While nothing goes wrong, a worker is never told to start a topology that
\* another worker has: assignments of the same pass, which run in parallel,
\* are complete before their message is sent.  (The worker would ignore the
\* message, and the topology would wait until it times out.)
Told(v, t) ==
  \E i \in DOMAIN messages'[v] \ DOMAIN messages[v] :
    /\ messages'[v][i].cmd = "start_topologies"
    /\ t \in messages'[v][i].content
StartsAreOwn ==
  [][\A v \in Worker, t \in DOMAIN topologies :
       disruptions = 0 /\ Told(v, t) =>
         topologies[t].worker \in {v, NoWorker}]_vars

\* A crashed worker is not pronounced unloaded before all that it ran was
\* taken from it (handleDeadWorker), so that nothing is stranded there.  (One
\* that came back meanwhile may be: it runs, and recovers.)
UnloadedIsEmpty ==
  \A t \in DOMAIN topologies, v \in DOMAIN workers :
    /\ up[v] = "down" /\ workers[v].status = "unloaded"
    /\ topologies[t].worker = v
    => topologies[t].status \in {"unassigned", "error"}
=============================================================================
