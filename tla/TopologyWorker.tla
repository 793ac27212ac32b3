--------------------------- MODULE TopologyWorker ---------------------------
(***************************************************************************)
(* The process of one worker: the coordinator's loop                       *)
(* (topology_coordinator.ts) and the list of topologies it controls        *)
(* (topology_worker.ts), over the storage and over proxies that keep       *)
(* ChildContract.  A call of the storage whose answer is used later is two *)
(* steps, the storage's and the callback's; reports are on their way until *)
(* the storage handles them, in the order they were sent.  The leader, the *)
(* other workers and the operators are the environment.  No time passes    *)
(* for the storage: its time-outs belong to TopologyLeader.                *)
(***************************************************************************)
EXTENDS MemoryStorage, SequencesExt

CONSTANTS
  Me,             \* the name of this worker
  Proxy,          \* the proxies it may create
  CheckPeriod,    \* 5: passes of the loop from one check to the next
  WorkerFailures, \* what may go wrong: "storage", "leader", "child", "compile"
  MaxFailures,    \* bound on the failures of the storage
  Orders,         \* what the environment does, see Environment
  MaxOrders       \* bound on it

ASSUME WorkerIsNamed == Me \in Worker /\ Topology # {}
ASSUME TopologiesAreFinite == IsFiniteSet(Topology)
ASSUME WorkerBounds ==
  CheckPeriod \in Nat \ {0} /\ MaxOrders \in Nat /\ MaxFailures \in Nat

VARIABLES
  proc,                  \* "up" or "exited", with whatever code
  loop,                  \* the coordinator's loop: "on" or "ended"
  is_running,
  shutdown_callback,     \* it is set
  leadership,            \* its loop: "running", "stopping", "stopped"
  turn,                  \* check_counter, as the number of the pass
  requests, msg,         \* the pass's branches: handleIncommingRequests,
  to_start, granted,     \*   with the topologies asked for and answered,
  assigned, listed,      \*   checkAssignedTopologies,
  status_check, seen,    \*   checkWorkerStatus; with the answers they hold
  current_dormancy_state, is_dormant_period,
  waiting_for_shutdown, is_shutting_down,
  phase,                 \* of TopologyWorker.shutdown
  items,                 \* this.topologies: the proxies it holds
  child,                 \* the proxies and their child processes
  reports,               \* calls of setTopologyStatus on their way
  orders, failed         \* the bounds' counters

loop_vars == <<proc, loop, is_running, shutdown_callback, leadership, turn>>
request_vars == <<requests, msg, to_start, granted>>
assigned_vars == <<assigned, listed>>
status_vars == <<status_check, seen>>
dormancy_vars == <<current_dormancy_state, is_dormant_period>>
shutdown_vars == <<waiting_for_shutdown, is_shutting_down, phase>>
item_vars == <<items, child, reports>>
bound_vars == <<orders, failed>>
worker_vars ==
  <<storage_vars, loop_vars, request_vars, assigned_vars, status_vars,
    dormancy_vars, shutdown_vars, item_vars, bound_vars>>

Up == proc = "up"

\* Who waits for a report, or for a shutdown: nobody in particular (callbacks
\* that only log), TopologyWorker.shutdown, or resolveTopologyMismatches.
Caller == {"nobody", "worker", "resolve"}
Reported == [top : Topology, status : {"running", "unassigned", "error"},
             caller : Caller]

NewChild(t) == [top |-> t, life |-> "none", pending |-> {}, stopped |-> FALSE,
                reported |-> FALSE, caller |-> "nobody"]
Child == [top : Topology, life : {"none", "alive", "gone"},
          pending : SUBSET {"init", "run", "shutdown"}, stopped : BOOLEAN,
          reported : BOOLEAN, caller : Caller]

NoMessage == Message("rebalance", {}, 0)

\* A worker starts with a record, and perhaps with a topology assigned to it, by
\* a message sent since, or to an earlier process of its name: then a message
\* is older than start_time, so of age 1.
WorkerInit ==
  /\ \E old \in {"unassigned", "waiting", "running"}, age \in {0, 1} :
       /\ topologies = [t \in Topology |->
            [age |-> 0, status |-> old, enabled |-> TRUE,
             worker |-> IF old = "unassigned" THEN NoWorker ELSE Me]]
       /\ messages = [w \in Addressee |->
            IF w = Me /\ old = "waiting"
            THEN << [Message("start_topologies", Topology, MaxAge)
                       EXCEPT !.age = age] >>
            ELSE << >>]
  /\ workers = [w \in {Me} |->
       [age |-> 0, status |-> "alive", lstatus |-> "normal"]]
  /\ workers_history = [w \in {Me} |-> WorkerEntry(workers[w])]
  /\ topologies_history = [t \in Topology |-> TopologyEntry(topologies[t])]
  /\ proc = "up" /\ loop = "on" /\ is_running = TRUE
  /\ is_shutting_down = FALSE /\ shutdown_callback = FALSE
  /\ leadership = "running" /\ turn = 1
  /\ requests = "timer" /\ msg = NoMessage /\ to_start = {} /\ granted = {}
  /\ assigned = "ask" /\ listed = {}
  /\ status_check = IF CheckPeriod = 1 THEN "ask" ELSE "done"
  /\ seen = "none"
  /\ current_dormancy_state = FALSE /\ is_dormant_period = FALSE
  /\ waiting_for_shutdown = FALSE /\ phase = "none"
  /\ items = {} /\ reports = << >>
  /\ child = [g \in Proxy |-> NewChild(CHOOSE t \in Topology : TRUE)]
  /\ orders = 0 /\ failed = 0

---------------------------------------------------------------------------
(* The list of topologies.                                                 *)

Report(t, status, caller) == [top |-> t, status |-> status, caller |-> caller]

Of(t) == {g \in items : child[g].top = t}
HasTopology(t) == Of(t) # {}

\* Fault: the child is left alone (breaks ChildrenAreListed).
NotEnsured(c, G) == c

\* ensureExit, and kill itself: nothing happens to a child whose exit was
\* reported.
EnsureExit(c, G) ==
  [g \in Proxy |-> IF g \in G /\ c[g].life = "alive" /\ ~c[g].reported
                   THEN [c[g] EXCEPT !.life = "gone"] ELSE c[g]]

\* removeTopology, after c has replaced the proxies: whatever is in the list
\* under this uuid is to be gone.
RemoveTopology(c, t) ==
  child' = EnsureExit(c, Of(t)) /\ items' = items \ Of(t)

\* afterShutdown of shutDownTopologyInternal.
AfterShutdown(g, err, caller) ==
  Report(child[g].top, IF err THEN "error" ELSE "unassigned", caller)

\* The shutdown of a proxy that waits for one is refused, that of a child which
\* has answered one succeeds; both at once.
Refused(g) == "shutdown" \in child[g].pending
AtOnce(G, caller) ==
  SetToSeq({AfterShutdown(g, Refused(g), caller) :
              g \in {h \in G : Refused(h) \/ child[h].stopped}})

ShutDownTopologies(G, caller) ==
  /\ child' = [g \in Proxy |->
       IF g \in G /\ ~Refused(g) /\ ~child[g].stopped
       THEN [child[g] EXCEPT !.pending = @ \cup {"shutdown"},
                             !.caller = caller]
       ELSE child[g]]
  /\ reports' = reports \o AtOnce(G, caller)
  /\ UNCHANGED items

\* The 50 ms that kill waits before it calls back are part of the time that
\* the report takes to be delivered (Deliver).
KillTopologies(G, caller) ==
  /\ child' = EnsureExit(child, G)
  /\ reports' =
       reports \o SetToSeq({AfterShutdown(g, FALSE, caller) : g \in G})
  /\ UNCHANGED items

MayStart(t) == ~HasTopology(t)

ProxyIsLeft == \E g \in Proxy : child[g].life = "none"
NewProxy == CHOOSE g \in Proxy : child[g].life = "none"

\* start and createInitAndRunProxy.
StartTopology(t) ==
  /\ items' = items \cup {NewProxy}
  /\ child' = [child EXCEPT ![NewProxy] =
       [NewChild(t) EXCEPT !.life = "alive", !.pending = {"init"}]]
  /\ reports' = Append(reports, Report(t, "running", "nobody"))

\* The callback of init or run, with an error.
InitOrRunFails(g, cmd) ==
  /\ RemoveTopology(
       EnsureExit([child EXCEPT ![g].pending = @ \ {cmd}], {g}), child[g].top)
  /\ reports' = Append(reports, Report(child[g].top, "error", "nobody"))

\* The exit of a child: whatever waits is called back with an error, then
\* child_exit_callback.  Each of them removes the topology.
OnExit(g, err) ==
  LET c == child[g]
      Called(S) == c.pending \cap S # {}
  IN  /\ RemoveTopology(
           [child EXCEPT ![g].pending = {}, ![g].reported = TRUE,
                         ![g].caller = "nobody"], c.top)
      /\ reports' = reports
           \o (IF Called({"init", "run"})
               THEN <<Report(c.top, "error", "nobody")>> ELSE << >>)
           \o (IF Called({"shutdown"})
               THEN <<AfterShutdown(g, TRUE, c.caller)>> ELSE << >>)
           \o <<Report(c.top, IF err THEN "error" ELSE "unassigned", "nobody")>>

---------------------------------------------------------------------------
(* The end of the loop and the shutdown.                                   *)

\* client.shutdown, a signal or an uncaught exception.
BeginShutdown ==
  IF waiting_for_shutdown THEN UNCHANGED shutdown_vars
  ELSE /\ waiting_for_shutdown' = TRUE /\ is_shutting_down' = TRUE
       /\ phase' = "closing"

\* The callback of the loop, which may have ended with an error.
CoordinatorStopped ==
  /\ loop' = "ended"
  /\ IF shutdown_callback
     THEN proc' = "exited" /\ UNCHANGED shutdown_vars
     ELSE UNCHANGED proc /\ BeginShutdown
  /\ UNCHANGED <<shutdown_callback, leadership, turn>>

\* An error of a branch ends the loop, once; the other branches go on.
PassFails ==
  IF loop = "on" THEN CoordinatorStopped /\ UNCHANGED is_running
  ELSE UNCHANGED <<loop_vars, shutdown_vars>>

\* A call of the storage fails.
StorageFails ==
  /\ "storage" \in WorkerFailures /\ failed < MaxFailures
  /\ failed' = failed + 1 /\ UNCHANGED <<storage_vars, orders>>

\* The next pass of the loop.  Its first branch looks at the leadership; the
\* others start all the same.
PassEnded == requests = "done" /\ assigned = "done" /\ status_check = "done"
CheckAssigned(n) == n % CheckPeriod = 1 % CheckPeriod
CheckStatus(n) == n % CheckPeriod = 0

\* Fault: the passes are counted on (breaks WorkerTypeOK).
PassesCounted == turn + 1

NextTurn == IF turn = CheckPeriod THEN 1 ELSE turn + 1

NextPass ==
  /\ Up /\ loop = "on" /\ PassEnded
  /\ IF ~is_running
     THEN /\ CoordinatorStopped
          /\ UNCHANGED <<is_running, requests, assigned, status_check>>
     ELSE /\ requests' = "timer"
          /\ assigned' = IF CheckAssigned(NextTurn) THEN "ask" ELSE "done"
          /\ status_check' = IF CheckStatus(NextTurn) THEN "ask" ELSE "done"
          /\ IF leadership = "running"
             THEN /\ turn' = NextTurn
                  /\ UNCHANGED <<proc, loop, is_running, shutdown_callback,
                                 leadership, shutdown_vars>>
             ELSE is_running' = FALSE /\ CoordinatorStopped
  /\ UNCHANGED <<storage_vars, msg, to_start, granted, listed, seen,
                 dormancy_vars, item_vars, bound_vars>>

\* preShutdown reports the worker as closing and stops its leadership.  Errors
\* are only logged.
ReportWorker(status) ==
  \/ SetWorkerStatus(Me, status) /\ UNCHANGED bound_vars
  \/ StorageFails

PreShutdown ==
  /\ Up /\ phase = "closing"
  /\ ReportWorker("closing")
  /\ IF leadership = "stopped"
     THEN phase' = "slice" /\ UNCHANGED leadership
     ELSE phase' = "leadership" /\ leadership' = "stopping"
  /\ UNCHANGED <<proc, loop, is_running, shutdown_callback, turn, request_vars,
                 assigned_vars, status_vars, dormancy_vars,
                 waiting_for_shutdown, is_shutting_down, item_vars>>

\* The leader's loop ends, when it was told to or when a call fails.
LeadershipEnds ==
  /\ Up
  /\ \/ leadership = "stopping"
     \/ leadership = "running" /\ "leader" \in WorkerFailures
  /\ leadership' = "stopped"
  /\ phase' = IF phase = "leadership" THEN "slice" ELSE phase
  /\ UNCHANGED <<storage_vars, proc, loop, is_running, shutdown_callback, turn,
                 request_vars, assigned_vars, status_vars, dormancy_vars,
                 waiting_for_shutdown, is_shutting_down, item_vars, bound_vars>>

\* shutDownTopologies: those in the list now.
ShutDownAll ==
  /\ Up /\ phase = "slice" /\ phase' = "topologies"
  /\ ShutDownTopologies(items, "worker")
  /\ UNCHANGED <<storage_vars, loop_vars, request_vars, assigned_vars,
                 status_vars, dormancy_vars, waiting_for_shutdown,
                 is_shutting_down, bound_vars>>

Awaited(caller) ==
  \/ \E i \in DOMAIN reports : reports[i].caller = caller
  \/ \E g \in Proxy : "shutdown" \in child[g].pending /\ child[g].caller = caller

\* Fault: the callback is only stored (breaks ShutdownEnds).
StoredCallback ==
  /\ shutdown_callback' = TRUE /\ is_running' = FALSE
  /\ phase' = "done" /\ UNCHANGED proc

\* TopologyCoordinator.shutdown, once the worker was reported as dead.
CoordinatorShutdown ==
  /\ phase' = "done"
  /\ IF is_running
     THEN shutdown_callback' = TRUE /\ is_running' = FALSE /\ UNCHANGED proc
     ELSE proc' = "exited" /\ UNCHANGED <<shutdown_callback, is_running>>

ReportDead ==
  /\ Up /\ phase = "topologies" /\ ~Awaited("worker")
  /\ ReportWorker("dead")
  /\ CoordinatorShutdown
  /\ UNCHANGED <<loop, leadership, turn, request_vars, assigned_vars,
                 status_vars, dormancy_vars, waiting_for_shutdown,
                 is_shutting_down, item_vars>>

\* SIGINT, SIGTERM and uncaughtException.
Interrupted ==
  /\ Up /\ ~waiting_for_shutdown /\ BeginShutdown
  /\ UNCHANGED <<storage_vars, loop_vars, request_vars, assigned_vars,
                 status_vars, dormancy_vars, item_vars>>

---------------------------------------------------------------------------
(* Requests.                                                               *)

\* A message, if there is one; a change of the dormancy period counts as one.
\* Nothing is asked for while the worker shuts down.
TakeMessage ==
  \/ /\ \E i \in Deliverable(Me) :
          IsNextMessage(Me, i) /\ msg' = messages[Me][i]
     /\ GetMessage(Me)
     /\ requests' = "message" /\ UNCHANGED dormancy_vars
  \/ /\ GetNoMessage(Me)
     /\ IF is_dormant_period = current_dormancy_state
        THEN requests' = "done" /\ UNCHANGED <<msg, dormancy_vars>>
        ELSE /\ current_dormancy_state' = is_dormant_period
             /\ UNCHANGED is_dormant_period
             /\ requests' = "message"
             /\ msg' = Message(IF is_dormant_period THEN "set_disabled"
                               ELSE "set_enabled", {}, MaxAge)

HandleIncommingRequests ==
  /\ Up /\ requests = "timer"
  /\ \/ /\ is_shutting_down /\ requests' = "done"
        /\ UNCHANGED <<storage_vars, loop_vars, msg, dormancy_vars,
                       shutdown_vars, bound_vars>>
     \/ /\ ~is_shutting_down /\ TakeMessage
        /\ UNCHANGED <<loop_vars, shutdown_vars, bound_vars>>
     \/ /\ ~is_shutting_down /\ requests' = "done"
        /\ StorageFails /\ PassFails
        /\ UNCHANGED <<msg, dormancy_vars>>
  /\ UNCHANGED <<to_start, granted, assigned_vars, status_vars, item_vars>>

\* set_disabled gives the leadership up, reports and stops everything.  The
\* two calls to the storage, made one after the other, are one step here, and
\* do not fail: TopologyLeader has them as ReleaseLeadership and Disable.
SetDisabled ==
  /\ workers' = [w \in DOMAIN workers |->
       IF w = Me THEN [workers[w] EXCEPT !.status = "disabled",
                                         !.lstatus = "normal"]
       ELSE workers[w]]
  /\ NotifyWorkerHistory({Me} \cap DOMAIN workers)
  /\ UNCHANGED <<topologies, messages, topologies_history>>

\* What a message does to the list of topologies.
Handled ==
  CASE msg.cmd \in {"stop_topology", "stop_topologies"} ->
         ShutDownTopologies(UNION {Of(t) : t \in msg.content}, "nobody")
    [] msg.cmd = "kill_topology" ->
         KillTopologies(UNION {Of(t) : t \in msg.content}, "nobody")
    [] msg.cmd = "set_disabled" -> ShutDownTopologies(items, "nobody")
    [] OTHER -> UNCHANGED item_vars

Starts == msg.cmd \in {"start_topology", "start_topologies"}

\* handleSingleRequest.  What was sent before this process started is ignored.
HandleSingleRequest ==
  /\ Up /\ requests = "message"
  /\ msg' = NoMessage
  /\ IF msg.age > 0
     THEN UNCHANGED <<storage_vars, shutdown_vars, item_vars>>
     ELSE /\ Handled
          /\ IF msg.cmd = "shutdown" THEN BeginShutdown
             ELSE UNCHANGED shutdown_vars
          /\ CASE msg.cmd = "set_disabled" -> SetDisabled
               [] msg.cmd = "set_enabled" -> SetWorkerStatus(Me, "alive")
               [] OTHER -> UNCHANGED storage_vars
  /\ IF Starts /\ msg.age = 0 /\ msg.content # {}
     THEN requests' = "starting" /\ to_start' = msg.content
     ELSE requests' = "done" /\ UNCHANGED to_start
  /\ UNCHANGED <<loop_vars, granted, assigned_vars, status_vars, dormancy_vars,
                 bound_vars>>

\* The topology is still assigned to this worker.
StillAssigned(t) ==
  topologies[t].worker = Me /\ topologies[t].status = "waiting"

GetTopologyInfo(t) ==
  /\ Up /\ t \in to_start /\ to_start' = to_start \ {t}
  /\ \/ /\ granted' = IF StillAssigned(t) THEN granted \cup {t} ELSE granted
        /\ UNCHANGED <<storage_vars, loop_vars, shutdown_vars, bound_vars>>
     \/ StorageFails /\ PassFails /\ UNCHANGED granted
  /\ requests' = IF to_start' \cup granted' = {} THEN "done" ELSE requests
  /\ UNCHANGED <<msg, assigned_vars, status_vars, dormancy_vars, item_vars>>

\* The answer comes back: startTopology, in whatever state the worker is now.
Start(t) ==
  /\ Up /\ t \in granted /\ granted' = granted \ {t}
  /\ requests' = IF to_start \cup granted' = {} THEN "done" ELSE requests
  /\ \/ ~MayStart(t) /\ UNCHANGED item_vars
     \/ MayStart(t) /\ ProxyIsLeft /\ StartTopology(t)
     \/ /\ MayStart(t) /\ "compile" \in WorkerFailures
        /\ reports' = Append(reports, Report(t, "error", "nobody"))
        /\ UNCHANGED <<items, child>>
  /\ UNCHANGED <<storage_vars, loop_vars, msg, to_start, assigned_vars,
                 status_vars, dormancy_vars, shutdown_vars, bound_vars>>

---------------------------------------------------------------------------
(* The two checks.                                                         *)

CheckAssignedTopologies ==
  /\ Up /\ assigned = "ask"
  /\ \/ /\ GetTopologiesForWorker
        /\ assigned' = "listed"
        /\ listed' = {t \in DOMAIN topologies' :
                        /\ topologies'[t].worker = Me
                        /\ topologies'[t].status = "running"}
        /\ UNCHANGED <<loop_vars, shutdown_vars, bound_vars>>
     \/ /\ assigned' = "done" /\ UNCHANGED listed
        /\ StorageFails /\ PassFails
  /\ UNCHANGED <<request_vars, status_vars, dormancy_vars, item_vars>>

\* Fault: what is not listed is left to run (breaks MismatchesAreResolved).
NothingToKill == {}

ToKill == {g \in items : child[g].top \notin listed}

\* What runs and is not listed is killed ...
ResolveTopologyMismatches ==
  /\ Up /\ assigned = "listed"
  /\ IF waiting_for_shutdown
     THEN assigned' = "done" /\ listed' = {} /\ UNCHANGED item_vars
     ELSE /\ assigned' = "killing" /\ UNCHANGED listed
          /\ KillTopologies(ToKill, "resolve")
  /\ UNCHANGED <<storage_vars, loop_vars, request_vars, status_vars,
                 dormancy_vars, shutdown_vars, bound_vars>>

ToUnassign == {t \in listed : ~HasTopology(t)}

\* ... and then what is listed and does not run is reported as unassigned.
UnassignMissing ==
  /\ Up /\ assigned = "killing" /\ ~Awaited("resolve")
  /\ assigned' = "unassigning" /\ listed' = {}
  /\ reports' = reports \o
       SetToSeq({Report(t, "unassigned", "resolve") : t \in ToUnassign})
  /\ UNCHANGED <<storage_vars, loop_vars, request_vars, status_vars,
                 dormancy_vars, shutdown_vars, items, child, bound_vars>>

MismatchesResolved ==
  /\ Up /\ assigned = "unassigning" /\ ~Awaited("resolve")
  /\ assigned' = "done"
  /\ UNCHANGED <<storage_vars, loop_vars, request_vars, listed, status_vars,
                 dormancy_vars, shutdown_vars, item_vars, bound_vars>>

\* checkWorkerStatus: the storage's part, and what it is answered with.
ReadWorkerStatus ==
  /\ Up /\ status_check = "ask"
  /\ \/ /\ GetWorkerStatus
        /\ status_check' = "read"
        /\ seen' = IF Me \in DOMAIN workers' THEN workers'[Me].status ELSE "none"
        /\ UNCHANGED <<loop_vars, shutdown_vars, bound_vars>>
     \/ /\ status_check' = "done" /\ UNCHANGED seen
        /\ StorageFails /\ PassFails
  /\ UNCHANGED <<request_vars, assigned_vars, dormancy_vars, item_vars>>

CheckWorkerStatus ==
  /\ Up /\ status_check = "read" /\ status_check' = "done"
  /\ \/ /\ CASE seen = "none" -> RegisterWorker(Me)
             [] seen \in {"closing", "dead", "unloaded"} ->
                  SetWorkerStatus(Me, "alive")
             [] OTHER -> UNCHANGED storage_vars
        /\ UNCHANGED <<loop_vars, shutdown_vars, bound_vars>>
     \/ /\ seen \notin {"alive", "disabled"} /\ StorageFails /\ PassFails
  /\ seen' = "none"
  /\ UNCHANGED <<request_vars, assigned_vars, dormancy_vars, item_vars>>

\* The storage handles the oldest report.
Deliver ==
  /\ Up /\ reports # << >>
  /\ reports' = Tail(reports)
  /\ LET r == Head(reports)
     IN  \/ /\ SetTopologyStatus(r.top, Me, r.status)
            /\ UNCHANGED <<loop_vars, shutdown_vars, bound_vars>>
         \/ /\ StorageFails
            /\ IF r.caller = "resolve" /\ assigned = "unassigning"
               THEN PassFails ELSE UNCHANGED <<loop_vars, shutdown_vars>>
  /\ UNCHANGED <<request_vars, assigned_vars, status_vars, dormancy_vars, items,
                 child>>

---------------------------------------------------------------------------
(* The proxies and their children, as ChildContract lets them.             *)

OnlyItems ==
  UNCHANGED <<storage_vars, loop_vars, request_vars, assigned_vars, status_vars,
              dormancy_vars, shutdown_vars, bound_vars>>

Answers(g, cmd) ==
  /\ Up /\ ~child[g].reported /\ cmd \in child[g].pending
  /\ \/ /\ cmd \in {"init", "run"}
        /\ child' = [child EXCEPT ![g].pending =
             (@ \ {cmd}) \cup IF cmd = "init" THEN {"run"} ELSE {}]
        /\ UNCHANGED <<items, reports>>
     \/ /\ cmd \in {"init", "run"} /\ "child" \in WorkerFailures
        /\ InitOrRunFails(g, cmd)
     \/ \E err \in BOOLEAN :
          /\ cmd = "shutdown" /\ (err => "child" \in WorkerFailures)
          /\ child' = [child EXCEPT ![g].pending = @ \ {cmd},
                                    ![g].stopped = TRUE, ![g].caller = "nobody"]
          /\ reports' =
               Append(reports, AfterShutdown(g, err, child[g].caller))
          /\ UNCHANGED items
  /\ OnlyItems

\* A child ends when it was shut down, when its parent is gone, or by failing.
Ending(g) == child[g].stopped \/ ~Up
Dies(g) ==
  /\ child[g].life = "alive"
  /\ Ending(g) \/ "child" \in WorkerFailures
  /\ child' = [child EXCEPT ![g].life = "gone"]
  /\ UNCHANGED <<items, reports>> /\ OnlyItems

\* The report of the end.  It may be one of an error when the child failed.
Exits(g) ==
  /\ Up /\ child[g].life = "gone" /\ ~child[g].reported
  /\ \E err \in BOOLEAN :
       /\ err => "child" \in WorkerFailures
       /\ OnExit(g, err)
  /\ OnlyItems

---------------------------------------------------------------------------
(* The environment: the leader assigns and unassigns, another worker runs  *)
(* what it is assigned, operators send messages, signals come.             *)

StartMessage(t) == Message("start_topologies", {t}, MaxAge)

\* The leader assigns the topology and tells this worker to start it (that the
\* message does not overtake is the leader's StartsAreOwn), or tells it again.
Assign(t) ==
  /\ topologies[t].status = "unassigned"
  /\ \/ /\ ProxyIsLeft /\ Len(messages[Me]) < MaxMessages
        /\ topologies' = WithTopology(t,
             [topologies[t] EXCEPT !.worker = Me, !.status = "waiting"])
        /\ NotifyTopologyHistory({t})
        /\ messages' = Queued(Me, StartMessage(t))
        /\ UNCHANGED <<workers, workers_history>>
     \/ \E w \in Worker \ {Me} : AssignTopology(t, w)

OtherReports(t) ==
  \E w \in Worker \ {Me} :
    /\ topologies[t].worker = w
    /\ \/ topologies[t].status = "waiting" /\ SetTopologyStatus(t, w, "running")
       \/ SetTopologyStatus(t, w, "unassigned")

\* The leader finds this worker dead: late pings.
Written(status) ==
  \/ SetWorkerStatus(Me, status)
  \/ workers[Me].status = "dead" /\ SetWorkerStatus(Me, "unloaded")

Environment ==
  /\ Up /\ orders < MaxOrders /\ orders' = orders + 1 /\ UNCHANGED failed
  /\ \/ /\ \/ \E t \in Topology :
                \/ "assign" \in Orders /\ Assign(t)
                \/ "other" \in Orders /\ OtherReports(t)
                \/ "take" \in Orders /\ SetTopologyStatus(t, NoWorker, "unassigned")
                \/ "stop" \in Orders /\ StopTopology(t, "stop_topology")
                \/ "kill" \in Orders /\ StopTopology(t, "kill_topology")
           \/ \E m \in Sends : SendMessageToWorker(Me, m)
           \/ "dead" \in Orders /\ Me \in DOMAIN workers /\ Written("dead")
           \/ "delete" \in Orders /\ DeleteWorker(Me)
        /\ UNCHANGED <<loop_vars, request_vars, assigned_vars, status_vars,
                       dormancy_vars, shutdown_vars, item_vars>>
     \/ /\ "dormant" \in Orders /\ is_dormant_period' = ~is_dormant_period
        /\ UNCHANGED <<storage_vars, loop_vars, request_vars, assigned_vars,
                       status_vars, current_dormancy_state, shutdown_vars,
                       item_vars>>
     \/ "signal" \in Orders /\ Interrupted

\* The three branches of a pass and the other processes, each a chain of steps.
RequestStep ==
  \/ HandleIncommingRequests \/ HandleSingleRequest
  \/ \E t \in Topology : GetTopologyInfo(t) \/ Start(t)
AssignedStep ==
  \/ CheckAssignedTopologies \/ ResolveTopologyMismatches \/ UnassignMissing
  \/ MismatchesResolved
StatusStep == ReadWorkerStatus \/ CheckWorkerStatus
ShutdownStep == PreShutdown \/ ShutDownAll \/ ReportDead
ChildCalls(g) ==
  Exits(g) \/ \E cmd \in {"init", "run", "shutdown"} : Answers(g, cmd)

WorkerNext ==
  \/ NextPass \/ RequestStep \/ AssignedStep \/ StatusStep \/ Deliver
  \/ ShutdownStep \/ LeadershipEnds
  \/ \E g \in Proxy : ChildCalls(g) \/ Dies(g)
  \/ Environment

WorkerSpec == WorkerInit /\ [][WorkerNext]_worker_vars

\* Timers fire, the storage answers, the children keep their contract and the
\* leader's loop ends when it is told to.  The steps of a chain follow one
\* another and those of a child are finitely many, so that fairness of the
\* whole is fairness of each.
WorkerFairness ==
  /\ WF_worker_vars(NextPass) /\ WF_worker_vars(RequestStep)
  /\ WF_worker_vars(AssignedStep) /\ WF_worker_vars(StatusStep)
  /\ WF_worker_vars(Deliver)
  /\ WF_worker_vars(ShutdownStep \/ (leadership = "stopping" /\ LeadershipEnds))
  /\ \A g \in Proxy : WF_worker_vars(ChildCalls(g) \/ (Ending(g) /\ Dies(g)))
FairWorkerSpec == WorkerSpec /\ WorkerFairness

---------------------------------------------------------------------------
(* Properties.                                                             *)

\* Type invariant of the process; the storage's is TypeOK.
WorkerTypeOK ==
  /\ TypeOK
  /\ proc \in {"up", "exited"} /\ loop \in {"on", "ended"}
  /\ is_running \in BOOLEAN /\ shutdown_callback \in BOOLEAN
  /\ leadership \in {"running", "stopping", "stopped"}
  /\ turn \in 1 .. CheckPeriod
  /\ requests \in {"timer", "message", "starting", "done"}
  /\ msg \in MessageRec
  /\ to_start \subseteq Topology /\ granted \subseteq Topology
  /\ assigned \in {"ask", "listed", "killing", "unassigning", "done"}
  /\ listed \subseteq Topology
  /\ status_check \in {"ask", "read", "done"}
  /\ seen \in WorkerStatus \cup {"none"}
  /\ current_dormancy_state \in BOOLEAN /\ is_dormant_period \in BOOLEAN
  /\ waiting_for_shutdown \in BOOLEAN /\ is_shutting_down \in BOOLEAN
  /\ phase \in {"none", "closing", "leadership", "slice", "topologies", "done"}
  /\ items \subseteq Proxy /\ child \in [Proxy -> Child]
  /\ reports \in Seq(Reported)
  /\ orders \in Nat /\ failed \in Nat

\* While the worker runs, a child that lives is in its list, and no topology is
\* there twice: starts, kills, late exits of earlier processes of the same
\* topology and removals by its name leave no child that nobody would stop.
ChildrenAreListed ==
  Up =>
    /\ \A g \in Proxy : child[g].life = "alive" => g \in items
    /\ \A g, h \in items : child[g].top = child[h].top => g = h

\* The records and the processes do not disagree for ever, although messages
\* may be lost, reports late and the two answers of a check old: a child whose
\* topology is not recorded as running here is stopped (or the record follows),
\* and a topology recorded as running here that does not run is given back,
\* unless the worker shuts down.
RunsHere(t) == \E g \in Proxy : child[g].top = t /\ child[g].life = "alive"
IsOwn(t) == topologies[t].worker = Me /\ topologies[t].status = "running"
Mismatch(t) ==
  \/ RunsHere(t) /\ ~IsOwn(t)
  \/ Up /\ ~waiting_for_shutdown /\ IsOwn(t) /\ ~HasTopology(t)
MismatchesAreResolved == \A t \in Topology : Mismatch(t) ~> ~Mismatch(t)

\* A shutdown that began, by a message, a signal, an exception or the end of
\* the loop, ends the process.  (TopologyCoordinator.run: "This exit was not
\* triggered from outside, so notify the parent", which then exits.)
ShutdownEnds == waiting_for_shutdown ~> ~Up
=============================================================================
