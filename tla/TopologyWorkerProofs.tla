------------------------ MODULE TopologyWorkerProofs ------------------------
(***************************************************************************)
(* What a worker keeps of its children, of its pass and of the storage,    *)
(* for any proxies and topologies, whatever the storage, the leader and    *)
(* the operators do.                                                       *)
(***************************************************************************)
EXTENDS TopologyWorker, MemoryStorageProofs, FiniteSetTheorems

\* The proxies a worker has and their children.
ChildTypes == items \subseteq Proxy /\ child \in [Proxy -> Child]

Listed == \A g \in Proxy : child[g].life = "alive" => g \in items

ListedOnce == \A g, h \in items : child[g].top = child[h].top => g = h

\* The exit that was reported is that of a child that has ended: so ensureExit
\* never takes a child that lives for one that has exited.
LivingUnreported == \A g \in Proxy : child[g].life = "alive" => ~child[g].reported

ChildInv == ChildTypes /\ Listed /\ ListedOnce /\ LivingUnreported

---------------------------------------------------------------------------
(* What the operations on the list do.                                     *)

\* The children c that an operation leaves behind differ from the present ones
\* in what they wait for and what was reported, and none comes to life.
Quieter(c) ==
  /\ c \in [Proxy -> Child]
  /\ \A g \in Proxy :
       /\ c[g].top = child[g].top
       /\ c[g].life = "alive" => child[g].life = "alive" /\ ~c[g].reported

LEMMA QuieterKeeps ==
  ASSUME ChildInv, Quieter(child'), items' = items
  PROVE  ChildInv'
BY DEF ChildInv, ChildTypes, Listed, ListedOnce, LivingUnreported, Quieter

LEMMA SettingsAreQuieter ==
  ASSUME ChildInv, NEW c \in [Proxy -> Child],
         \A g \in Proxy : /\ c[g].top = child[g].top /\ c[g].life = child[g].life
                          /\ c[g].life = "alive" => c[g].reported = child[g].reported
  PROVE  Quieter(c)
BY DEF ChildInv, LivingUnreported, Quieter

LEMMA EnsureExitIsQuieter ==
  ASSUME ChildInv, NEW c, Quieter(c), NEW G
  PROVE  /\ Quieter(EnsureExit(c, G))
         /\ \A g \in Proxy : g \in G => EnsureExit(c, G)[g].life # "alive"
<1> DEFINE e == EnsureExit(c, G)
<1>1. c \in [Proxy -> Child]  BY DEF Quieter
<1>2. ASSUME NEW g \in Proxy
      PROVE  /\ e[g] \in Child /\ e[g].top = c[g].top
             /\ e[g].life = "alive" => c[g].life = "alive" /\ e[g].reported = c[g].reported
             /\ g \in G => e[g].life # "alive"
  <2>1. c[g] \in Child /\ (c[g].life = "alive" => ~c[g].reported)
    BY <1>1 DEF Quieter
  <2>2. CASE g \in G /\ c[g].life = "alive" /\ ~c[g].reported
    <3>1. e[g] = [c[g] EXCEPT !.life = "gone"]  BY <2>2 DEF EnsureExit
    <3> QED  BY <2>1, <3>1 DEF Child
  <2>3. CASE ~(g \in G /\ c[g].life = "alive" /\ ~c[g].reported)
    <3>1. e[g] = c[g]  BY <2>3 DEF EnsureExit
    <3> QED  BY <2>1, <2>3, <3>1
  <2> QED  BY <2>2, <2>3
<1>3. e \in [Proxy -> Child]
  <2>1. e = [g \in Proxy |-> e[g]]  BY DEF EnsureExit
  <2> QED  BY <1>2, <2>1
<1> HIDE DEF e
<1>4. Quieter(e)  BY <1>2, <1>3 DEF Quieter
<1> QED  BY <1>2, <1>4 DEF e

\* removeTopology takes its children with it.
LEMMA RemoveTopologyKeeps ==
  ASSUME ChildInv, NEW c, Quieter(c), NEW t, RemoveTopology(c, t)
  PROVE  ChildInv'
<1>1. child' = EnsureExit(c, Of(t)) /\ items' = items \ Of(t)
  BY DEF RemoveTopology
<1>2. Quieter(child') /\ \A g \in Proxy : g \in Of(t) => child'[g].life # "alive"
  BY <1>1, EnsureExitIsQuieter
<1> HIDE DEF Of
<1> QED
  BY <1>1, <1>2 DEF ChildInv, ChildTypes, Listed, ListedOnce, LivingUnreported, Quieter

LEMMA ShutDownTopologiesKeeps ==
  ASSUME ChildInv, NEW G, NEW caller \in Caller, ShutDownTopologies(G, caller)
  PROVE  ChildInv'
<1>1. child \in [Proxy -> Child]  BY DEF ChildInv, ChildTypes
<1>2. ASSUME NEW g \in Proxy
      PROVE  /\ child'[g] \in Child
             /\ child'[g].top = child[g].top /\ child'[g].life = child[g].life
             /\ child'[g].reported = child[g].reported
  <2>1. child[g] \in Child  BY <1>1
  <2>2. \/ child'[g] = [child[g] EXCEPT !.pending = @ \cup {"shutdown"}, !.caller = caller]
        \/ child'[g] = child[g]
    BY DEF ShutDownTopologies
  <2> QED  BY <2>1, <2>2 DEF Child
<1>3. child' \in [Proxy -> Child]
  <2>1. child' = [g \in Proxy |-> child'[g]]  BY DEF ShutDownTopologies
  <2> QED  BY <1>2, <2>1
<1>4. Quieter(child')  BY <1>2, <1>3, SettingsAreQuieter
<1> QED  BY <1>4, QuieterKeeps DEF ShutDownTopologies

LEMMA KillTopologiesKeeps ==
  ASSUME ChildInv, NEW G, NEW caller, KillTopologies(G, caller)
  PROVE  ChildInv'
<1>1. Quieter(child)
  BY DEF ChildInv, ChildTypes, LivingUnreported, Quieter
<1>2. Quieter(child')  BY <1>1, EnsureExitIsQuieter DEF KillTopologies
<1> QED  BY <1>2, QuieterKeeps DEF KillTopologies

\* A topology is started only when the list has none of its name.
LEMMA StartTopologyKeeps ==
  ASSUME ChildInv, NEW t \in Topology, MayStart(t), ProxyIsLeft, StartTopology(t)
  PROVE  ChildInv'
<1> DEFINE n == NewProxy
<1>1. n \in Proxy  BY DEF ProxyIsLeft, NewProxy
<1>2. child \in [Proxy -> Child] /\ items \subseteq Proxy
  BY DEF ChildInv, ChildTypes
<1>3. items' = items \cup {n}  BY DEF StartTopology
<1> DEFINE started == [NewChild(t) EXCEPT !.life = "alive", !.pending = {"init"}]
<1>4. started \in Child /\ started.top = t /\ ~started.reported
  BY DEF NewChild, Child, Caller
<1>5. child' = [child EXCEPT ![n] = started]  BY DEF StartTopology
<1> HIDE DEF n, started
<1>6. child' \in [Proxy -> Child]  BY <1>1, <1>2, <1>4, <1>5
<1>7. /\ child'[n].top = t /\ ~child'[n].reported
      /\ \A g \in Proxy : g # n => child'[g] = child[g]
  BY <1>1, <1>2, <1>4, <1>5
<1>8. \A g \in items : child[g].top # t  BY DEF MayStart, HasTopology, Of
<1>9. ChildTypes'  BY <1>1, <1>2, <1>3, <1>6 DEF ChildTypes
<1>10. Listed'  BY <1>3, <1>7 DEF ChildInv, Listed
<1>11. ListedOnce'
  <2> SUFFICES ASSUME NEW g \in items', NEW h \in items', child'[g].top = child'[h].top
               PROVE  g = h
    BY DEF ListedOnce
  <2>1. CASE g = n /\ h # n  BY <1>2, <1>3, <1>7, <1>8, <2>1
  <2>2. CASE g # n /\ h = n  BY <1>2, <1>3, <1>7, <1>8, <2>2
  <2>3. CASE g # n /\ h # n  BY <1>2, <1>3, <1>7, <2>3 DEF ChildInv, ListedOnce
  <2> QED  BY <2>1, <2>2, <2>3
<1>12. LivingUnreported'  BY <1>7 DEF ChildInv, LivingUnreported
<1> QED  BY <1>9, <1>10, <1>11, <1>12 DEF ChildInv

LEMMA AnswersKeeps ==
  ASSUME ChildInv, NEW g \in Proxy, NEW cmd \in {"init", "run", "shutdown"}, Answers(g, cmd)
  PROVE  ChildInv'
<1>1. child \in [Proxy -> Child] /\ child[g] \in Child
  BY DEF ChildInv, ChildTypes
<1>2. CASE /\ child' = [child EXCEPT ![g].pending =
                          (@ \ {cmd}) \cup IF cmd = "init" THEN {"run"} ELSE {}]
           /\ UNCHANGED items
  <2> DEFINE answered == [child[g] EXCEPT !.pending =
               (@ \ {cmd}) \cup IF cmd = "init" THEN {"run"} ELSE {}]
  <2>1. /\ answered \in Child /\ answered.top = child[g].top
        /\ answered.life = child[g].life /\ answered.reported = child[g].reported
    BY <1>1 DEF Child
  <2>2. child' = [child EXCEPT ![g] = answered]  BY <1>2
  <2> HIDE DEF answered
  <2>3. Quieter(child')
    BY <1>1, <2>1, <2>2, SettingsAreQuieter
  <2> QED  BY <1>2, <2>3, QuieterKeeps
<1>3. CASE InitOrRunFails(g, cmd)
  <2> DEFINE c == [child EXCEPT ![g].pending = @ \ {cmd}]
             answered == [child[g] EXCEPT !.pending = @ \ {cmd}]
  <2>1. /\ answered \in Child /\ answered.top = child[g].top
        /\ answered.life = child[g].life /\ answered.reported = child[g].reported
    BY <1>1 DEF Child
  <2>2. c = [child EXCEPT ![g] = answered]  OBVIOUS
  <2>3. RemoveTopology(EnsureExit(c, {g}), child[g].top)  BY <1>3 DEF InitOrRunFails
  <2> HIDE DEF answered, c
  <2>4. Quieter(c)  BY <1>1, <2>1, <2>2, SettingsAreQuieter
  <2>5. Quieter(EnsureExit(c, {g}))  BY <2>4, EnsureExitIsQuieter
  <2> QED  BY <2>3, <2>5, RemoveTopologyKeeps
<1>4. CASE /\ child' = [child EXCEPT ![g].pending = @ \ {cmd},
                                     ![g].stopped = TRUE, ![g].caller = "nobody"]
           /\ UNCHANGED items
  <2> DEFINE answered == [child[g] EXCEPT !.pending = @ \ {cmd}, !.stopped = TRUE,
                                          !.caller = "nobody"]
  <2>1. /\ answered \in Child /\ answered.top = child[g].top
        /\ answered.life = child[g].life /\ answered.reported = child[g].reported
    BY <1>1 DEF Child, Caller
  <2>2. child' = [child EXCEPT ![g] = answered]  BY <1>1, <1>4
  <2> HIDE DEF answered
  <2>3. Quieter(child')
    BY <1>1, <2>1, <2>2, SettingsAreQuieter
  <2> QED  BY <1>4, <2>3, QuieterKeeps
<1> QED  BY <1>2, <1>3, <1>4 DEF Answers

LEMMA DiesKeeps ==
  ASSUME ChildInv, NEW g \in Proxy, Dies(g)
  PROVE  ChildInv'
<1>1. child \in [Proxy -> Child] /\ child[g] \in Child
  BY DEF ChildInv, ChildTypes
<1> DEFINE dead == [child[g] EXCEPT !.life = "gone"]
<1>2. dead \in Child /\ dead.top = child[g].top /\ dead.life # "alive"
  BY <1>1 DEF Child
<1>3. child' = [child EXCEPT ![g] = dead] /\ items' = items  BY DEF Dies
<1> HIDE DEF dead
<1>4. Quieter(child')
  BY <1>1, <1>2, <1>3 DEF Quieter, ChildInv, LivingUnreported
<1> QED  BY <1>3, <1>4, QuieterKeeps

\* The exit of an earlier process of a topology removes the present one, which
\* is made to exit as well.
LEMMA ExitsKeeps ==
  ASSUME ChildInv, NEW g \in Proxy, Exits(g)
  PROVE  ChildInv'
<1>1. child \in [Proxy -> Child] /\ child[g] \in Child
  BY DEF ChildInv, ChildTypes
<1> DEFINE over == [child[g] EXCEPT !.pending = {}, !.reported = TRUE, !.caller = "nobody"]
           c == [child EXCEPT ![g].pending = {}, ![g].reported = TRUE, ![g].caller = "nobody"]
<1>2. over \in Child /\ over.top = child[g].top /\ over.life # "alive"
  BY <1>1 DEF Child, Caller, Exits
<1>3. c = [child EXCEPT ![g] = over]  BY <1>1
<1>4. RemoveTopology(c, child[g].top)  BY DEF Exits, OnExit
<1> HIDE DEF over, c
<1>5. Quieter(c)
  BY <1>1, <1>2, <1>3 DEF Quieter, ChildInv, LivingUnreported
<1> QED  BY <1>4, <1>5, RemoveTopologyKeeps

---------------------------------------------------------------------------
LEMMA ChildInvAtFirst == WorkerInit => ChildInv
<1> SUFFICES ASSUME WorkerInit PROVE ChildInv
  OBVIOUS
<1>1. /\ items = {} /\ child = [g \in Proxy |-> NewChild(CHOOSE t \in Topology : TRUE)]
  BY DEF WorkerInit
<1>2. (CHOOSE t \in Topology : TRUE) \in Topology  BY WorkerIsNamed
<1>3. ASSUME NEW t \in Topology PROVE NewChild(t) \in Child /\ NewChild(t).life = "none"
  BY DEF NewChild, Child, Caller
<1> QED
  BY <1>1, <1>2, <1>3 DEF ChildInv, ChildTypes, Listed, ListedOnce, LivingUnreported

LEMMA ChildInvUnchanged ==
  ASSUME ChildInv, UNCHANGED <<items, child>>
  PROVE  ChildInv'
BY DEF ChildInv, ChildTypes, Listed, ListedOnce, LivingUnreported

LEMMA RequestStepKeeps == ChildInv /\ RequestStep => ChildInv'
<1> SUFFICES ASSUME ChildInv, RequestStep PROVE ChildInv'
  OBVIOUS
<1>1. CASE HandleIncommingRequests
  BY <1>1, ChildInvUnchanged DEF HandleIncommingRequests, item_vars
<1>2. CASE HandleSingleRequest
  <2>1. UNCHANGED item_vars \/ Handled  BY <1>2 DEF HandleSingleRequest
  <2>2. CASE UNCHANGED item_vars  BY <2>2, ChildInvUnchanged DEF item_vars
  <2>3. CASE Handled
    <3>1. \/ UNCHANGED item_vars
          \/ \E G : ShutDownTopologies(G, "nobody")
          \/ \E G : KillTopologies(G, "nobody")
      BY <2>3 DEF Handled
    <3>2. "nobody" \in Caller  BY DEF Caller
    <3> QED
      BY <2>2, <3>1, <3>2, ShutDownTopologiesKeeps, KillTopologiesKeeps
  <2> QED  BY <2>1, <2>2, <2>3
<1>3. ASSUME NEW t \in Topology, GetTopologyInfo(t) PROVE ChildInv'
  BY <1>3, ChildInvUnchanged DEF GetTopologyInfo, item_vars
<1>4. ASSUME NEW t \in Topology, Start(t) PROVE ChildInv'
  <2>1. \/ UNCHANGED <<items, child>>
        \/ MayStart(t) /\ ProxyIsLeft /\ StartTopology(t)
    BY <1>4 DEF Start, item_vars
  <2> QED  BY <2>1, ChildInvUnchanged, StartTopologyKeeps
<1> QED  BY <1>1, <1>2, <1>3, <1>4 DEF RequestStep

LEMMA AssignedStepKeeps == ChildInv /\ AssignedStep => ChildInv'
<1> SUFFICES ASSUME ChildInv, AssignedStep PROVE ChildInv'
  OBVIOUS
<1>1. CASE CheckAssignedTopologies
  BY <1>1, ChildInvUnchanged DEF CheckAssignedTopologies, item_vars
<1>2. CASE ResolveTopologyMismatches
  <2>1. UNCHANGED <<items, child>> \/ KillTopologies(ToKill, "resolve")
    BY <1>2 DEF ResolveTopologyMismatches, item_vars
  <2> QED  BY <2>1, ChildInvUnchanged, KillTopologiesKeeps
<1>3. CASE UnassignMissing  BY <1>3, ChildInvUnchanged DEF UnassignMissing
<1>4. CASE MismatchesResolved  BY <1>4, ChildInvUnchanged DEF MismatchesResolved, item_vars
<1> QED  BY <1>1, <1>2, <1>3, <1>4 DEF AssignedStep

LEMMA ShutdownStepKeeps == ChildInv /\ ShutdownStep => ChildInv'
<1> SUFFICES ASSUME ChildInv, ShutdownStep PROVE ChildInv'
  OBVIOUS
<1>1. CASE PreShutdown  BY <1>1, ChildInvUnchanged DEF PreShutdown, item_vars
<1>2. CASE ShutDownAll
  <2>1. "worker" \in Caller  BY DEF Caller
  <2> QED  BY <1>2, <2>1, ShutDownTopologiesKeeps DEF ShutDownAll
<1>3. CASE ReportDead  BY <1>3, ChildInvUnchanged DEF ReportDead, item_vars
<1> QED  BY <1>1, <1>2, <1>3 DEF ShutdownStep

LEMMA EnvironmentKeeps == ChildInv /\ Environment => ChildInv'
<1>1. Environment => UNCHANGED item_vars
  BY DEF Environment, Interrupted
<1> QED  BY <1>1, ChildInvUnchanged DEF item_vars

LEMMA ChildInvariant == WorkerSpec => []ChildInv
<1>1. WorkerInit => ChildInv  BY ChildInvAtFirst
<1>2. ChildInv /\ [WorkerNext]_worker_vars => ChildInv'
  <2> SUFFICES ASSUME ChildInv, [WorkerNext]_worker_vars PROVE ChildInv'
    OBVIOUS
  <2>1. CASE NextPass  BY <2>1, ChildInvUnchanged DEF NextPass, item_vars
  <2>2. CASE RequestStep  BY <2>2, RequestStepKeeps
  <2>3. CASE AssignedStep  BY <2>3, AssignedStepKeeps
  <2>4. CASE ReadWorkerStatus  BY <2>4, ChildInvUnchanged DEF ReadWorkerStatus, item_vars
  <2>5. CASE CheckWorkerStatus  BY <2>5, ChildInvUnchanged DEF CheckWorkerStatus, item_vars
  <2>6. CASE Deliver  BY <2>6, ChildInvUnchanged DEF Deliver
  <2>7. CASE ShutdownStep  BY <2>7, ShutdownStepKeeps
  <2>8. CASE LeadershipEnds  BY <2>8, ChildInvUnchanged DEF LeadershipEnds, item_vars
  <2>9. ASSUME NEW g \in Proxy, ChildCalls(g) \/ Dies(g) PROVE ChildInv'
    BY <2>9, ExitsKeeps, AnswersKeeps, DiesKeeps DEF ChildCalls
  <2>10. CASE Environment  BY <2>10, EnvironmentKeeps
  <2>11. CASE UNCHANGED worker_vars
    BY <2>11, ChildInvUnchanged DEF worker_vars, item_vars
  <2> QED
    BY <2>1, <2>2, <2>3, <2>4, <2>5, <2>6, <2>7, <2>8, <2>9, <2>10, <2>11
       DEF WorkerNext, StatusStep
<1> QED  BY <1>1, <1>2, PTL DEF WorkerSpec

\* Whatever is started, answered, killed and reported, and in whatever order,
\* the worker loses no child that lives and never has two of one topology.
THEOREM NoChildIsLost == WorkerSpec => []ChildrenAreListed
<1>1. ChildInv => ChildrenAreListed
  BY DEF ChildInv, Listed, ListedOnce, ChildrenAreListed
<1> QED  BY <1>1, ChildInvariant, PTL

---------------------------------------------------------------------------
(* The storage.  The process and its environment change it by its methods, *)
(* by two of them at once (a message that disables, an assignment with its *)
(* message), or not at all.                                                *)

LEMMA StorageFrame ==
  ASSUME StorageInv, UNCHANGED storage_vars
  PROVE  StorageInv'
BY WorkersFrame, TopologiesFrame, MessagesFrame DEF StorageInv, storage_vars

\* Methods that change one part of the storage.
LEMMA OneMethodStep ==
  ASSUME StorageInv,
         \/ \E status \in WorkerStatus : SetWorkerStatus(Me, status)
         \/ RegisterWorker(Me) \/ DeleteWorker(Me)
         \/ GetWorkerStatus \/ GetTopologiesForWorker
         \/ GetMessage(Me) \/ GetNoMessage(Me)
         \/ \E m \in Sends : SendMessageToWorker(Me, m)
  PROVE  StorageInv'
<1>1. Me \in Worker  BY WorkerIsNamed
<1>2. WorkerCall \/ MessageCall \/ ReadCall
  BY <1>1 DEF WorkerCall, MessageCall, ReadCall
<1> QED  BY <1>2, WorkerCallStep, MessageCallStep, ReadCallStep

LEMMA OneTopologyStep ==
  ASSUME StorageInv, NEW t \in Topology,
         \/ StopTopology(t, "stop_topology") \/ StopTopology(t, "kill_topology")
         \/ SetTopologyStatus(t, NoWorker, "unassigned")
         \/ \E w \in Worker :
              \/ AssignTopology(t, w)
              \/ \E status \in {"unassigned", "running", "error"} :
                   SetTopologyStatus(t, w, status)
  PROVE  StorageInv'
BY TopologyCallStep DEF TopologyCall

LEMMA SetDisabledStep ==
  ASSUME StorageInv, SetDisabled
  PROVE  StorageInv'
<1>1. Me \in Worker  BY WorkerIsNamed
<1> DEFINE W == {Me} \cap DOMAIN workers
<1>2. DOMAIN workers' = DOMAIN workers  BY DEF SetDisabled
<1>3. \A w \in DOMAIN workers :
        /\ workers'[w] \in WorkerRec
        /\ workers'[w].lstatus = "leader" => workers[w].lstatus = "leader"
        /\ w # Me => workers'[w] = workers[w]
  BY DEF SetDisabled, StorageInv, WorkersInv, WorkerRec, WorkerStatus, WorkerLStatus
<1>4. AtMostOneLeader'
  BY <1>2, <1>3 DEF StorageInv, WorkersInv, AtMostOneLeader
<1>5. W \in SUBSET Worker /\ W \subseteq DOMAIN workers'
  BY <1>1, <1>2
<1>6. \A w \in DOMAIN workers' \ W : workers'[w] = workers[w]
  BY <1>2, <1>3
<1>7. NotifyWorkerHistory(W)  BY DEF SetDisabled
<1> HIDE DEF W
<1>8. WorkersInv'
  BY <1>2, <1>3, <1>4, <1>5, <1>6, <1>7, WorkersChange DEF StorageInv
<1> QED
  BY <1>8, TopologiesFrame, MessagesFrame DEF SetDisabled, StorageInv

\* The leader assigns a topology to this worker and tells it so.
LEMMA AssignStep ==
  ASSUME StorageInv, NEW t \in Topology, Assign(t)
  PROVE  StorageInv'
<1>1. Me \in Worker  BY WorkerIsNamed
<1>2. CASE \E w \in Worker \ {Me} : AssignTopology(t, w)
  BY <1>2, OneTopologyStep
<1> DEFINE rec == [topologies[t] EXCEPT !.worker = Me, !.status = "waiting"]
<1>3. CASE /\ topologies' = WithTopology(t, rec)
           /\ NotifyTopologyHistory({t})
           /\ messages' = Queued(Me, StartMessage(t))
           /\ UNCHANGED <<workers, workers_history>>
  <2>1. StartMessage(t) \in MessageRec
    BY AgeZero, TimeoutsAreOrdered
    DEF StartMessage, Message, MessageRec, LeaderMessages, Age
  <2>2. MessagesInv'  BY <1>1, <1>3, <2>1, QueuedStep DEF StorageInv
  <2>3. TopologiesInv'
    <3>1. CASE t \in DOMAIN topologies
      <4>1. rec \in TopologyRec /\ rec.worker # NoWorker
        BY <1>1, <3>1, WorkersAreNumbers
        DEF StorageInv, TopologiesInv, TopologyRec, TopologyStatus
      <4> HIDE DEF rec
      <4> QED  BY <1>3, <3>1, <4>1, WithTopologyStep DEF StorageInv
    <3>2. CASE t \notin DOMAIN topologies
      <4>1. topologies' = [u \in DOMAIN topologies |-> topologies[u]]
        BY <1>3, <3>2 DEF WithTopology
      <4>2. /\ DOMAIN topologies_history' = DOMAIN topologies_history \cup {t}
            /\ \A u \in DOMAIN topologies_history :
                 u # t => topologies_history'[u] = topologies_history[u]
        BY <1>3 DEF NotifyTopologyHistory
      <4> QED
        BY <3>2, <4>1, <4>2
        DEF StorageInv, TopologiesInv, ActiveHasWorker, TopologyEntry
    <3> QED  BY <3>1, <3>2
  <2> QED  BY <1>3, <2>2, <2>3, WorkersFrame DEF StorageInv
<1> QED  BY <1>2, <1>3 DEF Assign

LEMMA EnvironmentStorage ==
  ASSUME StorageInv, Environment
  PROVE  StorageInv'
<1>1. Me \in Worker  BY WorkerIsNamed
<1>2. ASSUME NEW t \in Topology, OtherReports(t) PROVE StorageInv'
  BY <1>2, OneTopologyStep DEF OtherReports
<1>3. CASE Written("dead")
  <2>1. \E status \in WorkerStatus : SetWorkerStatus(Me, status)
    BY <1>3 DEF Written, WorkerStatus
  <2> QED  BY <2>1, OneMethodStep
<1> QED
  BY <1>2, <1>3, AssignStep, OneTopologyStep, OneMethodStep, StorageFrame
  DEF Environment, Interrupted

\* What the process has read and reports has the form the methods expect.
StatusRead == seen \in WorkerStatus \cup {"none"}
ReportsTyped == reports \in Seq(Reported)

LEMMA StorageFailsFrame == StorageFails => UNCHANGED storage_vars
BY DEF StorageFails

LEMMA RequestStepStorage ==
  ASSUME StorageInv, RequestStep
  PROVE  StorageInv'
<1>1. CASE HandleIncommingRequests
  <2>1. \/ UNCHANGED storage_vars \/ GetMessage(Me) \/ GetNoMessage(Me)
    BY <1>1, StorageFailsFrame DEF HandleIncommingRequests, TakeMessage
  <2> QED  BY <2>1, StorageFrame, OneMethodStep
<1>2. CASE HandleSingleRequest
  <2>1. \/ UNCHANGED storage_vars \/ SetDisabled \/ SetWorkerStatus(Me, "alive")
    BY <1>2 DEF HandleSingleRequest
  <2>2. "alive" \in WorkerStatus  BY DEF WorkerStatus
  <2> QED  BY <2>1, <2>2, StorageFrame, SetDisabledStep, OneMethodStep
<1>3. ASSUME NEW t \in Topology, GetTopologyInfo(t) \/ Start(t) PROVE StorageInv'
  BY <1>3, StorageFrame, StorageFailsFrame DEF GetTopologyInfo, Start
<1> QED  BY <1>1, <1>2, <1>3 DEF RequestStep

LEMMA ChecksStorage ==
  ASSUME StorageInv, AssignedStep \/ StatusStep
  PROVE  StorageInv'
<1>1. \/ UNCHANGED storage_vars \/ GetTopologiesForWorker \/ GetWorkerStatus
      \/ RegisterWorker(Me) \/ SetWorkerStatus(Me, "alive")
  BY StorageFailsFrame
  DEF AssignedStep, CheckAssignedTopologies, ResolveTopologyMismatches,
      UnassignMissing, MismatchesResolved, StatusStep, ReadWorkerStatus,
      CheckWorkerStatus
<1>2. "alive" \in WorkerStatus  BY DEF WorkerStatus
<1> QED  BY <1>1, <1>2, StorageFrame, OneMethodStep

LEMMA DeliverStorage ==
  ASSUME StorageInv, ReportsTyped, Deliver
  PROVE  StorageInv'
<1> DEFINE r == Head(reports)
<1>1. r \in Reported  BY DEF ReportsTyped, Deliver
<1>2. UNCHANGED storage_vars \/ SetTopologyStatus(r.top, Me, r.status)
  BY StorageFailsFrame DEF Deliver
<1>3. r.top \in Topology /\ r.status \in {"unassigned", "running", "error"}
  BY <1>1 DEF Reported
<1> HIDE DEF r
<1> QED  BY <1>2, <1>3, WorkerIsNamed, StorageFrame, OneTopologyStep

LEMMA RestStorage ==
  ASSUME StorageInv,
         \/ NextPass \/ ShutdownStep \/ LeadershipEnds \/ UNCHANGED worker_vars
         \/ \E g \in Proxy : ChildCalls(g) \/ Dies(g)
  PROVE  StorageInv'
<1>1. \/ UNCHANGED storage_vars
      \/ SetWorkerStatus(Me, "closing") \/ SetWorkerStatus(Me, "dead")
  BY StorageFailsFrame
  DEF NextPass, ShutdownStep, PreShutdown, ShutDownAll, ReportDead, ReportWorker,
      LeadershipEnds, worker_vars, ChildCalls, Exits, Answers, Dies, OnlyItems
<1>2. "closing" \in WorkerStatus /\ "dead" \in WorkerStatus  BY DEF WorkerStatus
<1> QED  BY <1>1, <1>2, StorageFrame, OneMethodStep, SMTT(30)

LEMMA StorageGood ==
  ASSUME StorageInv, ReportsTyped, [WorkerNext]_worker_vars
  PROVE  StorageInv'
BY RequestStepStorage, ChecksStorage, DeliverStorage, RestStorage, EnvironmentStorage
DEF WorkerNext

LEMMA StorageInitGood == WorkerInit => StorageInv
<1> SUFFICES ASSUME WorkerInit PROVE StorageInv
  OBVIOUS
<1>1. Me \in Worker  BY WorkerIsNamed
<1>2. WorkersInv
  BY <1>1, AgeZero
  DEF WorkerInit, WorkersInv, WorkerRec, WorkerStatus, WorkerLStatus, AtMostOneLeader
<1>3. PICK old \in {"unassigned", "waiting", "running"}, age \in {0, 1} :
        /\ topologies = [t \in Topology |->
             [age |-> 0, status |-> old, enabled |-> TRUE,
              worker |-> IF old = "unassigned" THEN NoWorker ELSE Me]]
        /\ messages = [w \in Addressee |->
             IF w = Me /\ old = "waiting"
             THEN << [Message("start_topologies", Topology, MaxAge)
                        EXCEPT !.age = age] >>
             ELSE << >>]
  BY DEF WorkerInit
<1>4. TopologiesInv
  <2>1. topologies_history = [t \in Topology |-> TopologyEntry(topologies[t])]
    BY DEF WorkerInit
  <2>2. \A t \in Topology : topologies[t] \in TopologyRec
    BY <1>1, <1>3, AgeZero DEF TopologyRec, TopologyStatus
  <2>3. ActiveHasWorker
    BY <1>1, <1>3, WorkersAreNumbers DEF ActiveHasWorker
  <2> QED  BY <1>3, <2>1, <2>2, <2>3 DEF TopologiesInv
<1>5. MessagesInv
  <2> DEFINE m == [Message("start_topologies", Topology, MaxAge) EXCEPT !.age = age]
  <2>1. m \in MessageRec
    BY TimeoutsAreOrdered DEF Message, MessageRec, LeaderMessages, Age
  <2>2. messages = [w \in Addressee |-> IF w = Me /\ old = "waiting" THEN <<m>> ELSE << >>]
    BY <1>3
  <2> HIDE DEF m
  <2>3. messages \in [Addressee -> Seq(MessageRec)]  BY <2>1, <2>2
  <2>4. NoWorker \in Addressee /\ NoWorker # Me  BY <1>1, WorkersAreNumbers DEF Addressee
  <2> QED  BY <2>2, <2>3, <2>4 DEF MessagesInv, MessagesHaveAddressee
<1> QED  BY <1>2, <1>4, <1>5 DEF StorageInv

---------------------------------------------------------------------------
(* The types of what the process keeps of its pass, of its shutdown and of *)
(* what it has read.                                                       *)

LoopTypes ==
  /\ proc \in {"up", "exited"} /\ loop \in {"on", "ended"}
  /\ is_running \in BOOLEAN /\ shutdown_callback \in BOOLEAN
  /\ leadership \in {"running", "stopping", "stopped"}
  /\ turn \in 1 .. CheckPeriod
ShutdownTypes ==
  /\ waiting_for_shutdown \in BOOLEAN /\ is_shutting_down \in BOOLEAN
  /\ phase \in {"none", "closing", "leadership", "slice", "topologies", "done"}
RequestTypes ==
  /\ requests \in {"timer", "message", "starting", "done"}
  /\ msg \in MessageRec
  /\ to_start \subseteq Topology /\ granted \subseteq Topology
  /\ current_dormancy_state \in BOOLEAN /\ is_dormant_period \in BOOLEAN
CheckTypes ==
  /\ assigned \in {"ask", "listed", "killing", "unassigning", "done"}
  /\ listed \subseteq Topology
  /\ status_check \in {"ask", "read", "done"}
  /\ StatusRead
BoundTypes == orders \in Nat /\ failed \in Nat
ProcessTypes == LoopTypes /\ ShutdownTypes /\ RequestTypes /\ CheckTypes /\ BoundTypes

LEMMA PassFailsTypes ==
  ASSUME LoopTypes, ShutdownTypes, PassFails
  PROVE  LoopTypes' /\ ShutdownTypes'
<1>1. CASE loop = "on"
  <2>1. LoopTypes'
    BY <1>1 DEF LoopTypes, PassFails, CoordinatorStopped
  <2>2. ShutdownTypes'
    BY <1>1 DEF ShutdownTypes, PassFails, CoordinatorStopped, BeginShutdown, shutdown_vars
  <2> QED  BY <2>1, <2>2
<1>2. CASE loop # "on"
  BY <1>2 DEF LoopTypes, ShutdownTypes, PassFails, loop_vars, shutdown_vars
<1> QED  BY <1>1, <1>2

LEMMA LoopFrame ==
  ASSUME LoopTypes, UNCHANGED loop_vars PROVE LoopTypes'
BY DEF LoopTypes, loop_vars
LEMMA ShutdownFrame ==
  ASSUME ShutdownTypes, UNCHANGED shutdown_vars PROVE ShutdownTypes'
BY DEF ShutdownTypes, shutdown_vars
LEMMA RequestFrame ==
  ASSUME RequestTypes, UNCHANGED request_vars, UNCHANGED dormancy_vars PROVE RequestTypes'
BY DEF RequestTypes, request_vars, dormancy_vars
LEMMA ChecksFrame ==
  ASSUME CheckTypes, UNCHANGED assigned_vars, UNCHANGED status_vars PROVE CheckTypes'
BY DEF CheckTypes, StatusRead, assigned_vars, status_vars
LEMMA BoundFrame ==
  ASSUME BoundTypes, UNCHANGED bound_vars \/ StorageFails PROVE BoundTypes'
BY DEF BoundTypes, bound_vars, StorageFails

LEMMA NextPassTypes ==
  ASSUME ProcessTypes, NextPass
  PROVE  ProcessTypes'
<1>1. LoopTypes /\ ShutdownTypes /\ RequestTypes /\ CheckTypes /\ BoundTypes
  BY DEF ProcessTypes
<1>2. LoopTypes'
  <2>1. NextTurn \in 1 .. CheckPeriod
    BY <1>1, WorkerBounds DEF LoopTypes, NextTurn
  <2> HIDE DEF NextTurn
  <2> QED  BY <1>1, <2>1 DEF NextPass, LoopTypes, CoordinatorStopped
<1>3. ShutdownTypes'
  BY <1>1 DEF NextPass, ShutdownTypes, CoordinatorStopped, BeginShutdown, shutdown_vars
<1>4. RequestTypes'
  BY <1>1 DEF NextPass, RequestTypes, dormancy_vars
<1>5. CheckTypes'
  BY <1>1 DEF NextPass, CheckTypes, StatusRead
<1>6. BoundTypes'
  BY <1>1, BoundFrame DEF NextPass
<1> QED  BY <1>2, <1>3, <1>4, <1>5, <1>6 DEF ProcessTypes

LEMMA HandleIncommingRequestsTypes ==
  ASSUME ProcessTypes, StorageInv, HandleIncommingRequests
  PROVE  ProcessTypes'
<1>1. LoopTypes /\ ShutdownTypes /\ RequestTypes /\ CheckTypes /\ BoundTypes
  BY DEF ProcessTypes
<1>2. LoopTypes' /\ ShutdownTypes'
  BY <1>1, LoopFrame, ShutdownFrame, PassFailsTypes DEF HandleIncommingRequests
<1>3. RequestTypes'
  <2>1. requests' \in {"done", "message"} /\ UNCHANGED <<to_start, granted>>
    BY DEF HandleIncommingRequests, TakeMessage
  <2>2. current_dormancy_state' \in BOOLEAN /\ is_dormant_period' \in BOOLEAN
    BY <1>1 DEF HandleIncommingRequests, TakeMessage, RequestTypes, dormancy_vars
  <2>3. msg' \in MessageRec
    <3>1. \/ msg' = msg \/ \E i \in DOMAIN messages[Me] : msg' = messages[Me][i]
          \/ msg' \in {Message(cmd, {}, MaxAge) : cmd \in {"set_disabled", "set_enabled"}}
      BY DEF HandleIncommingRequests, TakeMessage, Deliverable
    <3>2. messages[Me] \in Seq(MessageRec)
      BY WorkerIsNamed DEF StorageInv, MessagesInv, Addressee
    <3>3. \A cmd \in {"set_disabled", "set_enabled"} :
            Message(cmd, {}, MaxAge) \in MessageRec
      BY TimeoutsAreOrdered DEF Message, MessageRec, LeaderMessages, Age
    <3> QED  BY <1>1, <3>1, <3>2, <3>3 DEF RequestTypes
  <2> QED  BY <1>1, <2>1, <2>2, <2>3 DEF RequestTypes
<1>4. CheckTypes'
  BY <1>1, ChecksFrame DEF HandleIncommingRequests
<1>5. BoundTypes'
  BY <1>1, BoundFrame DEF HandleIncommingRequests
<1> QED  BY <1>2, <1>3, <1>4, <1>5 DEF ProcessTypes

LEMMA NoMessageIsOne == NoMessage \in MessageRec
BY AgeZero DEF NoMessage, Message, MessageRec, LeaderMessages

LEMMA HandleSingleRequestTypes ==
  ASSUME ProcessTypes, HandleSingleRequest
  PROVE  ProcessTypes'
<1>1. LoopTypes /\ ShutdownTypes /\ RequestTypes /\ CheckTypes /\ BoundTypes
  BY DEF ProcessTypes
<1>2. LoopTypes' /\ CheckTypes' /\ BoundTypes'
  BY <1>1, LoopFrame, ChecksFrame, BoundFrame DEF HandleSingleRequest
<1>3. ShutdownTypes'
  <2>1. UNCHANGED shutdown_vars \/ BeginShutdown  BY DEF HandleSingleRequest
  <2> QED  BY <1>1, <2>1 DEF ShutdownTypes, BeginShutdown, shutdown_vars
<1>4. RequestTypes'
  <2>1. msg' \in MessageRec  BY NoMessageIsOne DEF HandleSingleRequest
  <2>2. /\ requests' \in {"starting", "done"} /\ UNCHANGED <<granted, dormancy_vars>>
        /\ to_start' = to_start \/ to_start' = msg.content
    BY DEF HandleSingleRequest
  <2>3. msg.content \subseteq Topology  BY <1>1 DEF RequestTypes, MessageRec
  <2> QED  BY <1>1, <2>1, <2>2, <2>3 DEF RequestTypes, dormancy_vars
<1> QED  BY <1>2, <1>3, <1>4 DEF ProcessTypes

LEMMA StartTypes ==
  ASSUME ProcessTypes, NEW t \in Topology, GetTopologyInfo(t) \/ Start(t)
  PROVE  ProcessTypes'
<1>1. LoopTypes /\ ShutdownTypes /\ RequestTypes /\ CheckTypes /\ BoundTypes
  BY DEF ProcessTypes
<1>2. LoopTypes' /\ ShutdownTypes'
  BY <1>1, LoopFrame, ShutdownFrame, PassFailsTypes DEF GetTopologyInfo, Start
<1>3. CheckTypes' /\ BoundTypes'
  BY <1>1, ChecksFrame, BoundFrame DEF GetTopologyInfo, Start
<1>4. RequestTypes'
  BY <1>1 DEF RequestTypes, GetTopologyInfo, Start, dormancy_vars
<1> QED  BY <1>2, <1>3, <1>4 DEF ProcessTypes

LEMMA ChecksTypes ==
  ASSUME ProcessTypes, StorageInv, StorageInv', AssignedStep \/ StatusStep
  PROVE  ProcessTypes'
<1>1. LoopTypes /\ ShutdownTypes /\ RequestTypes /\ CheckTypes /\ BoundTypes
  BY DEF ProcessTypes
<1>2. LoopTypes' /\ ShutdownTypes'
  BY <1>1, LoopFrame, ShutdownFrame, PassFailsTypes
  DEF AssignedStep, CheckAssignedTopologies, ResolveTopologyMismatches,
      UnassignMissing, MismatchesResolved, StatusStep, ReadWorkerStatus,
      CheckWorkerStatus
<1>3. RequestTypes' /\ BoundTypes'
  BY <1>1, RequestFrame, BoundFrame
  DEF AssignedStep, CheckAssignedTopologies, ResolveTopologyMismatches,
      UnassignMissing, MismatchesResolved, StatusStep, ReadWorkerStatus,
      CheckWorkerStatus
<1>4. CheckTypes'
  <2>1. (DOMAIN topologies)' \subseteq Topology
    BY DEF StorageInv, TopologiesInv
  <2>2. Me \in (DOMAIN workers)' => workers'[Me].status \in WorkerStatus
    BY DEF StorageInv, WorkersInv, WorkerRec
  <2>3. CASE AssignedStep
    BY <1>1, <2>1, <2>3
    DEF AssignedStep, CheckAssignedTopologies, ResolveTopologyMismatches,
        UnassignMissing, MismatchesResolved, CheckTypes, StatusRead, status_vars
  <2>4. CASE StatusStep
    BY <1>1, <2>2, <2>4
    DEF StatusStep, ReadWorkerStatus, CheckWorkerStatus, CheckTypes, StatusRead,
        assigned_vars
  <2> QED  BY <2>3, <2>4
<1> QED  BY <1>2, <1>3, <1>4 DEF ProcessTypes

LEMMA DeliverTypes ==
  ASSUME ProcessTypes, Deliver
  PROVE  ProcessTypes'
<1>1. LoopTypes /\ ShutdownTypes /\ RequestTypes /\ CheckTypes /\ BoundTypes
  BY DEF ProcessTypes
<1>2. LoopTypes' /\ ShutdownTypes'
  BY <1>1, LoopFrame, ShutdownFrame, PassFailsTypes DEF Deliver
<1>3. RequestTypes' /\ CheckTypes' /\ BoundTypes'
  BY <1>1, RequestFrame, ChecksFrame, BoundFrame DEF Deliver
<1> QED  BY <1>2, <1>3 DEF ProcessTypes

LEMMA ShutdownStepTypes ==
  ASSUME ProcessTypes, ShutdownStep \/ LeadershipEnds
  PROVE  ProcessTypes'
<1>1. LoopTypes /\ ShutdownTypes /\ RequestTypes /\ CheckTypes /\ BoundTypes
  BY DEF ProcessTypes
<1>2. LoopTypes'
  <2>1. CASE PreShutdown  BY <1>1, <2>1 DEF PreShutdown, LoopTypes
  <2>2. CASE ShutDownAll  BY <1>1, <2>2, LoopFrame DEF ShutDownAll
  <2>3. CASE ReportDead  BY <1>1, <2>3 DEF ReportDead, CoordinatorShutdown, LoopTypes
  <2>4. CASE LeadershipEnds  BY <1>1, <2>4 DEF LeadershipEnds, LoopTypes
  <2> QED  BY <2>1, <2>2, <2>3, <2>4 DEF ShutdownStep
<1>3. ShutdownTypes'
  BY <1>1 DEF ShutdownStep, PreShutdown, ShutDownAll, ReportDead, CoordinatorShutdown,
              LeadershipEnds, ShutdownTypes
<1>4. RequestTypes' /\ CheckTypes'
  BY <1>1, RequestFrame, ChecksFrame
  DEF ShutdownStep, PreShutdown, ShutDownAll, ReportDead, LeadershipEnds
<1>5. BoundTypes'
  BY <1>1, BoundFrame
  DEF ShutdownStep, PreShutdown, ShutDownAll, ReportDead, ReportWorker, LeadershipEnds
<1> QED  BY <1>2, <1>3, <1>4, <1>5 DEF ProcessTypes

LEMMA EnvironmentTypes ==
  ASSUME ProcessTypes, Environment
  PROVE  ProcessTypes'
<1>1. LoopTypes /\ ShutdownTypes /\ RequestTypes /\ CheckTypes /\ BoundTypes
  BY DEF ProcessTypes
<1>2. LoopTypes'
  BY <1>1, LoopFrame DEF Environment, Interrupted
<1>3. ShutdownTypes'
  <2>1. UNCHANGED shutdown_vars \/ BeginShutdown  BY DEF Environment, Interrupted
  <2> QED  BY <1>1, <2>1 DEF ShutdownTypes, BeginShutdown, shutdown_vars
<1>4. CheckTypes'
  BY <1>1, ChecksFrame DEF Environment, Interrupted
<1>5. RequestTypes'
  <2>1. /\ UNCHANGED request_vars
        /\ \/ UNCHANGED dormancy_vars
           \/ is_dormant_period' = ~is_dormant_period /\ UNCHANGED current_dormancy_state
    BY DEF Environment, Interrupted
  <2> QED  BY <1>1, <2>1 DEF RequestTypes, request_vars, dormancy_vars
<1>6. BoundTypes'
  BY <1>1 DEF Environment, BoundTypes
<1> QED  BY <1>2, <1>3, <1>4, <1>5, <1>6 DEF ProcessTypes

LEMMA RestTypes ==
  ASSUME ProcessTypes,
         UNCHANGED worker_vars \/ \E g \in Proxy : ChildCalls(g) \/ Dies(g)
  PROVE  ProcessTypes'
<1>1. /\ UNCHANGED loop_vars /\ UNCHANGED request_vars /\ UNCHANGED assigned_vars
      /\ UNCHANGED status_vars /\ UNCHANGED dormancy_vars
      /\ UNCHANGED shutdown_vars /\ UNCHANGED bound_vars
  BY DEF worker_vars, ChildCalls, Exits, Answers, Dies, OnlyItems
<1> QED
  BY <1>1, LoopFrame, ShutdownFrame, RequestFrame, ChecksFrame, BoundFrame, SMTT(30)
  DEF ProcessTypes

LEMMA ProcessTypesStep ==
  ASSUME ProcessTypes, StorageInv, StorageInv', [WorkerNext]_worker_vars
  PROVE  ProcessTypes'
BY NextPassTypes, HandleIncommingRequestsTypes, HandleSingleRequestTypes, StartTypes,
   ChecksTypes, DeliverTypes, ShutdownStepTypes, EnvironmentTypes, RestTypes
DEF WorkerNext, RequestStep

LEMMA ProcessTypesInit == WorkerInit => ProcessTypes
<1> SUFFICES ASSUME WorkerInit PROVE ProcessTypes
  OBVIOUS
<1>1. LoopTypes
  <2>1. proc = "up" /\ loop = "on"  BY DEF WorkerInit
  <2>2. is_running = TRUE /\ shutdown_callback = FALSE  BY DEF WorkerInit
  <2>3. leadership = "running" /\ turn = 1  BY DEF WorkerInit
  <2>4. 1 \in 1 .. CheckPeriod  BY WorkerBounds
  <2> QED  BY <2>1, <2>2, <2>3, <2>4 DEF LoopTypes
<1>2. RequestTypes  BY NoMessageIsOne DEF WorkerInit, RequestTypes
<1>3. CheckTypes  BY DEF WorkerInit, CheckTypes, StatusRead
<1> QED  BY <1>1, <1>2, <1>3 DEF WorkerInit, ProcessTypes, ShutdownTypes, BoundTypes

---------------------------------------------------------------------------
(* The reports.  Several that are sent at once are put into some order, for *)
(* which their topologies and proxies have to be finitely many.            *)

ReportsInv == IsFiniteSet(items) /\ ReportsTyped

LEMMA SetToSeqIsSeq ==
  ASSUME NEW T, NEW S \in SUBSET T, IsFiniteSet(S)
  PROVE  SetToSeq(S) \in Seq(T)
<1> DEFINE n == Cardinality(S)
<1>1. n \in Nat /\ ExistsBijection(1..n, S)  BY FS_CardinalityType
<1>2. \E f \in [1..n -> S] : IsInjective(f)
  BY <1>1 DEF ExistsBijection, Bijection, Injection
<1>3. SetToSeq(S) \in [1..n -> S]  BY <1>2 DEF SetToSeq
<1> HIDE DEF n
<1> QED  BY <1>1, <1>3

LEMMA ReportsAppended ==
  ASSUME ReportsTyped, NEW s \in Seq(Reported), reports' = reports \o s
  PROVE  ReportsTyped'
BY DEF ReportsTyped

LEMMA ReportAppended ==
  ASSUME ReportsTyped, NEW r \in Reported, reports' = Append(reports, r)
  PROVE  ReportsTyped'
BY DEF ReportsTyped

LEMMA ReportsFrame ==
  ASSUME ReportsInv, UNCHANGED <<items, reports>>
  PROVE  ReportsInv'
BY DEF ReportsInv, ReportsTyped

LEMMA AfterShutdownTyped ==
  ASSUME ChildTypes, NEW g \in Proxy, NEW err \in BOOLEAN, NEW caller \in Caller
  PROVE  AfterShutdown(g, err, caller) \in Reported
<1>1. child[g].top \in Topology  BY DEF ChildTypes, Child
<1> QED  BY <1>1 DEF AfterShutdown, Report, Reported

LEMMA ReportTyped ==
  ASSUME NEW t \in Topology, NEW status \in {"running", "unassigned", "error"},
         NEW caller \in Caller
  PROVE  Report(t, status, caller) \in Reported
BY DEF Report, Reported

LEMMA ShutDownTopologiesReports ==
  ASSUME ChildTypes, ReportsInv, NEW G \in SUBSET items, NEW caller \in Caller,
         ShutDownTopologies(G, caller)
  PROVE  ReportsInv'
<1> DEFINE H == {h \in G : Refused(h) \/ child[h].stopped}
           S == {AfterShutdown(g, Refused(g), caller) : g \in H}
           f == [g \in H |-> AfterShutdown(g, Refused(g), caller)]
<1>1. IsFiniteSet(H)
  <2>1. H \in SUBSET items  OBVIOUS
  <2> QED  BY <2>1, FS_Subset DEF ReportsInv
<1>2. S \subseteq Reported
  <2>1. \A g \in H : child[g].top \in Topology  BY DEF ChildTypes, Child
  <2>2. \A g \in H : AfterShutdown(g, Refused(g), caller) \in Reported
    BY <2>1 DEF AfterShutdown, Report, Reported
  <2> QED  BY <2>2
<1>3. f \in Surjection(H, S)  BY DEF Surjection
<1>4. IsFiniteSet(S)  BY <1>1, <1>3, FS_Surjection
<1>5. SetToSeq(S) \in Seq(Reported)  BY <1>2, <1>4, SetToSeqIsSeq
<1>6. reports' = reports \o SetToSeq(S) /\ items' = items
  BY DEF ShutDownTopologies, AtOnce
<1> QED  BY <1>5, <1>6, ReportsAppended DEF ReportsInv

LEMMA KillTopologiesReports ==
  ASSUME ChildTypes, ReportsInv, NEW G \in SUBSET items, NEW caller \in Caller,
         KillTopologies(G, caller)
  PROVE  ReportsInv'
<1> DEFINE S == {AfterShutdown(g, FALSE, caller) : g \in G}
           f == [g \in G |-> AfterShutdown(g, FALSE, caller)]
<1>1. IsFiniteSet(G)  BY FS_Subset DEF ReportsInv
<1>2. S \subseteq Reported  BY AfterShutdownTyped DEF ChildTypes
<1>3. f \in Surjection(G, S)  BY DEF Surjection
<1>4. IsFiniteSet(S)  BY <1>1, <1>3, FS_Surjection
<1>5. SetToSeq(S) \in Seq(Reported)  BY <1>2, <1>4, SetToSeqIsSeq
<1>6. reports' = reports \o SetToSeq(S) /\ items' = items
  BY DEF KillTopologies
<1> QED  BY <1>5, <1>6, ReportsAppended DEF ReportsInv

LEMMA RequestStepReports ==
  ASSUME ChildTypes, ReportsInv, RequestStep
  PROVE  ReportsInv'
<1>0. "nobody" \in Caller  BY DEF Caller
<1>1. CASE HandleIncommingRequests
  BY <1>1, ReportsFrame DEF HandleIncommingRequests, item_vars
<1>2. CASE HandleSingleRequest
  <2>1. \/ UNCHANGED item_vars
        \/ \E G \in SUBSET items : \/ ShutDownTopologies(G, "nobody")
                                   \/ KillTopologies(G, "nobody")
    <3>1. UNION {Of(t) : t \in msg.content} \in SUBSET items  BY DEF Of
    <3> DEFINE G == UNION {Of(t) : t \in msg.content}
    <3>2. UNCHANGED item_vars \/ Handled  BY <1>2 DEF HandleSingleRequest
    <3>3. Handled => \/ UNCHANGED item_vars \/ ShutDownTopologies(items, "nobody")
                     \/ ShutDownTopologies(G, "nobody") \/ KillTopologies(G, "nobody")
      BY DEF Handled
    <3> QED  BY <3>1, <3>2, <3>3
  <2> QED
    BY <1>0, <2>1, ReportsFrame, ShutDownTopologiesReports, KillTopologiesReports
    DEF item_vars
<1>3. ASSUME NEW t \in Topology, GetTopologyInfo(t) PROVE ReportsInv'
  BY <1>3, ReportsFrame DEF GetTopologyInfo, item_vars
<1>4. ASSUME NEW t \in Topology, Start(t) PROVE ReportsInv'
  <2>1. Report(t, "running", "nobody") \in Reported /\ Report(t, "error", "nobody") \in Reported
    BY <1>0, ReportTyped
  <2>2. CASE UNCHANGED item_vars  BY <2>2, ReportsFrame DEF item_vars
  <2>3. CASE StartTopology(t)
    BY <2>1, <2>3, ReportAppended, FS_AddElement DEF StartTopology, ReportsInv
  <2>4. CASE reports' = Append(reports, Report(t, "error", "nobody")) /\ UNCHANGED items
    BY <2>1, <2>4, ReportAppended DEF ReportsInv
  <2> QED  BY <1>4, <2>2, <2>3, <2>4 DEF Start
<1> QED  BY <1>1, <1>2, <1>3, <1>4 DEF RequestStep

LEMMA AssignedStepReports ==
  ASSUME ChildTypes, ReportsInv, listed \subseteq Topology, AssignedStep
  PROVE  ReportsInv'
<1>0. "resolve" \in Caller  BY DEF Caller
<1>1. CASE CheckAssignedTopologies \/ MismatchesResolved
  BY <1>1, ReportsFrame DEF CheckAssignedTopologies, MismatchesResolved, item_vars
<1>2. CASE ResolveTopologyMismatches
  <2>1. ToKill \in SUBSET items  BY DEF ToKill
  <2>2. UNCHANGED item_vars \/ KillTopologies(ToKill, "resolve")
    BY <1>2 DEF ResolveTopologyMismatches
  <2> HIDE DEF ToKill
  <2> QED  BY <1>0, <2>1, <2>2, ReportsFrame, KillTopologiesReports DEF item_vars
<1>3. CASE UnassignMissing
  <2> DEFINE S == {Report(t, "unassigned", "resolve") : t \in ToUnassign}
             f == [t \in ToUnassign |-> Report(t, "unassigned", "resolve")]
  <2>1. ToUnassign \in SUBSET Topology  BY DEF ToUnassign
  <2>2. IsFiniteSet(ToUnassign)  BY <2>1, TopologiesAreFinite, FS_Subset
  <2>3. S \subseteq Reported  BY <1>0, <2>1, ReportTyped
  <2>4. f \in Surjection(ToUnassign, S)  BY DEF Surjection
  <2>5. IsFiniteSet(S)  BY <2>2, <2>4, FS_Surjection
  <2>6. SetToSeq(S) \in Seq(Reported)  BY <2>3, <2>5, SetToSeqIsSeq
  <2>7. reports' = reports \o SetToSeq(S) /\ items' = items
    BY <1>3 DEF UnassignMissing
  <2> QED  BY <2>6, <2>7, ReportsAppended DEF ReportsInv
<1> QED  BY <1>1, <1>2, <1>3 DEF AssignedStep

LEMMA ChildCallsReports ==
  ASSUME ChildTypes, ReportsInv, NEW g \in Proxy, ChildCalls(g) \/ Dies(g)
  PROVE  ReportsInv'
<1>0. "nobody" \in Caller  BY DEF Caller
<1>1. child[g].top \in Topology /\ child[g].caller \in Caller
  BY DEF ChildTypes, Child
<1>2. /\ Report(child[g].top, "error", "nobody") \in Reported
      /\ Report(child[g].top, "unassigned", "nobody") \in Reported
  BY <1>0, <1>1, ReportTyped
<1>3. IsFiniteSet(items \ Of(child[g].top))
  BY FS_Difference DEF ReportsInv
<1>4. ASSUME NEW err \in BOOLEAN, OnExit(g, err) PROVE ReportsInv'
  <2> DEFINE s1 == IF child[g].pending \cap {"init", "run"} # {}
                   THEN <<Report(child[g].top, "error", "nobody")>> ELSE << >>
             r == AfterShutdown(g, TRUE, child[g].caller)
             s2 == IF child[g].pending \cap {"shutdown"} # {} THEN <<r>> ELSE << >>
             s3 == <<Report(child[g].top, IF err THEN "error" ELSE "unassigned", "nobody")>>
  <2>1. s1 \in Seq(Reported)  BY <1>2
  <2>2. s2 \in Seq(Reported)
    <3>1. r \in Reported  BY <1>1, AfterShutdownTyped
    <3> HIDE DEF r
    <3> QED  BY <3>1
  <2>3. s3 \in Seq(Reported)  BY <1>2
  <2>4. reports' = ((reports \o s1) \o s2) \o s3 /\ items' = items \ Of(child[g].top)
    BY <1>4 DEF OnExit, RemoveTopology
  <2> HIDE DEF s1, s2, s3
  <2>5. reports' \in Seq(Reported)  BY <2>1, <2>2, <2>3, <2>4 DEF ReportsInv, ReportsTyped
  <2> QED  BY <1>3, <2>4, <2>5 DEF ReportsInv, ReportsTyped
<1>5. CASE Exits(g)  BY <1>4, <1>5 DEF Exits
<1>6. CASE Dies(g)  BY <1>6, ReportsFrame DEF Dies
<1>7. ASSUME NEW cmd, Answers(g, cmd) PROVE ReportsInv'
  <2>1. CASE UNCHANGED <<items, reports>>  BY <2>1, ReportsFrame
  <2>2. CASE InitOrRunFails(g, cmd)
    BY <1>2, <1>3, <2>2, ReportAppended DEF InitOrRunFails, RemoveTopology, ReportsInv
  <2>3. ASSUME NEW err \in BOOLEAN,
               reports' = Append(reports, AfterShutdown(g, err, child[g].caller)),
               UNCHANGED items
        PROVE  ReportsInv'
    BY <1>1, <2>3, AfterShutdownTyped, ReportAppended DEF ReportsInv
  <2> QED  BY <1>7, <2>1, <2>2, <2>3 DEF Answers
<1> QED  BY <1>5, <1>6, <1>7 DEF ChildCalls

LEMMA ReportsStep ==
  ASSUME ChildTypes, ReportsInv, listed \subseteq Topology, [WorkerNext]_worker_vars
  PROVE  ReportsInv'
<1>1. CASE Deliver
  <2>1. reports' \in Seq(Reported) /\ items' = items
    BY <1>1 DEF Deliver, ReportsInv, ReportsTyped
  <2> QED  BY <2>1 DEF ReportsInv, ReportsTyped
<1>2. CASE ShutDownAll
  BY <1>2, ShutDownTopologiesReports DEF ShutDownAll, Caller
<1>3. CASE \/ NextPass \/ StatusStep \/ PreShutdown \/ ReportDead \/ LeadershipEnds
           \/ Environment \/ UNCHANGED worker_vars
  <2>1. UNCHANGED <<items, reports>>
    BY <1>3
    DEF NextPass, StatusStep, ReadWorkerStatus, CheckWorkerStatus, PreShutdown,
        ReportDead, LeadershipEnds, Environment, Interrupted, worker_vars, item_vars
  <2> QED  BY <2>1, ReportsFrame
<1> QED
  BY <1>1, <1>2, <1>3, RequestStepReports, AssignedStepReports, ChildCallsReports
  DEF WorkerNext, ShutdownStep

---------------------------------------------------------------------------
WorkerInv == StorageInv /\ ProcessTypes /\ ReportsInv

LEMMA WorkerInvariant == WorkerSpec => []WorkerInv
<1>1. WorkerInit => WorkerInv
  <2>1. WorkerInit => ReportsInv
    BY FS_EmptySet DEF WorkerInit, ReportsInv, ReportsTyped
  <2> QED  BY <2>1, StorageInitGood, ProcessTypesInit DEF WorkerInv
<1>2. ChildInv /\ WorkerInv /\ [WorkerNext]_worker_vars => WorkerInv'
  <2> SUFFICES ASSUME ChildInv, WorkerInv, [WorkerNext]_worker_vars PROVE WorkerInv'
    OBVIOUS
  <2>1. StorageInv /\ ProcessTypes /\ ReportsInv /\ ChildTypes
    BY DEF WorkerInv, ChildInv
  <2>2. ReportsTyped /\ listed \subseteq Topology
    BY <2>1 DEF ReportsInv, ProcessTypes, CheckTypes
  <2>3. StorageInv'  BY <2>1, <2>2, StorageGood
  <2>4. ProcessTypes'  BY <2>1, <2>3, ProcessTypesStep
  <2>5. ReportsInv'  BY <2>1, <2>2, ReportsStep
  <2> QED  BY <2>3, <2>4, <2>5 DEF WorkerInv
<1> QED  BY <1>1, <1>2, ChildInvariant, PTL DEF WorkerSpec

\* The coordinator, its list of topologies and the storage keep their types,
\* whatever order requests, answers, reports, exits and shutdowns come in.
THEOREM WorkerTypesAreKept == WorkerSpec => []WorkerTypeOK
<1>1. WorkerInv /\ ChildInv => WorkerTypeOK
  <2> SUFFICES ASSUME WorkerInv, ChildInv PROVE WorkerTypeOK
    OBVIOUS
  <2>1. TypeOK  BY StorageInvImplies DEF WorkerInv
  <2> QED
    BY <2>1
    DEF WorkerInv, ProcessTypes, LoopTypes, ShutdownTypes, RequestTypes, CheckTypes,
        StatusRead, BoundTypes, ReportsInv, ReportsTyped, ChildInv, ChildTypes,
        WorkerTypeOK
<1> QED  BY <1>1, WorkerInvariant, ChildInvariant, PTL

\* What the worker, its leader and the operators do together keeps the records
\* good: stops go to workers, and what waits or runs has one.
THEOREM WorkerKeepsRecords ==
  WorkerSpec => [](MessagesHaveAddressee /\ ActiveHasWorker /\ HistoryIsCurrent)
<1>1. WorkerInv => MessagesHaveAddressee /\ ActiveHasWorker /\ HistoryIsCurrent
  BY StorageInvImplies DEF WorkerInv
<1> QED  BY <1>1, WorkerInvariant, PTL
=============================================================================
