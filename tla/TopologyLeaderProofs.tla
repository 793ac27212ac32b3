------------------------- MODULE TopologyLeaderProofs -------------------------
(***************************************************************************)
(* What holds of the loops of any number of workers, whatever their        *)
(* crashes, failed calls and stale reads do.  The loops make their calls   *)
(* with good arguments, so that the lemmas of MemoryStorageProofs keep the *)
(* records good; what they remember keeps its form; a recorded leader      *)
(* serves; while nothing goes wrong, messages fit the assignments; and     *)
(* when nothing but a crash does, nothing is stranded on unloaded workers. *)
(***************************************************************************)
EXTENDS TopologyLeader, MemoryStorageProofs

RecordsInv == WorkersInv /\ TopologiesInv

\* What a call must be for the records to stay good.  To whom messages are
\* sent does not matter.
GoodCall(c) ==
  /\ c.op \in Op
  /\ c.op \notin {"unassign", "start", "stop"} => c.worker \in Worker
  /\ c.op \in {"assign", "unassign"} => c.topologies \subseteq Topology

ClearingRec == [step : {"idle", "worker", "status", "message"},
                worker : Worker \cup {NoWorker}, assign : BOOLEAN]

LoopsInv ==
  /\ calls = [w \in Worker |-> calls[w]]
  /\ \A w \in Worker : \A c \in calls[w] : GoodCall(c)
  /\ seen = [w \in Worker |-> seen[w]]
  /\ \A w \in Worker : seen[w].alive \subseteq Worker
  /\ clearing \in [Topology -> ClearingRec]
  /\ \A t \in Topology :
       clearing[t].step = "status" /\ clearing[t].assign
         => clearing[t].worker \in Worker

LeaderInv == RecordsInv /\ LoopsInv

\* Steps that touch neither records nor what the loops remember.
LEMMA RecordsFrame ==
  ASSUME RecordsInv, UNCHANGED storage_vars
  PROVE  RecordsInv'
BY WorkersFrame, TopologiesFrame DEF RecordsInv, storage_vars

LEMMA LoopsFrame ==
  ASSUME LoopsInv, UNCHANGED <<calls, seen, clearing>>
  PROVE  LoopsInv'
BY DEF LoopsInv

\* The next calls of a worker, and what it has read, may be changed for good
\* ones.
LEMMA GoodLoops ==
  ASSUME LoopsInv, NEW w \in Worker, NEW C, NEW s,
         calls' = [calls EXCEPT ![w] = C], \A c \in C : GoodCall(c),
         seen' = [seen EXCEPT ![w] = s], s.alive \subseteq Worker,
         UNCHANGED clearing
  PROVE  LoopsInv'
BY DEF LoopsInv

LEMMA GoodCalls ==
  ASSUME LoopsInv, NEW w \in Worker, NEW C,
         calls' = [calls EXCEPT ![w] = C], \A c \in C : GoodCall(c),
         UNCHANGED <<seen, clearing>>
  PROVE  LoopsInv'
BY DEF LoopsInv

LEMMA GoodSeen ==
  ASSUME LoopsInv, NEW w \in Worker, NEW s,
         seen' = [seen EXCEPT ![w] = s], s.alive \subseteq Worker,
         UNCHANGED <<calls, clearing>>
  PROVE  LoopsInv'
BY DEF LoopsInv

LEMMA GoodClearing ==
  ASSUME LoopsInv, NEW t \in Topology, NEW r \in ClearingRec,
         clearing' = [clearing EXCEPT ![t] = r],
         r.step = "status" /\ r.assign => r.worker \in Worker,
         UNCHANGED <<calls, seen>>
  PROVE  LoopsInv'
BY DEF LoopsInv

LEMMA UnseenIsGood == Unseen.alive \subseteq Worker
BY DEF Unseen

---------------------------------------------------------------------------
(* Calls of the storage.                                                   *)

LEMMA ReadsKeepRecords ==
  ASSUME RecordsInv,
         GetWorkerStatus \/ GetTopologyStatus \/ GetTopologiesForWorker
  PROVE  RecordsInv'
BY WorkersFrame, TopologiesFrame, DisableDefunctWorkersStep,
   UnassignWaitingTopologiesStep
DEF RecordsInv, GetWorkerStatus, GetTopologyStatus, GetTopologiesForWorker

LEMMA WorkerCallsKeepRecords ==
  ASSUME RecordsInv, NEW n \in Worker,
         \/ RegisterWorker(n) \/ PingWorker(n) \/ DeleteWorker(n)
         \/ AnnounceLeaderCandidacy(n) \/ CheckLeaderCandidacy(n)
         \/ CheckLeaderCandidacyFails(n)
         \/ \E status \in WorkerStatus : SetWorkerStatus(n, status)
         \/ SetWorkerLStatus(n, "normal")
  PROVE  RecordsInv'
<1>1. WorkersInv'
  BY RegisterWorkerStep, PingedStep, DeleteWorkerStep, AnnounceStep, CheckStep,
     CheckFailsStep, SetWorkerStatusStep, SetWorkerLStatusStep
  DEF RecordsInv, PingWorker
<1>2. UNCHANGED <<topologies, topologies_history>>
  BY DEF RegisterWorker, PingWorker, DeleteWorker, AnnounceLeaderCandidacy,
     CheckLeaderCandidacy, CheckLeaderCandidacyFails, SetWorkerStatus,
     SetWorkerLStatus
<1>. QED  BY <1>1, <1>2, TopologiesFrame DEF RecordsInv

LEMMA TopologyCallsKeepRecords ==
  ASSUME RecordsInv, NEW t \in Topology,
         \/ \E w \in Worker : AssignTopology(t, w)
         \/ SetTopologyStatus(t, NoWorker, "unassigned")
         \/ \E w \in Worker, status \in {"running", "unassigned", "error"} :
              SetTopologyStatus(t, w, status)
         \/ RegisterTopology(t)
  PROVE  RecordsInv'
<1>1. TopologiesInv'
  BY AssignTopologyStep, SetTopologyStatusStep, RegisterTopologyStep,
     WorkersAreNumbers
  DEF RecordsInv, TopologyStatus
<1>2. UNCHANGED <<workers, workers_history>>
  BY DEF AssignTopology, SetTopologyStatus, RegisterTopology
<1>. QED  BY <1>1, <1>2, WorkersFrame DEF RecordsInv

LEMMA MessagesKeepRecords ==
  ASSUME RecordsInv,
         UNCHANGED <<workers, workers_history, topologies, topologies_history>>
  PROVE  RecordsInv'
BY WorkersFrame, TopologiesFrame DEF RecordsInv

\* A good call keeps the records good.
LEMMA PerformKeepsRecords ==
  ASSUME RecordsInv, NEW c, GoodCall(c), Perform(c)
  PROVE  RecordsInv'
<1>1. CASE c.op \in {"dead", "normal", "unloaded"}
  <2>1. c.worker \in Worker
    BY <1>1 DEF GoodCall
  <2>2. \/ \E status \in WorkerStatus : SetWorkerStatus(c.worker, status)
        \/ SetWorkerLStatus(c.worker, "normal")
    BY <1>1 DEF Perform, WorkerStatus
  <2>. QED  BY <2>1, <2>2, WorkerCallsKeepRecords
<1>2. CASE c.op = "list"
  BY <1>2, ReadsKeepRecords DEF Perform
<1>3. CASE c.op = "unassign"
  <2>1. PICK t \in c.topologies : SetTopologyStatus(t, NoWorker, "unassigned")
    BY <1>3 DEF Perform
  <2>. QED  BY <1>3, <2>1, TopologyCallsKeepRecords DEF GoodCall
<1>4. CASE c.op = "assign"
  <2>1. PICK t \in c.topologies : AssignTopology(t, c.worker)
    BY <1>4 DEF Perform
  <2>. QED  BY <1>4, <2>1, TopologyCallsKeepRecords DEF GoodCall
<1>5. CASE c.op \in {"start", "stop"}
  <2>1. UNCHANGED <<workers, workers_history, topologies, topologies_history>>
    BY <1>5 DEF Perform, SendMessageToWorker
  <2>. QED  BY <2>1, MessagesKeepRecords
<1>. QED  BY <1>1, <1>2, <1>3, <1>4, <1>5 DEF GoodCall, Op

---------------------------------------------------------------------------
(* The steps of the loops.                                                 *)

LEMMA LeaderInitInv == LeaderInit => LeaderInv
<1>. SUFFICES ASSUME LeaderInit
              PROVE  LeaderInv
  OBVIOUS
<1>1. RecordsInv
  BY InitInv DEF LeaderInit, StorageInv, RecordsInv
<1>2. LoopsInv
  BY DEF LeaderInit, LoopsInv, Unseen, NotClearing, ClearingRec
<1>. QED  BY <1>1, <1>2 DEF LeaderInv

\* The calls that handleDeadWorker adds are good.
LEMMA HandleDeadWorkerIsGood ==
  ASSUME NEW v \in Worker, NEW T \in SUBSET Topology, NEW ts
  PROVE  \A c \in HandleDeadWorker(v, T, ts) : GoodCall(c)
BY DEF HandleDeadWorker, ACall, GoodCall, Op

LEMMA MakeCallStep ==
  ASSUME LeaderInv, NEW w \in Worker, MakeCall(w)
  PROVE  LeaderInv'
<1>1. PICK c \in calls[w] :
        /\ Perform(c)
        /\ calls' = [calls EXCEPT ![w] = (@ \ {c}) \cup
             IF c.op = "list"
             THEN HandleDeadWorker(c.worker, TopologiesOf(c.worker)', topologies')
             ELSE {}]
  BY DEF MakeCall
<1>2. GoodCall(c)
  BY DEF LeaderInv, LoopsInv
<1>3. RecordsInv'
  BY <1>1, <1>2, PerformKeepsRecords DEF LeaderInv
<1>4. LoopsInv'
  <2>. DEFINE new == IF c.op = "list"
                     THEN HandleDeadWorker(c.worker, TopologiesOf(c.worker)',
                                           topologies')
                     ELSE {}
              C == (calls[w] \ {c}) \cup new
  <2>1. \A d \in new : GoodCall(d)
    <3>1. CASE c.op = "list"
      <4>1. c.worker \in Worker
        BY <1>2, <3>1 DEF GoodCall
      <4>2. TopologiesOf(c.worker)' \in SUBSET Topology
        BY <1>3 DEF TopologiesOf, RecordsInv, TopologiesInv
      <4>. QED  BY <3>1, <4>1, <4>2, HandleDeadWorkerIsGood
    <3>2. CASE c.op # "list"
      BY <3>2
    <3>. QED  BY <3>1, <3>2
  <2>2. \A d \in C : GoodCall(d)
    BY <2>1 DEF LeaderInv, LoopsInv
  <2>3. calls' = [calls EXCEPT ![w] = C]
    BY <1>1
  <2>4. UNCHANGED <<seen, clearing>>
    BY DEF MakeCall
  <2>. HIDE DEF C
  <2>. QED  BY <2>2, <2>3, <2>4, GoodCalls DEF LeaderInv
<1>. QED  BY <1>3, <1>4 DEF LeaderInv

LEMMA CallFailsStep ==
  ASSUME LeaderInv, NEW w \in Worker, CallFails(w)
  PROVE  LeaderInv'
<1>1. PICK c \in calls[w] :
        /\ Perform(c) \/ UNCHANGED storage_vars
        /\ \/ /\ c.op = "list"
              /\ calls' = [calls EXCEPT ![w] = (@ \ {c}) \cup
                             HandleDeadWorker(c.worker, {}, topologies)]
           \/ calls' = [calls EXCEPT ![w] = @ \ ({c} \cup Dependent(w, c))]
  BY DEF CallFails
<1>2. GoodCall(c) /\ UNCHANGED <<seen, clearing>>
  BY DEF LeaderInv, LoopsInv, CallFails
<1>3. RecordsInv'
  BY <1>1, <1>2, PerformKeepsRecords, RecordsFrame DEF LeaderInv
<1>4. LoopsInv'
  <2>1. CASE /\ c.op = "list"
             /\ calls' = [calls EXCEPT ![w] = (@ \ {c}) \cup
                            HandleDeadWorker(c.worker, {}, topologies)]
    <3>. DEFINE C == (calls[w] \ {c}) \cup
                       HandleDeadWorker(c.worker, {}, topologies)
    <3>1. \A d \in HandleDeadWorker(c.worker, {}, topologies) : GoodCall(d)
      BY <1>2, <2>1, HandleDeadWorkerIsGood DEF GoodCall
    <3>2. \A d \in C : GoodCall(d)
      BY <3>1 DEF LeaderInv, LoopsInv
    <3>3. calls' = [calls EXCEPT ![w] = C]
      BY <2>1
    <3>. HIDE DEF C
    <3>. QED  BY <1>2, <3>2, <3>3, GoodCalls DEF LeaderInv
  <2>2. CASE calls' = [calls EXCEPT ![w] = @ \ ({c} \cup Dependent(w, c))]
    <3>. DEFINE C == calls[w] \ ({c} \cup Dependent(w, c))
    <3>1. \A d \in C : GoodCall(d)
      BY DEF LeaderInv, LoopsInv
    <3>2. calls' = [calls EXCEPT ![w] = C]
      BY <2>2
    <3>. HIDE DEF C
    <3>. QED  BY <1>2, <3>1, <3>2, GoodCalls DEF LeaderInv
  <2>. QED  BY <1>1, <2>1, <2>2
<1>. QED  BY <1>3, <1>4 DEF LeaderInv

LEMMA RefreshStatusesStep ==
  ASSUME LeaderInv, NEW w \in Worker, RefreshStatuses(w)
  PROVE  LeaderInv'
<1>1. RecordsInv'
  BY ReadsKeepRecords DEF RefreshStatuses, LeaderInv
<1>2. \A c \in DefunctCalls' : GoodCall(c)
  BY <1>1 DEF DefunctCalls, ACall, GoodCall, Op, RecordsInv, WorkersInv
<1>. DEFINE s == [Unseen EXCEPT !.announce = ~is_leader[w] /\ (Vacant /\ Alive(w))',
                                !.gone = Gone']
<1>3. s.alive \subseteq Worker
  BY DEF Unseen
<1>4. LoopsInv'
  <2>1. /\ seen' = [seen EXCEPT ![w] = s] /\ UNCHANGED clearing
        /\ calls' = [calls EXCEPT ![w] = DefunctCalls']
    BY DEF RefreshStatuses
  <2>. HIDE DEF s
  <2>. QED  BY <1>2, <1>3, <2>1, GoodLoops DEF LeaderInv
<1>. QED  BY <1>1, <1>4 DEF LeaderInv

LEMMA UnassignWaitingStep ==
  ASSUME LeaderInv, NEW w \in Worker, UnassignWaiting(w)
  PROVE  LeaderInv'
<1>1. RecordsInv'
  BY ReadsKeepRecords DEF UnassignWaiting, LeaderInv
<1>. DEFINE T == {u \in DOMAIN topologies' : Stranded(topologies'[u], seen[w].gone)}
            C == {ACall("unassign", NoWorker, {t}) : t \in T}
<1>2. ASSUME NEW t \in T
      PROVE  GoodCall(ACall("unassign", NoWorker, {t}))
  BY <1>1 DEF ACall, GoodCall, Op, RecordsInv, TopologiesInv
<1>3. \A c \in C : GoodCall(c)
  <2>. HIDE DEF T
  <2>. QED  BY <1>2
<1>4. LoopsInv'
  <2>1. calls' = [calls EXCEPT ![w] = C] /\ UNCHANGED <<seen, clearing>>
    BY DEF UnassignWaiting
  <2>. HIDE DEF C
  <2>. QED  BY <1>3, <2>1, GoodCalls DEF LeaderInv
<1>. QED  BY <1>1, <1>4 DEF LeaderInv

\* The election, and the end of a pass.
LEMMA ElectionStep ==
  ASSUME LeaderInv, NEW w \in Worker,
         \/ AnnounceCandidacy(w) \/ CheckCandidacy(w)
         \/ CheckCandidacyFails(w) \/ EndPass(w) \/ RequestFails(w)
  PROVE  LeaderInv'
<1>1. \/ UNCHANGED storage_vars
      \/ AnnounceLeaderCandidacy(w) \/ CheckLeaderCandidacy(w)
      \/ CheckLeaderCandidacyFails(w)
  BY DEF AnnounceCandidacy, CheckCandidacy, CheckCandidacyFails, EndPass,
     RequestFails
<1>2. RecordsInv'
  BY <1>1, RecordsFrame, WorkerCallsKeepRecords DEF LeaderInv
<1>3. /\ UNCHANGED <<calls, clearing>>
      /\ seen' = [seen EXCEPT ![w] = Unseen] \/ UNCHANGED seen
  BY DEF AnnounceCandidacy, CheckCandidacy, CheckCandidacyFails, EndPass,
     RequestFails
<1>4. LoopsInv'
  BY <1>3, UnseenIsGood, GoodSeen, LoopsFrame DEF LeaderInv
<1>. QED  BY <1>2, <1>4 DEF LeaderInv

LEMMA ConfirmLeadershipStep ==
  ASSUME LeaderInv, NEW w \in Worker, ConfirmLeadership(w)
  PROVE  LeaderInv'
<1>1. RecordsInv'
  BY ReadsKeepRecords DEF ConfirmLeadership, LeaderInv
<1>2. PICK C : /\ calls' = [calls EXCEPT ![w] = C]
               /\ \/ C = {ACall("list", v, {}) : v \in DeadWorkers'}
                  \/ C = Release(w)
                  \/ C = {}
  <2>. DEFINE serves == IsRecorded(w)' /\ Alive(w)'
              C == CASE serves -> {ACall("list", v, {}) : v \in DeadWorkers'}
                     [] IsRecorded(w)' /\ ~serves -> Release(w)
                     [] OTHER -> {}
  <2>1. calls' = [calls EXCEPT ![w] = C]
    BY DEF ConfirmLeadership
  <2>2. \/ C = {ACall("list", v, {}) : v \in DeadWorkers'}
        \/ C = Release(w)
        \/ C = {}
    <3>1. CASE serves  BY <3>1
    <3>2. CASE ~serves /\ IsRecorded(w)'  BY <3>2
    <3>3. CASE ~serves /\ ~IsRecorded(w)'  BY <3>3
    <3>. QED  BY <3>1, <3>2, <3>3
  <2>. QED  BY <2>1, <2>2
<1>3. \A c \in C : GoodCall(c)
  BY <1>1, <1>2
  DEF DeadWorkers, Release, ACall, GoodCall, Op, RecordsInv, WorkersInv
<1>. DEFINE A == IF IsRecorded(w)' /\ Alive(w)' THEN AliveWorkers' ELSE {}
            s == [Unseen EXCEPT !.alive = A]
<1>4. s.alive \subseteq Worker
  <2>1. A \subseteq Worker
    BY <1>1 DEF AliveWorkers, RecordsInv, WorkersInv
  <2>2. s.alive = A
    BY DEF Unseen
  <2>. QED  BY <2>1, <2>2
<1>5. LoopsInv'
  <2>1. seen' = [seen EXCEPT ![w] = s] /\ UNCHANGED clearing
    BY DEF ConfirmLeadership
  <2>. HIDE DEF s
  <2>. QED  BY <1>2, <1>3, <1>4, <2>1, GoodLoops DEF LeaderInv
<1>. QED  BY <1>1, <1>5 DEF LeaderInv

LEMMA AssignUnassignedStep ==
  ASSUME LeaderInv, NEW w \in Worker, AssignUnassigned(w)
  PROVE  LeaderInv'
<1>1. RecordsInv'
  BY ReadsKeepRecords DEF AssignUnassigned, LeaderInv
<1>. DEFINE T == {t \in DOMAIN topologies' : ToAssign(t)'}
<1>2. PICK target \in [T -> seen[w].alive] :
        /\ calls' = [calls EXCEPT ![w] =
             {ACall("assign", target[t], {t}) : t \in T} \cup
             {ACall("start", v, {t \in T : target[t] = v}) :
                v \in {target[t] : t \in T}}]
        /\ seen' = [seen EXCEPT ![w] = [Unseen EXCEPT !.placed =
             [t \in {u \in DOMAIN topologies' : topologies'[u].enabled} |->
                IF t \in T THEN target[t] ELSE topologies'[t].worker]]]
  BY DEF AssignUnassigned
<1>. DEFINE C == {ACall("assign", target[t], {t}) : t \in T} \cup
                 {ACall("start", v, {t \in T : target[t] = v}) :
                    v \in {target[t] : t \in T}}
<1>3. T \subseteq Topology /\ \A t \in T : target[t] \in Worker
  BY <1>1, <1>2 DEF RecordsInv, TopologiesInv, LeaderInv, LoopsInv
<1>4. \A c \in C : GoodCall(c)
  <2>1. ASSUME NEW t \in T
        PROVE  GoodCall(ACall("assign", target[t], {t}))
    BY <1>3 DEF ACall, GoodCall, Op
  <2>2. ASSUME NEW v, NEW U
        PROVE  GoodCall(ACall("start", v, U))
    BY DEF ACall, GoodCall, Op
  <2>. HIDE DEF T
  <2>. QED  BY <2>1, <2>2
<1>. DEFINE enabled == {t \in DOMAIN topologies' : topologies'[t].enabled}
            s == [Unseen EXCEPT !.placed =
                    [t \in enabled |-> IF t \in T THEN target[t]
                                       ELSE topologies'[t].worker]]
<1>5. s.alive \subseteq Worker
  BY DEF Unseen
<1>6. LoopsInv'
  <2>1. /\ calls' = [calls EXCEPT ![w] = C] /\ seen' = [seen EXCEPT ![w] = s]
        /\ UNCHANGED clearing
    BY <1>2 DEF AssignUnassigned
  <2>. HIDE DEF C, s
  <2>. QED  BY <1>4, <1>5, <2>1, GoodLoops DEF LeaderInv
<1>. QED  BY <1>1, <1>6 DEF LeaderInv

LEMMA RebalanceStep ==
  ASSUME LeaderInv, NEW w \in Worker, Rebalance(w)
  PROVE  LeaderInv'
<1>1. RecordsInv'
  BY RecordsFrame DEF Rebalance, LeaderInv
<1>2. PICK T \in SUBSET DOMAIN seen[w].placed :
        calls' = [calls EXCEPT ![w] =
          {ACall("stop", v, {t \in T : seen[w].placed[t] = v}) :
             v \in {seen[w].placed[t] : t \in T}}]
  BY DEF Rebalance
<1>. DEFINE C == {ACall("stop", v, {t \in T : seen[w].placed[t] = v}) :
                    v \in {seen[w].placed[t] : t \in T}}
<1>3. \A c \in C : GoodCall(c)
  BY DEF ACall, GoodCall, Op
<1>4. LoopsInv'
  <2>1. /\ calls' = [calls EXCEPT ![w] = C]
        /\ seen' = [seen EXCEPT ![w] = Unseen] /\ UNCHANGED clearing
    BY <1>2 DEF Rebalance
  <2>. HIDE DEF C
  <2>. QED  BY <1>3, <2>1, UnseenIsGood, GoodLoops DEF LeaderInv
<1>. QED  BY <1>1, <1>4 DEF LeaderInv

---------------------------------------------------------------------------
(* Operators, the rest of the worker, and time.                            *)

\* clearTopologyError assigns a topology only to a worker that it found.
LEMMA ClearStepKeepsInv ==
  ASSUME LeaderInv, NEW t \in Topology, ClearStep(t)
  PROVE  LeaderInv'
<1>. USE DEF LeaderInv
<1>1. UNCHANGED <<calls, seen>>
  BY DEF ClearStep, ClearReadsTopology, ClearReadsWorkers, ClearSetsStatus,
     ClearSendsMessage, loop_vars
<1>2. CASE ClearReadsTopology(t)
  <2>1. RecordsInv'
    BY <1>2, RecordsFrame DEF ClearReadsTopology
  <2>2. LoopsInv'
    <3>. DEFINE r == [step |-> "worker", worker |-> topologies[t].worker,
                      assign |-> FALSE]
    <3>1. r \in ClearingRec /\ r.step # "status"
      BY <1>2 DEF ClearReadsTopology, ClearingRec, RecordsInv, TopologiesInv,
         TopologyRec
    <3>2. clearing' = [clearing EXCEPT ![t] = r]
      BY <1>2 DEF ClearReadsTopology
    <3>. HIDE DEF r
    <3>. QED  BY <1>1, <3>1, <3>2, GoodClearing
  <2>. QED  BY <2>1, <2>2
<1>3. CASE ClearReadsWorkers(t)
  <2>1. RecordsInv'
    BY <1>3, ReadsKeepRecords DEF ClearReadsWorkers
  <2>2. AliveWorkers' \subseteq Worker
    BY <2>1 DEF AliveWorkers, RecordsInv, WorkersInv
  <2>3. LoopsInv'
    <3>. DEFINE alive == clearing[t].worker \in AliveWorkers'
                r == [clearing[t] EXCEPT !.step = "status", !.assign = alive]
    <3>1. r \in ClearingRec /\ (r.assign => r.worker \in Worker)
      <4>1. clearing[t] \in ClearingRec
        BY DEF LoopsInv
      <4>2. alive \in BOOLEAN /\ (alive => clearing[t].worker \in Worker)
        BY <2>2
      <4>. HIDE DEF alive
      <4>. QED  BY <4>1, <4>2 DEF ClearingRec
    <3>2. clearing' = [clearing EXCEPT ![t] = r]
      BY <1>3 DEF ClearReadsWorkers, LoopsInv
    <3>. HIDE DEF r
    <3>. QED  BY <1>1, <3>1, <3>2, GoodClearing
  <2>. QED  BY <2>1, <2>3
<1>4. CASE ClearSetsStatus(t)
  <2>1. RecordsInv'
    BY <1>4, TopologyCallsKeepRecords DEF ClearSetsStatus, LoopsInv
  <2>2. LoopsInv'
    <3>. DEFINE r == IF clearing[t].assign
                     THEN [clearing[t] EXCEPT !.step = "message"]
                     ELSE NotClearing
    <3>1. r \in ClearingRec /\ r.step # "status"
      <4>1. clearing[t] \in ClearingRec
        BY DEF LoopsInv
      <4>. QED  BY <4>1 DEF ClearingRec, NotClearing
    <3>2. clearing' = [clearing EXCEPT ![t] = r]
      BY <1>4 DEF ClearSetsStatus, LoopsInv
    <3>. HIDE DEF r
    <3>. QED  BY <1>1, <3>1, <3>2, GoodClearing
  <2>. QED  BY <2>1, <2>2
<1>5. CASE ClearSendsMessage(t)
  <2>1. RecordsInv'
    BY <1>5, MessagesKeepRecords DEF ClearSendsMessage, SendMessageToWorker
  <2>2. LoopsInv'
    <3>1. NotClearing \in ClearingRec /\ NotClearing.step # "status"
      BY DEF NotClearing, ClearingRec
    <3>2. clearing' = [clearing EXCEPT ![t] = NotClearing]
      BY <1>5 DEF ClearSendsMessage
    <3>. QED  BY <1>1, <3>1, <3>2, GoodClearing
  <2>. QED  BY <2>1, <2>2
<1>. QED  BY <1>2, <1>3, <1>4, <1>5 DEF ClearStep

\* A process that ends forgets everything.
LEMMA ProcessEndsIsGood ==
  ASSUME LoopsInv, NEW w \in Worker, ProcessEnds(w)
  PROVE  LoopsInv'
<1>. DEFINE C == {}
<1>1. \A c \in C : GoodCall(c)
  OBVIOUS
<1>2. /\ calls' = [calls EXCEPT ![w] = C]
      /\ seen' = [seen EXCEPT ![w] = Unseen] /\ UNCHANGED clearing
  BY DEF ProcessEnds
<1>. HIDE DEF C
<1>. QED  BY <1>1, <1>2, UnseenIsGood, GoodLoops

LEMMA WorkerStepKeepsInv ==
  ASSUME LeaderInv, NEW w \in Worker, WorkerStep(w) \/ Disruption(w)
  PROVE  LeaderInv'
<1>. USE DEF LeaderInv
<1>1. CASE Start(w) \/ Crash(w) \/ ReadMessages(w)
  <2>1. RecordsInv'
    <3>1. CASE Start(w) \/ Crash(w)
      BY <3>1, RecordsFrame DEF Start, Crash
    <3>2. CASE ReadMessages(w)
      BY <3>2, PingedStep, TopologiesFrame
      DEF ReadMessages, GetMessage, GetNoMessage, RecordsInv
    <3>. QED  BY <1>1, <3>1, <3>2
  <2>2. LoopsInv'
    BY <1>1, LoopsFrame, ProcessEndsIsGood
    DEF Start, Crash, ReadMessages, leader_vars, loop_vars
  <2>. QED  BY <2>1, <2>2
<1>2. CASE \/ Register(w) \/ Ping(w) \/ Recover(w) \/ ReleaseLeadership(w)
           \/ Disable(w) \/ Enable(w) \/ Delete(w)
  <2>1. \/ RegisterWorker(w) \/ PingWorker(w) \/ DeleteWorker(w)
        \/ \E status \in WorkerStatus : SetWorkerStatus(w, status)
        \/ SetWorkerLStatus(w, "normal")
    BY <1>2 DEF Register, Ping, Recover, ReleaseLeadership, Disable, Enable,
       Delete, WorkerStatus
  <2>2. RecordsInv'
    BY <2>1, WorkerCallsKeepRecords
  <2>3. LoopsInv'
    BY <1>2, LoopsFrame
    DEF Register, Ping, Recover, ReleaseLeadership, Disable, Enable, Delete,
        leader_vars, loop_vars
  <2>. QED  BY <2>2, <2>3
<1>3. CASE Close(w) \/ Exit(w)
  <2>1. \E status \in WorkerStatus : SetWorkerStatus(w, status)
    BY <1>3 DEF Close, Exit, WorkerStatus
  <2>2. RecordsInv'
    BY <2>1, WorkerCallsKeepRecords
  <2>3. LoopsInv'
    BY <1>3, LoopsFrame, ProcessEndsIsGood DEF Close, Exit
  <2>. QED  BY <2>2, <2>3
<1>. QED  BY <1>1, <1>2, <1>3, CallFailsStep, ElectionStep
  DEF WorkerStep, Disruption

LEMMA ReportKeepsInv ==
  ASSUME LeaderInv, NEW w \in Worker, NEW t \in Topology,
         NEW status \in Reported, Report(w, t, status)
  PROVE  LeaderInv'
<1>1. RecordsInv'
  BY TopologyCallsKeepRecords, IntervalsAreOrdered DEF Report, LeaderInv
<1>2. LoopsInv'
  BY LoopsFrame DEF Report, LeaderInv, leader_vars, loop_vars
<1>. QED  BY <1>1, <1>2 DEF LeaderInv

LEMMA ClientKeepsInv ==
  ASSUME LeaderInv, NEW t \in Topology, Client(t)
  PROVE  LeaderInv'
<1>. USE DEF LeaderInv
<1>1. RecordsInv'
  <2>1. CASE RegisterTopology(t)
    BY <2>1, TopologyCallsKeepRecords
  <2>2. CASE EnableTopology(t) \/ DisableTopology(t)
    <3>1. TopologiesInv' /\ UNCHANGED <<workers, workers_history>>
      BY <2>2, SetEnabledStep
      DEF EnableTopology, DisableTopology, SetEnabled, RecordsInv
    <3>. QED  BY <3>1, WorkersFrame DEF RecordsInv
  <2>. QED  BY <2>1, <2>2 DEF Client
<1>2. LoopsInv'
  BY LoopsFrame DEF Client, leader_vars, loop_vars
<1>. QED  BY <1>1, <1>2

LEMMA TimeKeepsInv ==
  ASSUME LeaderInv, TimePasses
  PROVE  LeaderInv'
<1>1. RecordsInv'
  BY AgeWorkersStep, AgeTopologiesStep DEF TimePasses, Tick, LeaderInv, RecordsInv
<1>2. LoopsInv'
  BY LoopsFrame DEF TimePasses, LeaderInv, loop_vars
<1>. QED  BY <1>1, <1>2 DEF LeaderInv

LEMMA LeaderInvariant == LeaderSpec => []LeaderInv
<1>1. ASSUME LeaderInv, LeaderNext
      PROVE  LeaderInv'
  <2>1. ASSUME NEW w \in Worker, LeaderStep(w)
        PROVE  LeaderInv'
    BY <1>1, <2>1, MakeCallStep, RefreshStatusesStep, UnassignWaitingStep,
       ElectionStep, ConfirmLeadershipStep, AssignUnassignedStep, RebalanceStep
    DEF LeaderStep
  <2>2. ASSUME NEW w \in Worker, RebalanceDue(w)
        PROVE  LeaderInv'
    BY <1>1, <2>2, RecordsFrame, LoopsFrame DEF RebalanceDue, LeaderInv
  <2>. QED  BY <1>1, <2>1, <2>2, WorkerStepKeepsInv, ReportKeepsInv,
               ClearStepKeepsInv, ClientKeepsInv, TimeKeepsInv
    DEF LeaderNext
<1>2. ASSUME LeaderInv, UNCHANGED vars
      PROVE  LeaderInv'
  BY <1>2, RecordsFrame, LoopsFrame DEF vars, leader_vars, loop_vars, LeaderInv
<1>. QED  BY <1>1, <1>2, LeaderInitInv, PTL DEF LeaderSpec

---------------------------------------------------------------------------
(* What follows of the records.                                            *)

\* Whatever stale reads, crashes and failed calls the loops are made of, the
\* storage never records two leaders.
THEOREM LoopsElectOneLeader == LeaderSpec => []AtMostOneLeader
BY LeaderInvariant, PTL DEF LeaderInv, RecordsInv, WorkersInv

\* ... and a topology that waits or runs has a worker: the leader's checks for the
\* contrary (handleSuspiciousTopologies) find nothing.
THEOREM LoopsKeepWorkers == LeaderSpec => []ActiveHasWorker
BY LeaderInvariant, PTL DEF LeaderInv, RecordsInv, TopologiesInv
---------------------------------------------------------------------------
(* The types of what the loops keep, and of the messages they send.        *)

PlacedOK(placed) ==
  /\ DOMAIN placed \subseteq Topology
  /\ \A t \in DOMAIN placed : placed[t] \in Addressee

Queues == [Addressee -> Seq(MessageRec)]

LoopTypes ==
  /\ LeaderTypeOK
  /\ \A w \in Worker : PlacedOK(seen[w].placed)
  /\ messages \in Queues

LEMMA SentIsTyped ==
  ASSUME messages \in Queues, NEW w \in Addressee, NEW cmd \in LeaderMessages,
         NEW T \in SUBSET Topology,
         SendMessageToWorker(w, Message(cmd, T, MessageInterval))
  PROVE  messages' \in Queues
<1>1. Message(cmd, T, MessageInterval) \in MessageRec
  BY AgeZero, IntervalsAreOrdered DEF Message, MessageRec
<1>. QED  BY <1>1 DEF SendMessageToWorker, Queued, Queues

LEMMA ReadIsTyped ==
  ASSUME messages \in Queues, NEW n \in Worker, GetMessage(n) \/ GetNoMessage(n)
  PROVE  messages' \in Queues
<1>1. CASE GetMessage(n)
  <2>1. PICK i \in Deliverable(n) :
          messages' = [messages EXCEPT ![n] = WithoutMessage(@, i)]
    BY <1>1 DEF GetMessage
  <2>2. messages[n] \in Seq(MessageRec) /\ i \in DOMAIN messages[n]
    BY DEF Queues, Addressee, Deliverable
  <2>3. WithoutMessage(messages[n], i) \in Seq(MessageRec)
    BY <2>2, WithoutMessageOK
  <2>. QED  BY <2>1, <2>3 DEF Queues, Addressee
<1>2. CASE GetNoMessage(n)
  BY <1>2 DEF GetNoMessage, Queues
<1>. QED  BY <1>1, <1>2

LEMMA AgedIsTyped ==
  ASSUME messages \in Queues, messages' = AgeMessages
  PROVE  messages' \in Queues
<1>1. ASSUME NEW w \in Addressee PROVE messages'[w] \in Seq(MessageRec)
  <2> DEFINE q == messages[w]
  <2>1. /\ DOMAIN q = 1 .. Len(q)
        /\ Len(q) \in Nat
        /\ \A i \in DOMAIN q : q[i] \in MessageRec
    BY DEF Queues
  <2>2. messages'[w] = [i \in DOMAIN q |-> [q[i] EXCEPT !.age = Older(@)]]
    BY DEF AgeMessages
  <2>3. \A i \in DOMAIN q : [q[i] EXCEPT !.age = Older(@)] \in MessageRec
    BY <2>1, OlderIsAge DEF MessageRec
  <2> QED
    BY <2>1, <2>2, <2>3
<1>. QED  BY <1>1 DEF AgeMessages, Queues

LEMMA PerformIsTyped ==
  ASSUME messages \in Queues, NEW c \in Call, Perform(c)
  PROVE  messages' \in Queues
<1>0. c.op \in Op /\ c.worker \in Addressee /\ c.topologies \in SUBSET Topology
  BY DEF Call
<1>1. CASE c.op = "start"
  <2>1. SendMessageToWorker(c.worker,
          Message("start_topologies", c.topologies, MessageInterval))
    BY <1>1 DEF Perform
  <2>. QED  BY <1>0, <2>1, SentIsTyped DEF LeaderMessages
<1>2. CASE c.op = "stop"
  <2>1. SendMessageToWorker(c.worker,
          Message("stop_topologies", c.topologies, MessageInterval))
    BY <1>2 DEF Perform
  <2>. QED  BY <1>0, <2>1, SentIsTyped DEF LeaderMessages
<1>3. CASE c.op \in {"dead", "normal", "unloaded", "list", "unassign", "assign"}
  <2>1. UNCHANGED messages
    BY <1>3 DEF Perform, SetWorkerStatus, SetWorkerLStatus, GetTopologiesForWorker,
       SetTopologyStatus, AssignTopology
  <2>. QED  BY <2>1
<1>. QED  BY <1>0, <1>1, <1>2, <1>3 DEF Op

LEMMA ACallIsCall ==
  ASSUME NEW op \in Op, NEW w \in Addressee, NEW T \in SUBSET Topology
  PROVE  ACall(op, w, T) \in Call
BY DEF ACall, Call

LEMMA WorkersAreAddressees == Worker \subseteq Addressee /\ NoWorker \in Addressee
BY DEF Addressee

\* A change of the state of one loop that keeps the types.
LEMMA TypesChange ==
  ASSUME LoopTypes, NEW w \in Worker, NEW C \in SUBSET Call, NEW s, PlacedOK(s.placed),
         seen = [v \in Worker |-> seen[v]],
         calls' = [calls EXCEPT ![w] = C] \/ UNCHANGED calls,
         seen' = [seen EXCEPT ![w] = s] \/ UNCHANGED seen,
         \/ \E x \in Step : step' = [step EXCEPT ![w] = x]
         \/ UNCHANGED step,
         UNCHANGED up \/ \E x \in Life : up' = [up EXCEPT ![w] = x],
         UNCHANGED is_leader \/ \E x \in BOOLEAN : is_leader' = [is_leader EXCEPT ![w] = x],
         UNCHANGED is_running \/ \E x \in BOOLEAN : is_running' = [is_running EXCEPT ![w] = x],
         UNCHANGED due \/ \E x \in BOOLEAN : due' = [due EXCEPT ![w] = x],
         UNCHANGED disruptions \/ \E kind : Disrupts(kind),
         messages' \in Queues
  PROVE  LoopTypes'
<1>1. calls' \in [Worker -> SUBSET Call]  BY DEF LoopTypes, LeaderTypeOK
<1>2. step' \in [Worker -> Step]  BY DEF LoopTypes, LeaderTypeOK
<1>3. up' \in [Worker -> Life]  BY DEF LoopTypes, LeaderTypeOK
<1>4. is_leader' \in [Worker -> BOOLEAN] /\ is_running' \in [Worker -> BOOLEAN]
  BY DEF LoopTypes, LeaderTypeOK
<1>5. due' \in [Worker -> BOOLEAN]  BY DEF LoopTypes, LeaderTypeOK
<1>6. disruptions' \in 0 .. MaxDisruptions
  BY IntervalsAreOrdered DEF LoopTypes, LeaderTypeOK, Disrupts
<1>7. \A v \in Worker : PlacedOK(seen'[v].placed)
  BY DEF LoopTypes
<1>. QED  BY <1>1, <1>2, <1>3, <1>4, <1>5, <1>6, <1>7 DEF LoopTypes, LeaderTypeOK

LEMMA UnseenIsTyped == PlacedOK(Unseen.placed)
BY DEF Unseen, PlacedOK, Nothing

LEMMA NoCalls == {} \in SUBSET Call
OBVIOUS

LEMMA HandleDeadWorkerIsTyped ==
  ASSUME NEW v \in Addressee, NEW T \in SUBSET Topology, NEW ts
  PROVE  HandleDeadWorker(v, T, ts) \in SUBSET Call
BY DEF HandleDeadWorker, ACall, Call, Op

LEMMA MakeCallTypes ==
  ASSUME LeaderInv, LeaderInv', LoopTypes, NEW w \in Worker, MakeCall(w)
  PROVE  LoopTypes'
<1>1. PICK c \in calls[w] :
        /\ Perform(c)
        /\ calls' = [calls EXCEPT ![w] = (@ \ {c}) \cup
             IF c.op = "list"
             THEN HandleDeadWorker(c.worker, TopologiesOf(c.worker)', topologies')
             ELSE {}]
  BY DEF MakeCall
<1>2. calls \in [Worker -> SUBSET Call] /\ messages \in Queues
  BY DEF LoopTypes, LeaderTypeOK
<1>3. calls[w] \in SUBSET Call /\ c \in Call
  BY <1>2
<1>4. messages' \in Queues
  BY <1>1, <1>2, <1>3, PerformIsTyped
<1>. DEFINE H == HandleDeadWorker(c.worker, TopologiesOf(c.worker)', topologies')
            new == IF c.op = "list" THEN H ELSE {}
            C == (calls[w] \ {c}) \cup new
<1>5. H \in SUBSET Call
  <2>1. c.worker \in Addressee
    BY <1>3 DEF Call
  <2>2. TopologiesOf(c.worker)' \in SUBSET Topology
    BY DEF TopologiesOf, LeaderInv, RecordsInv, TopologiesInv
  <2>. QED  BY <2>1, <2>2, HandleDeadWorkerIsTyped
<1>6. C \in SUBSET Call
  <2>. HIDE DEF H
  <2>. QED  BY <1>3, <1>5
<1>7. calls' = [calls EXCEPT ![w] = C]
  BY <1>1
<1>8. UNCHANGED <<up, is_leader, is_running, step, seen, due, disruptions>>
  BY DEF MakeCall
<1>9. PlacedOK(Unseen.placed) /\ seen = [v \in Worker |-> seen[v]]
  BY UnseenIsTyped DEF LeaderInv, LoopsInv
<1>. HIDE DEF C
<1>. QED  BY <1>4, <1>6, <1>7, <1>8, <1>9, TypesChange

LEMMA CallFailsTypes ==
  ASSUME LeaderInv, LoopTypes, NEW w \in Worker, CallFails(w)
  PROVE  LoopTypes'
<1>1. PICK c \in calls[w] :
        /\ Perform(c) \/ UNCHANGED storage_vars
        /\ \/ /\ calls' = [calls EXCEPT ![w] = (@ \ {c}) \cup
                             HandleDeadWorker(c.worker, {}, topologies)]
              /\ UNCHANGED <<is_running, step>>
           \/ /\ calls' = [calls EXCEPT ![w] = @ \ ({c} \cup Dependent(w, c))]
              /\ is_running' = [is_running EXCEPT ![w] = FALSE]
              /\ step' = [step EXCEPT ![w] = "stopped"]
  BY DEF CallFails
<1>2. calls \in [Worker -> SUBSET Call] /\ messages \in Queues
  BY DEF LoopTypes, LeaderTypeOK
<1>3. calls[w] \in SUBSET Call /\ c \in Call
  BY <1>2
<1>4. messages' \in Queues
  BY <1>1, <1>2, <1>3, PerformIsTyped DEF storage_vars
<1>5. PICK C \in SUBSET Call : calls' = [calls EXCEPT ![w] = C]
  <2>1. CASE calls' = [calls EXCEPT ![w] = (@ \ {c}) \cup
                         HandleDeadWorker(c.worker, {}, topologies)]
    <3>. DEFINE H == HandleDeadWorker(c.worker, {}, topologies)
    <3>1. H \in SUBSET Call
      BY <1>3, HandleDeadWorkerIsTyped DEF Call
    <3>2. calls' = [calls EXCEPT ![w] = (calls[w] \ {c}) \cup H]
      BY <2>1
    <3>. HIDE DEF H
    <3>. QED  BY <1>3, <3>1, <3>2
  <2>2. CASE calls' = [calls EXCEPT ![w] = @ \ ({c} \cup Dependent(w, c))]
    BY <1>3, <2>2
  <2>. QED  BY <1>1, <2>1, <2>2
<1>6. \/ UNCHANGED <<is_running, step>>
      \/ /\ is_running' = [is_running EXCEPT ![w] = FALSE]
         /\ step' = [step EXCEPT ![w] = "stopped"]
  BY <1>1
<1>7. "stopped" \in Step /\ FALSE \in BOOLEAN
  BY DEF Step
<1>8. UNCHANGED <<up, is_leader, seen, due>> /\ Disrupts("fail")
  BY DEF CallFails
<1>9. PlacedOK(Unseen.placed) /\ seen = [v \in Worker |-> seen[v]]
  BY UnseenIsTyped DEF LeaderInv, LoopsInv
<1>. QED  BY <1>4, <1>5, <1>6, <1>7, <1>8, <1>9, TypesChange

\* Reads and worker calls send nothing.
LEMMA SilentCalls ==
  ASSUME \/ UNCHANGED storage_vars
         \/ GetWorkerStatus \/ GetTopologyStatus \/ GetTopologiesForWorker
         \/ \E n \in Worker :
              \/ RegisterWorker(n) \/ PingWorker(n) \/ DeleteWorker(n)
              \/ AnnounceLeaderCandidacy(n) \/ CheckLeaderCandidacy(n)
              \/ CheckLeaderCandidacyFails(n)
              \/ \E status \in WorkerStatus : SetWorkerStatus(n, status)
              \/ SetWorkerLStatus(n, "normal")
  PROVE  UNCHANGED messages
BY DEF storage_vars, GetWorkerStatus, GetTopologyStatus, GetTopologiesForWorker,
   RegisterWorker, PingWorker, DeleteWorker, AnnounceLeaderCandidacy,
   CheckLeaderCandidacy, CheckLeaderCandidacyFails, SetWorkerStatus,
   SetWorkerLStatus

LEMMA RefreshStatusesTypes ==
  ASSUME LeaderInv, LeaderInv', LoopTypes, NEW w \in Worker, RefreshStatuses(w)
  PROVE  LoopTypes'
<1>. DEFINE s == [Unseen EXCEPT !.announce = ~is_leader[w] /\ (Vacant /\ Alive(w))',
                                !.gone = Gone']
<1>1. PlacedOK(s.placed)
  BY UnseenIsTyped DEF Unseen
<1>2. DefunctCalls' \in SUBSET Call
  BY DEF DefunctCalls, ACall, Call, Op, Addressee, LeaderInv, RecordsInv, WorkersInv
<1>3. messages' \in Queues
  BY SilentCalls DEF RefreshStatuses, LoopTypes
<1>4. /\ seen' = [seen EXCEPT ![w] = s]
      /\ calls' = [calls EXCEPT ![w] = DefunctCalls']
      /\ step' = [step EXCEPT ![w] = "defunct"] /\ "defunct" \in Step
      /\ UNCHANGED <<up, is_leader, is_running, due>>
      /\ UNCHANGED disruptions \/ \E kind : Disrupts(kind)
      /\ seen = [v \in Worker |-> seen[v]]
  BY DEF RefreshStatuses, Step, LeaderInv, LoopsInv
<1>. HIDE DEF s
<1>. QED  BY <1>1, <1>2, <1>3, <1>4, TypesChange

LEMMA UnassignWaitingTypes ==
  ASSUME LeaderInv, LeaderInv', LoopTypes, NEW w \in Worker, UnassignWaiting(w)
  PROVE  LoopTypes'
<1>. DEFINE T == {u \in DOMAIN topologies' : Stranded(topologies'[u], seen[w].gone)}
            C == {ACall("unassign", NoWorker, {t}) : t \in T}
<1>1. T \subseteq Topology
  BY DEF LeaderInv, RecordsInv, TopologiesInv
<1>2. C \in SUBSET Call
  <2>. HIDE DEF T
  <2>. QED  BY <1>1 DEF ACall, Call, Op, Addressee
<1>3. messages' \in Queues
  BY SilentCalls DEF UnassignWaiting, LoopTypes
<1>4. /\ calls' = [calls EXCEPT ![w] = C]
      /\ step' = [step EXCEPT ![w] = "waiting"] /\ "waiting" \in Step
      /\ UNCHANGED <<up, is_leader, is_running, due, seen, disruptions>>
      /\ seen = [v \in Worker |-> seen[v]]
  BY DEF UnassignWaiting, Step, LeaderInv, LoopsInv
<1>. HIDE DEF C
<1>. QED  BY <1>2, <1>3, <1>4, UnseenIsTyped, TypesChange

LEMMA ElectionTypes ==
  ASSUME LeaderInv, LoopTypes, NEW w \in Worker,
         \/ AnnounceCandidacy(w) \/ CheckCandidacy(w)
         \/ CheckCandidacyFails(w) \/ EndPass(w) \/ RequestFails(w)
  PROVE  LoopTypes'
<1>1. messages' \in Queues
  BY SilentCalls
  DEF AnnounceCandidacy, CheckCandidacy, CheckCandidacyFails, EndPass,
      RequestFails, LoopTypes
<1>2. UNCHANGED <<up, calls, due>>
  BY DEF AnnounceCandidacy, CheckCandidacy, CheckCandidacyFails, EndPass, RequestFails
<1>3. \E x \in Step : step' = [step EXCEPT ![w] = x]
  BY DEF AnnounceCandidacy, CheckCandidacy, CheckCandidacyFails, EndPass,
     RequestFails, Step
<1>4. UNCHANGED is_leader \/ \E x \in BOOLEAN : is_leader' = [is_leader EXCEPT ![w] = x]
  BY DEF AnnounceCandidacy, CheckCandidacy, CheckCandidacyFails, EndPass, RequestFails
<1>5. UNCHANGED is_running \/ \E x \in BOOLEAN : is_running' = [is_running EXCEPT ![w] = x]
  BY DEF AnnounceCandidacy, CheckCandidacy, CheckCandidacyFails, EndPass, RequestFails
<1>6. UNCHANGED disruptions \/ \E kind : Disrupts(kind)
  BY DEF AnnounceCandidacy, CheckCandidacy, CheckCandidacyFails, EndPass, RequestFails
<1>7. /\ seen' = [seen EXCEPT ![w] = Unseen] \/ UNCHANGED seen
      /\ seen = [v \in Worker |-> seen[v]]
  BY DEF AnnounceCandidacy, CheckCandidacy, CheckCandidacyFails, EndPass,
     RequestFails, LeaderInv, LoopsInv
<1>. QED  BY <1>1, <1>2, <1>3, <1>4, <1>5, <1>6, <1>7, NoCalls, UnseenIsTyped,
             TypesChange

LEMMA ConfirmLeadershipTypes ==
  ASSUME LeaderInv, LeaderInv', LoopTypes, NEW w \in Worker, ConfirmLeadership(w)
  PROVE  LoopTypes'
<1>. DEFINE serves == IsRecorded(w)' /\ Alive(w)'
            C == CASE serves -> {ACall("list", v, {}) : v \in DeadWorkers'}
                   [] IsRecorded(w)' /\ ~serves -> Release(w)
                   [] OTHER -> {}
            s == [Unseen EXCEPT !.alive = IF serves THEN AliveWorkers' ELSE {}]
<1>1. C \in SUBSET Call
  <2>1. {ACall("list", v, {}) : v \in DeadWorkers'} \in SUBSET Call
    BY DEF DeadWorkers, ACall, Call, Op, Addressee, LeaderInv, RecordsInv, WorkersInv
  <2>2. Release(w) \in SUBSET Call
    BY DEF Release, ACall, Call, Op, Addressee
  <2>3. CASE serves  BY <2>1, <2>3
  <2>4. CASE ~serves /\ IsRecorded(w)'  BY <2>2, <2>4
  <2>5. CASE ~serves /\ ~IsRecorded(w)'  BY <2>5
  <2>. QED  BY <2>3, <2>4, <2>5
<1>2. PlacedOK(s.placed)
  BY UnseenIsTyped DEF Unseen
<1>3. messages' \in Queues
  BY SilentCalls DEF ConfirmLeadership, LoopTypes
<1>4. /\ calls' = [calls EXCEPT ![w] = C]
      /\ seen' = [seen EXCEPT ![w] = s]
      /\ UNCHANGED <<up, is_running, due, disruptions>>
      /\ seen = [v \in Worker |-> seen[v]]
  BY DEF ConfirmLeadership, LeaderInv, LoopsInv
<1>5. \E x \in BOOLEAN : is_leader' = [is_leader EXCEPT ![w] = x]
  <2>1. is_leader' = [is_leader EXCEPT ![w] = serves] /\ serves \in BOOLEAN
    BY DEF ConfirmLeadership
  <2>. QED  BY <2>1
<1>6. \E x \in Step : step' = [step EXCEPT ![w] = x]
  <2>1. step' = [step EXCEPT ![w] = IF serves THEN "dead" ELSE "end"]
    BY DEF ConfirmLeadership
  <2>2. (IF serves THEN "dead" ELSE "end") \in Step
    BY DEF Step
  <2>. QED  BY <2>1, <2>2
<1>. HIDE DEF C, s
<1>. QED  BY <1>1, <1>2, <1>3, <1>4, <1>5, <1>6, TypesChange

LEMMA AssignUnassignedTypes ==
  ASSUME LeaderInv, LeaderInv', LoopTypes, NEW w \in Worker, AssignUnassigned(w)
  PROVE  LoopTypes'
<1>. DEFINE T == {t \in DOMAIN topologies' : ToAssign(t)'}
            enabled == {t \in DOMAIN topologies' : topologies'[t].enabled}
<1>1. PICK target \in [T -> seen[w].alive] :
        /\ calls' = [calls EXCEPT ![w] =
             {ACall("assign", target[t], {t}) : t \in T} \cup
             {ACall("start", v, {t \in T : target[t] = v}) :
                v \in {target[t] : t \in T}}]
        /\ seen' = [seen EXCEPT ![w] = [Unseen EXCEPT !.placed =
             [t \in enabled |-> IF t \in T THEN target[t] ELSE topologies'[t].worker]]]
  BY DEF AssignUnassigned
<1>. DEFINE C == {ACall("assign", target[t], {t}) : t \in T} \cup
                 {ACall("start", v, {t \in T : target[t] = v}) :
                    v \in {target[t] : t \in T}}
            p == [t \in enabled |-> IF t \in T THEN target[t] ELSE topologies'[t].worker]
            s == [Unseen EXCEPT !.placed = p]
<1>2. /\ T \subseteq Topology /\ \A t \in T : target[t] \in Addressee
      /\ enabled \subseteq Topology
      /\ \A t \in enabled : topologies'[t].worker \in Addressee
  BY <1>1
  DEF RecordsInv, TopologiesInv, LeaderInv, LoopsInv, Addressee, TopologyRec
<1>3. C \in SUBSET Call
  <2>1. ASSUME NEW t \in T
        PROVE  ACall("assign", target[t], {t}) \in Call
    BY <1>2 DEF ACall, Call, Op
  <2>2. ASSUME NEW v \in {target[t] : t \in T}
        PROVE  ACall("start", v, {t \in T : target[t] = v}) \in Call
    BY <1>2 DEF ACall, Call, Op
  <2>. HIDE DEF T
  <2>. QED  BY <2>1, <2>2
<1>4. PlacedOK(s.placed)
  <2>1. s.placed = p
    BY DEF Unseen
  <2>2. PlacedOK(p)
    BY <1>2 DEF PlacedOK
  <2>. QED  BY <2>1, <2>2
<1>5. messages' \in Queues
  BY SilentCalls DEF AssignUnassigned, LoopTypes
<1>6. /\ calls' = [calls EXCEPT ![w] = C] /\ seen' = [seen EXCEPT ![w] = s]
      /\ step' = [step EXCEPT ![w] = "assign"] /\ "assign" \in Step
      /\ UNCHANGED <<up, is_leader, is_running, due, disruptions>>
      /\ seen = [v \in Worker |-> seen[v]]
  BY <1>1 DEF AssignUnassigned, Step, LeaderInv, LoopsInv
<1>. HIDE DEF C, s
<1>. QED  BY <1>3, <1>4, <1>5, <1>6, TypesChange

LEMMA RebalanceTypes ==
  ASSUME LeaderInv, LoopTypes, NEW w \in Worker, Rebalance(w)
  PROVE  LoopTypes'
<1>1. PICK T \in SUBSET DOMAIN seen[w].placed :
        calls' = [calls EXCEPT ![w] =
          {ACall("stop", v, {t \in T : seen[w].placed[t] = v}) :
             v \in {seen[w].placed[t] : t \in T}}]
  BY DEF Rebalance
<1>. DEFINE C == {ACall("stop", v, {t \in T : seen[w].placed[t] = v}) :
                    v \in {seen[w].placed[t] : t \in T}}
<1>2. C \in SUBSET Call
  <2>1. PlacedOK(seen[w].placed)
    BY DEF LoopTypes
  <2>. QED  BY <2>1 DEF PlacedOK, ACall, Call, Op
<1>3. /\ calls' = [calls EXCEPT ![w] = C] /\ seen' = [seen EXCEPT ![w] = Unseen]
      /\ step' = [step EXCEPT ![w] = "end"] /\ "end" \in Step
      /\ due' = [due EXCEPT ![w] = FALSE] /\ FALSE \in BOOLEAN
      /\ UNCHANGED <<up, is_leader, is_running, disruptions>>
      /\ seen = [v \in Worker |-> seen[v]]
      /\ messages' \in Queues
  BY <1>1 DEF Rebalance, Step, LeaderInv, LoopsInv, LoopTypes, storage_vars
<1>. HIDE DEF C
<1>. QED  BY <1>2, <1>3, UnseenIsTyped, TypesChange

\* Steps that leave the loops alone.
LEMMA OthersTypes ==
  ASSUME LoopTypes, UNCHANGED <<up, loop_vars>>, messages' \in Queues,
         UNCHANGED disruptions \/ \E kind : Disrupts(kind)
  PROVE  LoopTypes'
<1>1. disruptions' \in 0 .. MaxDisruptions
  BY IntervalsAreOrdered DEF LoopTypes, LeaderTypeOK, Disrupts
<1>. QED  BY <1>1 DEF LoopTypes, LeaderTypeOK, loop_vars

LEMMA ClearTypes ==
  ASSUME LeaderInv, LoopTypes, NEW t \in Topology, ClearStep(t)
  PROVE  LoopTypes'
<1>1. UNCHANGED <<up, loop_vars, disruptions>>
  BY DEF ClearStep, ClearReadsTopology, ClearReadsWorkers, ClearSetsStatus,
     ClearSendsMessage
<1>2. messages' \in Queues
  <2>1. CASE ClearReadsTopology(t)
    BY <2>1 DEF ClearReadsTopology, LoopTypes, storage_vars
  <2>2. CASE ClearReadsWorkers(t)
    BY <2>2, SilentCalls DEF ClearReadsWorkers, LoopTypes
  <2>3. CASE ClearSetsStatus(t)
    BY <2>3 DEF ClearSetsStatus, AssignTopology, SetTopologyStatus, LoopTypes
  <2>4. CASE ClearSendsMessage(t)
    <3>1. clearing[t].worker \in Addressee
      BY DEF LeaderInv, LoopsInv, ClearingRec, Addressee
    <3>2. "start_topology" \in LeaderMessages
      BY DEF LeaderMessages
    <3>. QED  BY <2>4, <3>1, <3>2, SentIsTyped DEF ClearSendsMessage, LoopTypes
  <2>. QED  BY <2>1, <2>2, <2>3, <2>4 DEF ClearStep
<1>. QED  BY <1>1, <1>2, OthersTypes

LEMMA ProcessEndsTypes ==
  ASSUME LeaderInv, LoopTypes, NEW w \in Worker, ProcessEnds(w), UNCHANGED messages,
         UNCHANGED disruptions \/ \E kind : Disrupts(kind)
  PROVE  LoopTypes'
<1>1. /\ calls' = [calls EXCEPT ![w] = {}]
      /\ seen' = [seen EXCEPT ![w] = Unseen] /\ seen = [v \in Worker |-> seen[v]]
      /\ step' = [step EXCEPT ![w] = "stopped"] /\ "stopped" \in Step
      /\ up' = [up EXCEPT ![w] = "down"] /\ "down" \in Life
      /\ is_leader' = [is_leader EXCEPT ![w] = FALSE]
      /\ is_running' = [is_running EXCEPT ![w] = FALSE]
      /\ due' = [due EXCEPT ![w] = FALSE] /\ FALSE \in BOOLEAN
      /\ messages' \in Queues
  BY DEF ProcessEnds, Step, Life, LoopTypes, LeaderInv, LoopsInv
<1>. QED  BY <1>1, NoCalls, UnseenIsTyped, TypesChange

LEMMA WorkerTypes ==
  ASSUME LeaderInv, LoopTypes, NEW w \in Worker,
         WorkerStep(w) \/ Disruption(w), ~CallFails(w), ~RequestFails(w)
  PROVE  LoopTypes'
<1>1. CASE Crash(w) \/ Exit(w)
  <2>1. UNCHANGED messages
    BY <1>1 DEF Crash, Exit, SetWorkerStatus, storage_vars
  <2>2. ProcessEnds(w) /\ (UNCHANGED disruptions \/ \E kind : Disrupts(kind))
    BY <1>1 DEF Crash, Exit
  <2>. QED  BY <2>1, <2>2, ProcessEndsTypes
<1>2. CASE Start(w)
  <2>1. /\ up' = [up EXCEPT ![w] = "starting"] /\ "starting" \in Life
        /\ is_running' = [is_running EXCEPT ![w] = TRUE] /\ TRUE \in BOOLEAN
        /\ step' = [step EXCEPT ![w] = "sleep"] /\ "sleep" \in Step
        /\ UNCHANGED <<is_leader, calls, seen, due, disruptions>>
        /\ messages' \in Queues /\ seen = [v \in Worker |-> seen[v]]
    BY <1>2 DEF Start, storage_vars, LoopTypes, Step, Life, LeaderInv, LoopsInv
  <2>. QED  BY <2>1, NoCalls, UnseenIsTyped, TypesChange
<1>3. CASE Register(w)
  <2>1. /\ up' = [up EXCEPT ![w] = "up"] /\ "up" \in Life
        /\ UNCHANGED <<is_leader, is_running, step, calls, seen, due, disruptions>>
        /\ messages' \in Queues /\ seen = [v \in Worker |-> seen[v]]
    BY <1>3, SilentCalls
    DEF Register, loop_vars, LoopTypes, Life, LeaderInv, LoopsInv
  <2>. QED  BY <2>1, NoCalls, UnseenIsTyped, TypesChange
<1>4. CASE Close(w)
  <2>1. /\ up' = [up EXCEPT ![w] = "closing"] /\ "closing" \in Life
        /\ is_running' = [is_running EXCEPT ![w] = FALSE] /\ FALSE \in BOOLEAN
        /\ UNCHANGED <<is_leader, step, calls, seen, due>>
        /\ UNCHANGED disruptions \/ \E kind : Disrupts(kind)
        /\ messages' \in Queues /\ seen = [v \in Worker |-> seen[v]]
    BY <1>4 DEF Close, SetWorkerStatus, LoopTypes, Life, LeaderInv, LoopsInv
  <2>. QED  BY <2>1, NoCalls, UnseenIsTyped, TypesChange
<1>5. CASE ReadMessages(w)
  BY <1>5, ReadIsTyped, OthersTypes DEF ReadMessages, leader_vars, LoopTypes
<1>6. CASE \/ Ping(w) \/ Recover(w) \/ ReleaseLeadership(w) \/ Disable(w)
           \/ Enable(w) \/ Delete(w)
  <2>1. UNCHANGED messages
    BY <1>6
    DEF Ping, Recover, ReleaseLeadership, Disable, Enable, Delete, PingWorker,
        SetWorkerStatus, SetWorkerLStatus, RegisterWorker, DeleteWorker
  <2>2. /\ UNCHANGED <<up, loop_vars>>
        /\ UNCHANGED disruptions \/ \E kind : Disrupts(kind)
    BY <1>6 DEF Ping, Recover, ReleaseLeadership, Disable, Enable, Delete,
       leader_vars
  <2>. QED  BY <2>1, <2>2, OthersTypes DEF LoopTypes
<1>. QED  BY <1>1, <1>2, <1>3, <1>4, <1>5, <1>6 DEF WorkerStep, Disruption

LEMMA RestTypes ==
  ASSUME LeaderInv, LoopTypes,
         \/ \E w \in Worker, t \in Topology, status \in Reported : Report(w, t, status)
         \/ \E t \in Topology : Client(t)
         \/ TimePasses
         \/ \E w \in Worker : RebalanceDue(w)
  PROVE  LoopTypes'
<1>1. CASE \E w \in Worker, t \in Topology, status \in Reported : Report(w, t, status)
  <2>1. UNCHANGED messages /\ UNCHANGED <<up, loop_vars, disruptions>>
    BY <1>1 DEF Report, SetTopologyStatus, leader_vars
  <2>. QED  BY <2>1, OthersTypes DEF LoopTypes
<1>2. CASE \E t \in Topology : Client(t)
  <2>1. UNCHANGED messages /\ UNCHANGED <<up, loop_vars, disruptions>>
    BY <1>2 DEF Client, RegisterTopology, EnableTopology, DisableTopology, leader_vars
  <2>. QED  BY <2>1, OthersTypes DEF LoopTypes
<1>3. CASE TimePasses
  <2>1. messages' = AgeMessages /\ UNCHANGED <<up, loop_vars>>
        /\ (UNCHANGED disruptions \/ \E kind : Disrupts(kind))
    BY <1>3 DEF TimePasses, Tick
  <2>. QED  BY <2>1, AgedIsTyped, OthersTypes DEF LoopTypes
<1>4. ASSUME NEW w \in Worker, RebalanceDue(w)
      PROVE  LoopTypes'
  <2>1. /\ due' = [due EXCEPT ![w] = TRUE] /\ TRUE \in BOOLEAN
        /\ UNCHANGED <<up, is_leader, is_running, step, calls, seen, disruptions>>
        /\ messages' \in Queues /\ seen = [v \in Worker |-> seen[v]]
    BY <1>4 DEF RebalanceDue, storage_vars, LoopTypes, LeaderInv, LoopsInv
  <2>. QED  BY <2>1, NoCalls, UnseenIsTyped, TypesChange
<1>. QED  BY <1>1, <1>2, <1>3, <1>4

LEMMA LoopTypesInit == LeaderInit => LoopTypes
<1>. SUFFICES ASSUME LeaderInit
              PROVE  LoopTypes
  OBVIOUS
<1>1. LeaderTypeOK
  BY IntervalsAreOrdered DEF LeaderInit, LeaderTypeOK, Life, Step
<1>2. \A w \in Worker : PlacedOK(seen[w].placed)
  BY UnseenIsTyped DEF LeaderInit
<1>3. messages \in Queues
  BY DEF LeaderInit, StorageInit, Queues
<1>. QED  BY <1>1, <1>2, <1>3 DEF LoopTypes

LEMMA LoopTypesStep ==
  LeaderInv /\ LeaderInv' /\ LoopTypes /\ [LeaderNext]_vars => LoopTypes'
<1>1. ASSUME LeaderInv, LeaderInv', LoopTypes, LeaderNext
      PROVE  LoopTypes'
  <2>1. ASSUME NEW w \in Worker, LeaderStep(w)
        PROVE  LoopTypes'
    BY <1>1, <2>1, MakeCallTypes, RefreshStatusesTypes, UnassignWaitingTypes,
       ElectionTypes, ConfirmLeadershipTypes, AssignUnassignedTypes, RebalanceTypes
    DEF LeaderStep
  <2>2. ASSUME NEW w \in Worker, WorkerStep(w) \/ Disruption(w)
        PROVE  LoopTypes'
    BY <1>1, <2>2, WorkerTypes, CallFailsTypes, ElectionTypes
  <2>. QED  BY <1>1, <2>1, <2>2, RestTypes, ClearTypes DEF LeaderNext
<1>2. ASSUME LoopTypes, UNCHANGED vars
      PROVE  LoopTypes'
  BY <1>2, OthersTypes DEF vars, leader_vars, storage_vars, LoopTypes
<1>. QED  BY <1>1, <1>2

LEMMA LoopTypesInvariant == LeaderSpec => []LoopTypes
BY LeaderInvariant, LoopTypesInit, LoopTypesStep, PTL DEF LeaderSpec

\* Whatever happens to the loops, what they remember and the calls they have
\* still to make have the form that the code reads them in.
THEOREM LoopTypesAreKept == LeaderSpec => []LeaderTypeOK
<1>1. LoopTypes => LeaderTypeOK
  BY DEF LoopTypes
<1>. QED  BY <1>1, LoopTypesInvariant, PTL

---------------------------------------------------------------------------
(* The recorded leader serves.  Nobody but a worker itself makes itself    *)
(* leader, and it looks at the outcome; whoever gives leadership up has    *)
(* either released its record or still holds the call that does.           *)

ServesOrReleases(w) ==
  IsRecorded(w) /\ up[w] = "up" /\ is_running[w]
    => is_leader[w] \/ ACall("normal", w, {}) \in calls[w]

\* Reads and calls about workers make nobody leader, but for the check of the
\* candidacy of the worker itself.
LEMMA NoNewLeader ==
  ASSUME WorkersInv, NEW w \in Worker,
         \/ UNCHANGED workers
         \/ GetWorkerStatus \/ GetTopologyStatus \/ GetTopologiesForWorker
         \/ \E n \in Worker :
              \/ RegisterWorker(n) \/ DeleteWorker(n)
              \/ AnnounceLeaderCandidacy(n)
              \/ CheckLeaderCandidacy(n) /\ n # w
              \/ CheckLeaderCandidacyFails(n)
              \/ \E status \in WorkerStatus : SetWorkerStatus(n, status)
              \/ SetWorkerLStatus(n, "normal")
         \/ \E n \in Worker : workers' = Pinged(n)
         \/ workers' = AgeWorkers,
         IsRecorded(w)'
  PROVE  IsRecorded(w)
<1>0. w \in DOMAIN workers' /\ workers'[w].lstatus = "leader"
  BY DEF IsRecorded
<1>. SUFFICES w \in DOMAIN workers /\ workers[w].lstatus = "leader"
  BY DEF IsRecorded
<1>a. \A v \in DOMAIN workers : workers[v] \in WorkerRec
  BY DEF WorkersInv
<1>b. \A v \in DOMAIN workers : \A x :
        /\ [workers[v] EXCEPT !.status = x].lstatus = workers[v].lstatus
        /\ [workers[v] EXCEPT !.age = x].lstatus = workers[v].lstatus
        /\ [workers[v] EXCEPT !.lstatus = x].lstatus = x
  BY <1>a DEF WorkerRec
<1>1. CASE UNCHANGED workers \/ GetTopologiesForWorker
  BY <1>0, <1>1 DEF GetTopologiesForWorker
<1>c. ASSUME w \in DOMAIN workers, NEW x,
             \/ workers'[w] = workers[w]
             \/ workers'[w] = [workers[w] EXCEPT !.status = x]
             \/ workers'[w] = [workers[w] EXCEPT !.age = x]
      PROVE  w \in DOMAIN workers /\ workers[w].lstatus = "leader"
  <2>1. [workers[w] EXCEPT !.status = x].lstatus = workers[w].lstatus
    BY <1>b, <1>c
  <2>2. [workers[w] EXCEPT !.age = x].lstatus = workers[w].lstatus
    BY <1>b, <1>c
  <2>. QED  BY <1>0, <1>c, <2>1, <2>2
<1>2. CASE GetWorkerStatus \/ GetTopologyStatus
  <2>1. workers' = [v \in DOMAIN workers |->
          IF v \in DefunctWorkers THEN [workers[v] EXCEPT !.status = "dead"]
                                  ELSE workers[v]]
    BY <1>2 DEF GetWorkerStatus, GetTopologyStatus, DisableDefunctWorkers
  <2>2. /\ w \in DOMAIN workers
        /\ \/ workers'[w] = workers[w]
           \/ workers'[w] = [workers[w] EXCEPT !.status = "dead"]
    BY <1>0, <2>1
  <2>. QED  BY <2>2, <1>c
<1>3. ASSUME NEW n \in Worker, RegisterWorker(n) \/ DeleteWorker(n)
      PROVE  w \in DOMAIN workers /\ workers[w].lstatus = "leader"
  BY <1>0, <1>3 DEF RegisterWorker, DeleteWorker
<1>4. /\ DOMAIN LeadersDisabled = DOMAIN workers
      /\ \A v \in DOMAIN workers :
           /\ LeadersDisabled[v] \in WorkerRec
           /\ LeadersDisabled[v].lstatus = "leader" => workers[v].lstatus = "leader"
  BY LeadersDisabledOK
<1>5. ASSUME NEW n \in Worker, AnnounceLeaderCandidacy(n)
      PROVE  w \in DOMAIN workers /\ workers[w].lstatus = "leader"
  <2>. DEFINE ws == LeadersDisabled
              announced == IF MayAnnounce(n, ws) THEN {n} \cap DOMAIN ws ELSE {}
  <2>1. workers' = [v \in DOMAIN ws |->
          IF v \in announced THEN [ws[v] EXCEPT !.lstatus = "candidate"] ELSE ws[v]]
    BY <1>5 DEF AnnounceLeaderCandidacy
  <2>. HIDE DEF announced, ws
  <2>2. DOMAIN workers' = DOMAIN ws /\ ws[w].lstatus = "leader"
    <3>1. CASE w \in announced
      <4>1. workers'[w] = [ws[w] EXCEPT !.lstatus = "candidate"]
        BY <1>0, <2>1, <3>1
      <4>2. workers'[w].lstatus # "leader" \/ workers'[w] = ws[w]
        BY <4>1
      <4>. QED  BY <1>0, <2>1, <4>2
    <3>2. CASE w \notin announced
      BY <1>0, <2>1, <3>2
    <3>. QED  BY <3>1, <3>2
  <2>. QED  BY <1>0, <1>4, <2>2 DEF ws
<1>6. ASSUME NEW n \in Worker, CheckLeaderCandidacy(n), n # w
      PROVE  w \in DOMAIN workers /\ workers[w].lstatus = "leader"
  <2>. DEFINE ws == LeadersDisabled
  <2>1. workers' = [v \in DOMAIN ws |->
          [ws[v] EXCEPT !.lstatus = LStatusAfterCheck(n, ws, v)]]
    BY <1>6 DEF CheckLeaderCandidacy
  <2>2. LStatusAfterCheck(n, ws, w) \in {"normal", ws[w].lstatus}
    BY <1>6 DEF LStatusAfterCheck
  <2>4. ws[w] \in WorkerRec => \A x : [ws[w] EXCEPT !.lstatus = x].lstatus = x
    BY DEF WorkerRec
  <2>5. DOMAIN ws = DOMAIN workers /\ \A v \in DOMAIN ws : ws[v] \in WorkerRec
    BY <1>4
  <2>. HIDE DEF ws
  <2>3. DOMAIN workers' = DOMAIN ws /\ ws[w].lstatus = "leader"
    BY <1>0, <2>1, <2>2, <2>4, <2>5
  <2>. QED  BY <1>0, <1>4, <2>3 DEF ws
<1>7. ASSUME NEW n \in Worker, CheckLeaderCandidacyFails(n)
      PROVE  w \in DOMAIN workers /\ workers[w].lstatus = "leader"
  BY <1>0, <1>4, <1>7 DEF CheckLeaderCandidacyFails
<1>8. ASSUME NEW n \in Worker,
             \/ \E status \in WorkerStatus : SetWorkerStatus(n, status)
             \/ SetWorkerLStatus(n, "normal")
      PROVE  w \in DOMAIN workers /\ workers[w].lstatus = "leader"
  <2>1. ASSUME NEW status, SetWorkerStatus(n, status)
        PROVE  w \in DOMAIN workers /\ workers[w].lstatus = "leader"
    <3>1. /\ w \in DOMAIN workers
          /\ \/ workers'[w] = workers[w]
             \/ workers'[w] = [workers[w] EXCEPT !.status = status]
      BY <1>0, <2>1 DEF SetWorkerStatus
    <3>. QED  BY <3>1, <1>c
  <2>2. CASE SetWorkerLStatus(n, "normal")
    <3>1. /\ w \in DOMAIN workers
          /\ \/ workers'[w] = workers[w]
             \/ workers'[w] = [workers[w] EXCEPT !.lstatus = "normal"]
      BY <1>0, <2>2 DEF SetWorkerLStatus
    <3>2. [workers[w] EXCEPT !.lstatus = "normal"].lstatus = "normal"
      BY <1>b, <3>1
    <3>. QED  BY <1>0, <3>1, <3>2, <1>c
  <2>. QED  BY <1>8, <2>1, <2>2
<1>9. CASE (\E n \in Worker : workers' = Pinged(n)) \/ workers' = AgeWorkers
  <2>1. \E x : /\ w \in DOMAIN workers
               /\ \/ workers'[w] = workers[w]
                  \/ workers'[w] = [workers[w] EXCEPT !.age = x]
    <3>1. CASE \E n \in Worker : workers' = Pinged(n)
      <4>1. PICK n \in Worker : workers' = Pinged(n)
        BY <3>1
      <4>2. /\ w \in DOMAIN workers
            /\ \/ workers'[w] = workers[w]
               \/ workers'[w] = [workers[w] EXCEPT !.age = 0]
        BY <1>0, <4>1 DEF Pinged
      <4>. QED  BY <4>2
    <3>2. CASE workers' = AgeWorkers
      <4>1. /\ w \in DOMAIN workers
            /\ workers'[w] = [workers[w] EXCEPT !.age = Older(workers[w].age)]
        BY <1>0, <3>2 DEF AgeWorkers
      <4>. QED  BY <4>1
    <3>. QED  BY <1>9, <3>1, <3>2
  <2>. QED  BY <2>1, <1>c
<1>. QED  BY <1>1, <1>2, <1>3, <1>5, <1>6, <1>7, <1>8, <1>9

LEMMA PerformMakesNoLeader ==
  ASSUME WorkersInv, NEW w \in Worker, NEW c, GoodCall(c), Perform(c), IsRecorded(w)'
  PROVE  IsRecorded(w)
<1>1. CASE c.op \in {"dead", "normal", "unloaded"}
  <2>1. c.worker \in Worker
    BY <1>1 DEF GoodCall
  <2>2. \/ \E status \in WorkerStatus : SetWorkerStatus(c.worker, status)
        \/ SetWorkerLStatus(c.worker, "normal")
    BY <1>1 DEF Perform, WorkerStatus
  <2>. QED  BY <2>1, <2>2, NoNewLeader
<1>2. CASE c.op \in {"list", "unassign", "assign", "start", "stop"}
  <2>1. UNCHANGED workers
    BY <1>2 DEF Perform, GetTopologiesForWorker, SetTopologyStatus,
       AssignTopology, SendMessageToWorker
  <2>. QED  BY <2>1, NoNewLeader
<1>. QED  BY <1>1, <1>2 DEF GoodCall, Op

\* The loop of w goes on as it was.
LEMMA KeepsServing ==
  ASSUME NEW w \in Worker, ServesOrReleases(w), IsRecorded(w)' => IsRecorded(w),
         up'[w] = up[w], is_leader'[w] = is_leader[w],
         is_running'[w] = is_running[w] \/ ~is_running'[w],
         ACall("normal", w, {}) \in calls[w] => ACall("normal", w, {}) \in calls'[w]
  PROVE  ServesOrReleases(w)'
BY DEF ServesOrReleases

\* What another worker does leaves the loop of w alone.
LEMMA OtherLoops ==
  ASSUME LeaderTypeOK, NEW v \in Worker, NEW w \in Worker, v # w,
         LeaderStep(v) \/ RebalanceDue(v) \/ WorkerStep(v) \/ Disruption(v)
  PROVE  /\ up'[w] = up[w] /\ is_leader'[w] = is_leader[w]
         /\ is_running'[w] = is_running[w] /\ calls'[w] = calls[w]
         /\ step'[w] = step[w]
<1>1. UNCHANGED up \/ \E x \in Life : up' = [up EXCEPT ![v] = x]
  BY DEF LeaderStep, RebalanceDue, WorkerStep, Disruption, MakeCall,
     RefreshStatuses, UnassignWaiting, AnnounceCandidacy, CheckCandidacy,
     CheckCandidacyFails, EndPass, ConfirmLeadership, AssignUnassigned, Rebalance,
     Start, Register, Ping, Recover, Close, Exit, ReadMessages, Crash,
     ReleaseLeadership, Disable, Enable, CallFails, RequestFails, Delete,
     ProcessEnds, Life, leader_vars
<1>2. UNCHANGED is_leader \/ \E x \in BOOLEAN : is_leader' = [is_leader EXCEPT ![v] = x]
  <2>1. CASE ConfirmLeadership(v)
    <3>1. is_leader' = [is_leader EXCEPT ![v] = IsRecorded(v)' /\ Alive(v)']
      BY <2>1 DEF ConfirmLeadership
    <3>. QED  BY <3>1
  <2>. QED  BY <2>1
  DEF LeaderStep, RebalanceDue, WorkerStep, Disruption, MakeCall,
     RefreshStatuses, UnassignWaiting, AnnounceCandidacy, CheckCandidacy,
     CheckCandidacyFails, EndPass, AssignUnassigned, Rebalance,
     Start, Register, Ping, Recover, Close, Exit, ReadMessages, Crash,
     ReleaseLeadership, Disable, Enable, CallFails, RequestFails, Delete,
     ProcessEnds, leader_vars, loop_vars
<1>3. UNCHANGED is_running \/ \E x \in BOOLEAN : is_running' = [is_running EXCEPT ![v] = x]
  BY DEF LeaderStep, RebalanceDue, WorkerStep, Disruption, MakeCall,
     RefreshStatuses, UnassignWaiting, AnnounceCandidacy, CheckCandidacy,
     CheckCandidacyFails, EndPass, ConfirmLeadership, AssignUnassigned, Rebalance,
     Start, Register, Ping, Recover, Close, Exit, ReadMessages, Crash,
     ReleaseLeadership, Disable, Enable, CallFails, RequestFails, Delete,
     ProcessEnds, leader_vars, loop_vars
<1>4. UNCHANGED calls \/ \E C : calls' = [calls EXCEPT ![v] = C]
  <2>1. CASE LeaderStep(v) \/ CallFails(v)
    BY <2>1 DEF LeaderStep, MakeCall,
     RefreshStatuses, UnassignWaiting, AnnounceCandidacy, CheckCandidacy,
     CheckCandidacyFails, EndPass, ConfirmLeadership, AssignUnassigned, Rebalance,
     CallFails
  <2>2. CASE RebalanceDue(v) \/ WorkerStep(v) \/ (Disruption(v) /\ ~CallFails(v))
    BY <2>2
    DEF RebalanceDue, WorkerStep, Disruption,
     Start, Register, Ping, Recover, Close, Exit, ReadMessages, Crash,
     ReleaseLeadership, Disable, Enable, RequestFails, Delete,
     ProcessEnds, leader_vars, loop_vars
  <2>. QED  BY <2>1, <2>2
<1>5. UNCHANGED step \/ \E x : step' = [step EXCEPT ![v] = x]
  <2>1. CASE LeaderStep(v) \/ CallFails(v)
    BY <2>1 DEF LeaderStep, MakeCall,
     RefreshStatuses, UnassignWaiting, AnnounceCandidacy, CheckCandidacy,
     CheckCandidacyFails, EndPass, ConfirmLeadership, AssignUnassigned, Rebalance,
     CallFails
  <2>2. CASE RebalanceDue(v) \/ WorkerStep(v) \/ (Disruption(v) /\ ~CallFails(v))
    BY <2>2
    DEF RebalanceDue, WorkerStep, Disruption,
     Start, Register, Ping, Recover, Close, Exit, ReadMessages, Crash,
     ReleaseLeadership, Disable, Enable, RequestFails, Delete,
     ProcessEnds, leader_vars, loop_vars
  <2>. QED  BY <2>1, <2>2
<1>. QED  BY <1>1, <1>2, <1>3, <1>4, <1>5 DEF LeaderTypeOK

LEMMA StepsMakeNoLeader ==
  ASSUME LeaderInv, NEW w \in Worker, LeaderNext,
         ~CheckCandidacy(w), ~RequestFails(w), IsRecorded(w)'
  PROVE  IsRecorded(w)
<1>0. WorkersInv
  BY DEF LeaderInv, RecordsInv
<1>1. ASSUME NEW v \in Worker, MakeCall(v) \/ CallFails(v)
      PROVE  IsRecorded(w)
  <2>1. PICK c \in calls[v] : Perform(c) \/ UNCHANGED storage_vars
    BY <1>1 DEF MakeCall, CallFails
  <2>2. GoodCall(c)
    BY DEF LeaderInv, LoopsInv
  <2>3. CASE Perform(c)
    BY <1>0, <2>2, <2>3, PerformMakesNoLeader
  <2>4. CASE UNCHANGED storage_vars
    BY <1>0, <2>4, NoNewLeader DEF storage_vars
  <2>. QED  BY <2>1, <2>3, <2>4
<1>2. ASSUME NEW v \in Worker,
             \/ RefreshStatuses(v) \/ UnassignWaiting(v) \/ ConfirmLeadership(v)
             \/ AssignUnassigned(v) \/ Rebalance(v) \/ RebalanceDue(v) \/ EndPass(v)
      PROVE  IsRecorded(w)
  <2>1. GetWorkerStatus \/ GetTopologyStatus \/ UNCHANGED workers
    BY <1>2 DEF RefreshStatuses, UnassignWaiting, ConfirmLeadership,
       AssignUnassigned, Rebalance, RebalanceDue, EndPass, storage_vars
  <2>. QED  BY <1>0, <2>1, NoNewLeader
<1>3. ASSUME NEW v \in Worker,
             \/ AnnounceCandidacy(v) \/ CheckCandidacy(v)
             \/ CheckCandidacyFails(v) \/ RequestFails(v)
      PROVE  IsRecorded(w)
  <2>1. \/ UNCHANGED workers \/ AnnounceLeaderCandidacy(v)
        \/ CheckLeaderCandidacy(v) /\ v # w
        \/ CheckLeaderCandidacyFails(v)
    BY <1>3 DEF AnnounceCandidacy, CheckCandidacy, CheckCandidacyFails,
       RequestFails, storage_vars
  <2>. QED  BY <1>0, <2>1, NoNewLeader
<1>4. ASSUME NEW v \in Worker, WorkerStep(v)
      PROVE  IsRecorded(w)
  <2>1. \/ UNCHANGED workers \/ RegisterWorker(v) \/ workers' = Pinged(v)
        \/ \E status \in WorkerStatus : SetWorkerStatus(v, status)
    BY <1>4 DEF WorkerStep, Start, Register, Ping, Recover, Close, Exit,
       ReadMessages, GetMessage, GetNoMessage, PingWorker, storage_vars, WorkerStatus
  <2>. QED  BY <1>0, <2>1, NoNewLeader
<1>5. ASSUME NEW v \in Worker,
             \/ Crash(v) \/ ReleaseLeadership(v) \/ Disable(v) \/ Enable(v)
             \/ Delete(v)
      PROVE  IsRecorded(w)
  <2>1. \/ UNCHANGED workers \/ DeleteWorker(v)
        \/ \E status \in WorkerStatus : SetWorkerStatus(v, status)
        \/ SetWorkerLStatus(v, "normal")
    BY <1>5 DEF Crash, ReleaseLeadership, Disable, Enable, Delete, storage_vars,
       WorkerStatus
  <2>. QED  BY <1>0, <2>1, NoNewLeader
<1>6. ASSUME NEW v \in Worker, NEW t \in Topology, NEW status \in Reported,
             Report(v, t, status)
      PROVE  IsRecorded(w)
  BY <1>0, <1>6, NoNewLeader DEF Report, SetTopologyStatus
<1>7. ASSUME NEW t \in Topology, ClearStep(t) \/ Client(t)
      PROVE  IsRecorded(w)
  <2>1. UNCHANGED workers \/ GetWorkerStatus
    BY <1>7 DEF ClearStep, ClearReadsTopology, ClearReadsWorkers, ClearSetsStatus,
       ClearSendsMessage, Client, storage_vars, AssignTopology, SetTopologyStatus,
       SendMessageToWorker, RegisterTopology, EnableTopology, DisableTopology,
       SetEnabled
  <2>. QED  BY <1>0, <2>1, NoNewLeader
<1>8. CASE TimePasses
  BY <1>0, <1>8, NoNewLeader DEF TimePasses, Tick
<1>. QED  BY <1>1, <1>2, <1>3, <1>4, <1>5, <1>6, <1>7, <1>8
  DEF LeaderNext, LeaderStep, Disruption

\* What the loop of w itself does.
LEMMA OwnLoopServes ==
  ASSUME LeaderInv, LeaderTypeOK, NEW w \in Worker, ServesOrReleases(w), LeaderNext,
         LeaderStep(w) \/ CallFails(w) \/ RequestFails(w)
  PROVE  ServesOrReleases(w)'
<1>. DEFINE normal == ACall("normal", w, {})
<1>1. ~CheckCandidacy(w) /\ ~RequestFails(w) => (IsRecorded(w)' => IsRecorded(w))
  BY StepsMakeNoLeader
<1>2. /\ is_leader \in [Worker -> BOOLEAN] /\ is_running \in [Worker -> BOOLEAN]
      /\ calls \in [Worker -> SUBSET Call]
  BY DEF LeaderTypeOK
<1>3. CASE MakeCall(w) /\ ~CheckCandidacy(w) /\ ~RequestFails(w)
  <2>1. PICK c \in calls[w] :
          /\ Perform(c)
          /\ calls' = [calls EXCEPT ![w] = (@ \ {c}) \cup
               IF c.op = "list"
               THEN HandleDeadWorker(c.worker, TopologiesOf(c.worker)', topologies')
               ELSE {}]
    BY <1>3 DEF MakeCall
  <2>2. UNCHANGED <<up, is_leader, is_running>>
    BY <1>3 DEF MakeCall
  <2>3. CASE c = normal
    <3>1. SetWorkerLStatus(w, "normal")
      BY <2>1, <2>3 DEF Perform, ACall
    <3>2. ~IsRecorded(w)'
      <4>1. \A v \in DOMAIN workers : workers[v] \in WorkerRec
        BY DEF LeaderInv, RecordsInv, WorkersInv
      <4>2. w \in DOMAIN workers' =>
              w \in DOMAIN workers /\ workers'[w] = [workers[w] EXCEPT !.lstatus = "normal"]
        BY <3>1 DEF SetWorkerLStatus
      <4>3. w \in DOMAIN workers' => workers'[w].lstatus = "normal"
        BY <4>1, <4>2 DEF WorkerRec
      <4>. QED  BY <4>3 DEF IsRecorded
    <3>. QED  BY <3>2 DEF ServesOrReleases
  <2>4. CASE c # normal
    <3>1. normal \in calls[w] => normal \in calls'[w]
      <4>. DEFINE H == IF c.op = "list"
               THEN HandleDeadWorker(c.worker, TopologiesOf(c.worker)', topologies')
               ELSE {}
      <4>1. calls'[w] = (calls[w] \ {c}) \cup H
        BY <1>2, <2>1
      <4>. HIDE DEF H, normal
      <4>. QED  BY <2>4, <4>1
    <3>. QED  BY <1>1, <1>3, <2>2, <3>1, KeepsServing
  <2>. QED  BY <2>3, <2>4
<1>4. CASE CallFails(w) /\ ~CheckCandidacy(w) /\ ~RequestFails(w)
  <2>1. PICK c \in calls[w] :
          \/ /\ c.op = "list"
             /\ calls' = [calls EXCEPT ![w] = (@ \ {c}) \cup
                            HandleDeadWorker(c.worker, {}, topologies)]
             /\ UNCHANGED is_running
          \/ is_running' = [is_running EXCEPT ![w] = FALSE]
    BY <1>4 DEF CallFails
  <2>2. UNCHANGED <<up, is_leader>>
    BY <1>4 DEF CallFails
  <2>3. CASE /\ c.op = "list"
             /\ calls' = [calls EXCEPT ![w] = (@ \ {c}) \cup
                            HandleDeadWorker(c.worker, {}, topologies)]
             /\ UNCHANGED is_running
    <3>1. normal.op = "normal"
      BY DEF ACall
    <3>2. normal \in calls[w] => normal \in calls'[w]
      <4>. DEFINE H == HandleDeadWorker(c.worker, {}, topologies)
      <4>1. calls'[w] = (calls[w] \ {c}) \cup H
        BY <1>2, <2>3
      <4>2. c # normal
        BY <2>3, <3>1
      <4>. HIDE DEF H, normal
      <4>. QED  BY <4>1, <4>2
    <3>. QED  BY <1>1, <1>4, <2>2, <2>3, <3>2, KeepsServing
  <2>4. CASE is_running' = [is_running EXCEPT ![w] = FALSE]
    <3>1. ~is_running'[w]
      BY <1>2, <2>4
    <3>. QED  BY <3>1 DEF ServesOrReleases
  <2>. QED  BY <2>1, <2>3, <2>4
<1>5. CASE /\ ~CheckCandidacy(w) /\ ~RequestFails(w)
           /\ \/ RefreshStatuses(w) \/ UnassignWaiting(w) \/ AssignUnassigned(w)
              \/ Rebalance(w)
  <2>1. calls[w] = {} /\ UNCHANGED <<up, is_leader, is_running>>
    BY <1>5 DEF RefreshStatuses, UnassignWaiting, AssignUnassigned, Rebalance, At
  <2>2. normal \in calls[w] => normal \in calls'[w]
    BY <2>1
  <2>. QED  BY <1>1, <1>5, <2>1, <2>2, KeepsServing
<1>6. CASE ~CheckCandidacy(w) /\ ~RequestFails(w) /\ (AnnounceCandidacy(w) \/ EndPass(w))
  <2>1. UNCHANGED <<up, is_leader, is_running, calls>>
    BY <1>6 DEF AnnounceCandidacy, EndPass
  <2>. QED  BY <1>1, <1>6, <2>1, KeepsServing
<1>7. CASE CheckCandidacy(w)
  <2>1. CheckLeaderCandidacy(w)
        /\ is_leader' = [is_leader EXCEPT ![w] = workers'[w].lstatus = "leader"]
    BY <1>7 DEF CheckCandidacy
  <2>2. IsRecorded(w)' => is_leader'[w]
    BY <1>2, <2>1, Zenon DEF IsRecorded
  <2>. QED  BY <2>2 DEF ServesOrReleases
<1>8. CASE CheckCandidacyFails(w) \/ RequestFails(w)
  <2>1. is_running' = [is_running EXCEPT ![w] = FALSE]
    BY <1>8 DEF CheckCandidacyFails, RequestFails
  <2>2. ~is_running'[w]
    BY <1>2, <2>1
  <2>. QED  BY <2>2 DEF ServesOrReleases
<1>9. CASE ConfirmLeadership(w)
  <2>. DEFINE serves == IsRecorded(w)' /\ Alive(w)'
  <2>1. /\ is_leader' = [is_leader EXCEPT ![w] = serves]
        /\ calls' = [calls EXCEPT ![w] =
              CASE serves -> {ACall("list", v, {}) : v \in DeadWorkers'}
                [] IsRecorded(w)' /\ ~serves -> Release(w)
                [] OTHER -> {}]
    BY <1>9 DEF ConfirmLeadership
  <2>2. CASE serves
    <3>1. is_leader'[w] = serves
      BY <1>2, <2>1
    <3>. QED  BY <2>2, <3>1 DEF ServesOrReleases
  <2>3. CASE IsRecorded(w)' /\ ~serves
    <3>1. calls'[w] = Release(w)
      BY <1>2, <2>1, <2>3
    <3>. QED  BY <3>1 DEF ServesOrReleases, Release
  <2>4. CASE ~IsRecorded(w)'
    BY <2>4 DEF ServesOrReleases
  <2>. QED  BY <2>2, <2>3, <2>4
<1>. QED  BY <1>3, <1>4, <1>5, <1>6, <1>7, <1>8, <1>9 DEF LeaderStep

\* What the rest of the worker does, and its process.
LEMMA OwnWorkerServes ==
  ASSUME LeaderInv, LeaderTypeOK, NEW w \in Worker, ServesOrReleases(w),
         LeaderNext, ~CheckCandidacy(w), ~RequestFails(w), ~CallFails(w),
         RebalanceDue(w) \/ WorkerStep(w) \/ Disruption(w)
  PROVE  ServesOrReleases(w)'
<1>1. IsRecorded(w)' => IsRecorded(w)
  BY StepsMakeNoLeader
<1>2. up \in [Worker -> Life] /\ is_running \in [Worker -> BOOLEAN]
  BY DEF LeaderTypeOK
<1>3. CASE Crash(w) \/ Exit(w) \/ Start(w) \/ Close(w)
  <2>1. \E x \in {"down", "starting", "closing"} : up' = [up EXCEPT ![w] = x]
    BY <1>3 DEF Crash, Exit, Start, Close, ProcessEnds
  <2>2. up'[w] # "up"
    BY <1>2, <2>1
  <2>. QED  BY <2>2 DEF ServesOrReleases
<1>4. CASE Register(w)
  <2>1. RegisterWorker(w)
    BY <1>4 DEF Register
  <2>2. workers'[w] = [age |-> 0, status |-> "alive", lstatus |-> "normal"]
    BY <2>1 DEF RegisterWorker
  <2>3. ~IsRecorded(w)'
    BY <2>2 DEF IsRecorded
  <2>. QED  BY <2>3 DEF ServesOrReleases
<1>5. CASE \/ Ping(w) \/ Recover(w) \/ ReadMessages(w) \/ ReleaseLeadership(w)
           \/ Disable(w) \/ Enable(w) \/ Delete(w) \/ RebalanceDue(w)
  <2>1. UNCHANGED <<up, is_leader, is_running, calls>>
    BY <1>5 DEF Ping, Recover, ReadMessages, ReleaseLeadership, Disable, Enable,
       Delete, RebalanceDue, leader_vars, loop_vars
  <2>. QED  BY <1>1, <2>1, KeepsServing
<1>. QED  BY <1>3, <1>4, <1>5 DEF WorkerStep, Disruption

LEMMA ServiceStep ==
  ASSUME LeaderInv, LeaderTypeOK, NEW w \in Worker, ServesOrReleases(w), LeaderNext
  PROVE  ServesOrReleases(w)'
<1>1. ASSUME NEW v \in Worker, v # w,
             LeaderStep(v) \/ RebalanceDue(v) \/ WorkerStep(v) \/ Disruption(v),
             ~CheckCandidacy(w), ~RequestFails(w)
      PROVE  ServesOrReleases(w)'
  <2>1. IsRecorded(w)' => IsRecorded(w)
    BY <1>1, StepsMakeNoLeader
  <2>. QED  BY <1>1, <2>1, OtherLoops, KeepsServing
<1>2. CASE /\ ~CheckCandidacy(w) /\ ~RequestFails(w)
           /\ \/ \E v \in Worker, t \in Topology, status \in Reported : Report(v, t, status)
              \/ \E t \in Topology : ClearStep(t) \/ Client(t)
              \/ TimePasses
  <2>1. IsRecorded(w)' => IsRecorded(w)
    BY <1>2, StepsMakeNoLeader
  <2>2. UNCHANGED <<up, is_leader, is_running, calls>>
    BY <1>2 DEF Report, ClearStep, ClearReadsTopology, ClearReadsWorkers,
       ClearSetsStatus, ClearSendsMessage, Client, TimePasses, leader_vars, loop_vars
  <2>. QED  BY <2>1, <2>2, KeepsServing
<1>3. CASE LeaderStep(w) \/ CallFails(w) \/ RequestFails(w)
  BY <1>3, OwnLoopServes
<1>4. CASE /\ RebalanceDue(w) \/ WorkerStep(w) \/ Disruption(w)
           /\ ~CheckCandidacy(w) /\ ~RequestFails(w) /\ ~CallFails(w)
  BY <1>4, OwnWorkerServes
<1>5. CASE CheckCandidacy(w)
  BY <1>3, <1>5 DEF LeaderStep
<1>. QED  BY <1>1, <1>2, <1>3, <1>4, <1>5 DEF LeaderNext

\* A registered worker that is recorded as leader, and was not told to stop,
\* serves or is about to give the record up, whichever of its requests fail,
\* whatever others do to its record and however often it comes back.
THEOREM RecordedLeadersServe == LeaderSpec => []RecordedLeaderServes
<1>. DEFINE Inv == \A w \in Worker : ServesOrReleases(w)
<1>1. LeaderInit => Inv
  <2>1. LeaderInit => \A w \in Worker : ~IsRecorded(w)
    BY DEF LeaderInit, StorageInit, Nothing, IsRecorded
  <2>. QED  BY <2>1 DEF ServesOrReleases
<1>2. LeaderInv /\ LoopTypes /\ Inv /\ [LeaderNext]_vars => Inv'
  <2>. SUFFICES ASSUME LeaderInv, LoopTypes, Inv, [LeaderNext]_vars, NEW w \in Worker
                PROVE  ServesOrReleases(w)'
    OBVIOUS
  <2>1. LeaderTypeOK /\ ServesOrReleases(w)
    BY DEF LoopTypes
  <2>2. CASE LeaderNext
    BY <2>1, <2>2, ServiceStep
  <2>3. CASE UNCHANGED vars
    BY <2>1, <2>3
    DEF vars, storage_vars, leader_vars, loop_vars, ServesOrReleases, IsRecorded
  <2>. QED  BY <2>2, <2>3
<1>3. LeaderInv /\ Inv => RecordedLeaderServes
  <2>1. LeaderInv => DOMAIN workers \subseteq Worker
    BY DEF LeaderInv, RecordsInv, WorkersInv
  <2>. QED  BY <2>1 DEF RecordedLeaderServes, ServesOrReleases, IsRecorded
<1>. HIDE DEF Inv
<1>. QED  BY <1>1, <1>2, <1>3, LeaderInvariant, LoopTypesInvariant, PTL DEF LeaderSpec

---------------------------------------------------------------------------
(* While nothing goes wrong, all workers that are registered are alive and *)
(* ping in time, and only the recorded leader assigns topologies: its      *)
(* assignments and the messages about them fit each other.  Operators that *)
(* clear errors would interfere, and so would a leader that the first      *)
(* second of silence deposes.                                              *)

Leads(w) == step[w] \in {"dead", "assign"}

QuietWorker(w) ==
  /\ up[w] \in {"down", "starting", "up"}
  /\ up[w] # "up" =>
       /\ w \notin DOMAIN workers
       /\ calls[w] = {} /\ step[w] \in {"stopped", "sleep"}
  /\ up[w] # "down" => step[w] # "stopped" /\ is_running[w]
  /\ up[w] = "up" =>
       /\ w \in DOMAIN workers
       /\ workers[w].status = "alive" /\ workers[w].age \in {0, 1}
  /\ Leads(w) => IsRecorded(w)

\* A message about a topology only follows its assignment to the same worker.
QuietCall(w, c) ==
  /\ c.op \in {"unassign", "assign", "start", "stop"}
  /\ c.op \in {"assign", "start"} => step[w] = "assign"
  /\ c.op = "start" =>
       \A t \in c.topologies :
         /\ t \in DOMAIN topologies
         /\ \/ topologies[t].worker \in {c.worker, NoWorker}
            \/ ACall("assign", c.worker, {t}) \in calls[w]
  /\ c.op = "assign" =>
       \E t \in Topology :
         /\ c.topologies = {t}
         /\ \A d \in calls[w] : d.op = "start" /\ t \in d.topologies => d.worker = c.worker

QuietWorkers == \A w \in Worker : QuietWorker(w)
QuietCalls == \A w \in Worker : \A c \in calls[w] : QuietCall(w, c)
NobodyClears == \A t \in Topology : clearing[t].step = "idle"
Quiet == QuietWorkers /\ QuietCalls /\ NobodyClears

\* A step leaves the record of w as good as it was.
RecordStays(w) ==
  /\ w \in DOMAIN workers' <=> w \in DOMAIN workers
  /\ w \in DOMAIN workers =>
       workers'[w].status = "alive" /\ workers'[w].age \in {0, 1}
  /\ Leads(w) /\ IsRecorded(w) => IsRecorded(w)'

LEMMA RegisteredAreUp ==
  ASSUME QuietWorkers, WorkersInv, NEW w \in DOMAIN workers
  PROVE  /\ w \in Worker /\ up[w] = "up" /\ workers[w] \in WorkerRec
         /\ workers[w].status = "alive" /\ workers[w].age \in {0, 1}
BY DEF QuietWorkers, QuietWorker, WorkersInv

LEMMA SameRecordStays ==
  ASSUME QuietWorkers, WorkersInv, NEW w \in Worker,
         w \in DOMAIN workers' <=> w \in DOMAIN workers,
         w \in DOMAIN workers => workers'[w] = workers[w]
  PROVE  RecordStays(w)
BY RegisteredAreUp DEF RecordStays, IsRecorded

LEMMA NobodyIsDefunct ==
  ASSUME QuietWorkers, WorkersInv, LeaderTimeout # 0
  PROVE  DefunctWorkers = {} /\ DefunctLeaders = {}
<1>1. LeaderTimeout >= 1 /\ WorkerTimeout >= 1 /\ LeaderTimeout \in Nat /\ WorkerTimeout \in Nat
  BY TimeoutsAreOrdered
<1>2. \A w \in DOMAIN workers : ~(workers[w].age > WorkerTimeout) /\ ~(workers[w].age > LeaderTimeout)
  BY <1>1, RegisteredAreUp
<1>. QED  BY <1>2 DEF DefunctWorkers, DefunctLeaders

LEMMA ReadsStay ==
  ASSUME QuietWorkers, WorkersInv, LeaderTimeout # 0, NEW w \in Worker,
         \/ UNCHANGED workers
         \/ GetWorkerStatus \/ GetTopologyStatus \/ GetTopologiesForWorker
  PROVE  RecordStays(w)
<1>1. CASE UNCHANGED workers \/ GetTopologiesForWorker
  BY <1>1, SameRecordStays DEF GetTopologiesForWorker
<1>2. CASE GetWorkerStatus \/ GetTopologyStatus
  <2>1. workers' = [v \in DOMAIN workers |->
          IF v \in DefunctWorkers THEN [workers[v] EXCEPT !.status = "dead"]
                                  ELSE workers[v]]
    BY <1>2 DEF GetWorkerStatus, GetTopologyStatus, DisableDefunctWorkers
  <2>2. DefunctWorkers = {}
    BY NobodyIsDefunct
  <2>3. DOMAIN workers' = DOMAIN workers /\ \A v \in DOMAIN workers : workers'[v] = workers[v]
    BY <2>1, <2>2
  <2>. QED  BY <2>3, SameRecordStays
<1>. QED  BY <1>1, <1>2

LEMMA PingsStay ==
  ASSUME QuietWorkers, WorkersInv, NEW w \in Worker,
         NEW n \in Worker, workers' = Pinged(n)
  PROVE  RecordStays(w)
<1>1. CASE w # n \/ w \notin DOMAIN workers
  BY <1>1, SameRecordStays DEF Pinged
<1>2. CASE w = n /\ w \in DOMAIN workers
  <2>1. workers'[w] = [workers[w] EXCEPT !.age = 0] /\ w \in DOMAIN workers'
    BY <1>2 DEF Pinged
  <2>2. /\ workers'[w].age = 0 /\ workers'[w].status = workers[w].status
        /\ workers'[w].lstatus = workers[w].lstatus
    BY <1>2, <2>1, RegisteredAreUp DEF WorkerRec
  <2>. QED  BY <1>2, <2>1, <2>2, RegisteredAreUp DEF RecordStays, IsRecorded
<1>. QED  BY <1>1, <1>2

LEMMA TimeStays ==
  ASSUME QuietWorkers, WorkersInv, NEW w \in Worker, workers' = AgeWorkers,
         \A v \in DOMAIN workers : Pings(v) => workers[v].age = 0
  PROVE  RecordStays(w)
<1>1. CASE w \notin DOMAIN workers
  BY <1>1, SameRecordStays DEF AgeWorkers
<1>2. CASE w \in DOMAIN workers
  <2>1. workers[w].age = 0 /\ workers[w] \in WorkerRec /\ workers[w].status = "alive"
    BY <1>2, RegisteredAreUp DEF Pings
  <2>2. workers'[w] = [workers[w] EXCEPT !.age = Older(0)] /\ w \in DOMAIN workers'
    BY <1>2, <2>1 DEF AgeWorkers
  <2>3. Older(0) \in {0, 1}
    BY TimeoutsAreOrdered DEF Older
  <2>4. /\ workers'[w].age = Older(0) /\ workers'[w].status = "alive"
        /\ workers'[w].lstatus = workers[w].lstatus
    BY <2>1, <2>2 DEF WorkerRec
  <2>. QED  BY <1>2, <2>2, <2>3, <2>4 DEF RecordStays, IsRecorded
<1>. QED  BY <1>1, <1>2

\* Nobody takes part in an election against a leader that pings.
LEMMA ElectionsStay ==
  ASSUME QuietWorkers, WorkersInv, LeaderTimeout # 0, NEW w \in Worker,
         NEW n \in Worker, ~Leads(n),
         AnnounceLeaderCandidacy(n) \/ CheckLeaderCandidacy(n)
  PROVE  RecordStays(w)
<1>. DEFINE ws == LeadersDisabled
<1>1. DOMAIN ws = DOMAIN workers /\ \A v \in DOMAIN workers : ws[v] = workers[v]
  BY NobodyIsDefunct DEF LeadersDisabled
<1>2. \A v \in DOMAIN workers : ws[v] \in WorkerRec
  BY <1>1 DEF WorkersInv
<1>3. Leads(w) /\ IsRecorded(w) => w \in OtherLeaders(n, ws)
  BY <1>1 DEF OtherLeaders, Leaders, IsRecorded, Leads
<1>4. CASE AnnounceLeaderCandidacy(n)
  <2>. DEFINE announced == IF MayAnnounce(n, ws) THEN {n} \cap DOMAIN ws ELSE {}
  <2>1. workers' = [v \in DOMAIN ws |->
          IF v \in announced THEN [ws[v] EXCEPT !.lstatus = "candidate"] ELSE ws[v]]
    BY <1>4 DEF AnnounceLeaderCandidacy
  <2>2. Leads(w) /\ IsRecorded(w) => announced = {}
    BY <1>3 DEF MayAnnounce
  <2>. HIDE DEF announced, ws
  <2>3. DOMAIN workers' = DOMAIN workers
    BY <1>1, <2>1
  <2>4. ASSUME w \in DOMAIN workers
        PROVE  /\ workers'[w].status = workers[w].status
               /\ workers'[w].age = workers[w].age
    <3>1. CASE w \in announced
      <4>1. workers'[w] = [ws[w] EXCEPT !.lstatus = "candidate"]
        BY <1>1, <2>1, <2>4, <3>1
      <4>. QED  BY <1>1, <1>2, <2>4, <4>1 DEF WorkerRec
    <3>2. CASE w \notin announced
      BY <1>1, <2>1, <2>4, <3>2
    <3>. QED  BY <3>1, <3>2
  <2>5. Leads(w) /\ IsRecorded(w) => IsRecorded(w)'
    BY <1>1, <2>1, <2>2 DEF IsRecorded
  <2>. QED  BY <2>3, <2>4, <2>5, RegisteredAreUp DEF RecordStays
<1>5. CASE CheckLeaderCandidacy(n)
  <2>1. workers' = [v \in DOMAIN ws |->
          [ws[v] EXCEPT !.lstatus = LStatusAfterCheck(n, ws, v)]]
    BY <1>5 DEF CheckLeaderCandidacy
  <2>2. Leads(w) /\ IsRecorded(w) => LStatusAfterCheck(n, ws, w) = ws[w].lstatus
    <3>1. SUFFICES ASSUME Leads(w), IsRecorded(w)
                   PROVE  LStatusAfterCheck(n, ws, w) = ws[w].lstatus
      OBVIOUS
    <3>2. ~Elects(n, ws) /\ w # n
      BY <1>3, <3>1 DEF Elects, OtherLeaders
    <3>. QED  BY <3>2 DEF LStatusAfterCheck
  <2>. DEFINE ls == LStatusAfterCheck(n, ws, w)
  <2>3. w \in DOMAIN ws => workers'[w] = [ws[w] EXCEPT !.lstatus = ls]
    BY <2>1
  <2>4. DOMAIN workers' = DOMAIN ws
    BY <2>1
  <2>5. w \in DOMAIN ws =>
          /\ workers'[w].status = ws[w].status /\ workers'[w].age = ws[w].age
          /\ workers'[w].lstatus = ls
    <3>. HIDE DEF ls, ws
    <3>. QED  BY <1>1, <1>2, <2>3 DEF WorkerRec
  <2>6. Leads(w) /\ IsRecorded(w) => IsRecorded(w)'
    <3>. HIDE DEF ws
    <3>. QED  BY <1>1, <2>2, <2>4, <2>5 DEF IsRecorded
  <2>. QED  BY <1>1, <2>4, <2>5, <2>6, RegisteredAreUp DEF RecordStays
<1>. QED  BY <1>4, <1>5

LEMMA EnabledStays ==
  ASSUME QuietWorkers, WorkersInv, NEW w \in Worker,
         NEW n \in Worker, SetWorkerStatus(n, "alive")
  PROVE  RecordStays(w)
<1>1. CASE w # n \/ w \notin DOMAIN workers
  BY <1>1, SameRecordStays DEF SetWorkerStatus
<1>2. CASE w = n /\ w \in DOMAIN workers
  <2>1. workers'[w] = [workers[w] EXCEPT !.status = "alive"] /\ w \in DOMAIN workers'
    BY <1>2 DEF SetWorkerStatus
  <2>2. /\ workers'[w].age = workers[w].age /\ workers'[w].status = "alive"
        /\ workers'[w].lstatus = workers[w].lstatus
    BY <1>2, <2>1, RegisteredAreUp DEF WorkerRec
  <2>. QED  BY <1>2, <2>1, <2>2, RegisteredAreUp DEF RecordStays, IsRecorded
<1>. QED  BY <1>1, <1>2

\* A step while nothing has gone wrong, and nothing goes wrong by it.
QuietStep ==
  /\ Quiet /\ LeaderInv /\ LoopTypes
  /\ LeaderNext
  /\ disruptions = 0 /\ disruptions' = 0
  /\ LeaderTimeout # 0 /\ Clearable = {}

LEMMA NothingDisrupts ==
  ASSUME QuietStep, NEW kind, Disrupts(kind)
  PROVE  FALSE
BY DEF QuietStep, Disrupts

\* What cannot happen meanwhile.
LEMMA QuietExcludes ==
  ASSUME QuietStep, NEW v \in Worker
  PROVE  /\ ~CallFails(v) /\ ~RequestFails(v) /\ ~Crash(v) /\ ~ReleaseLeadership(v)
         /\ ~Disable(v) /\ ~Recover(v) /\ ~Close(v) /\ ~Exit(v) /\ ~Delete(v)
         /\ ~CheckCandidacyFails(v)
         /\ \A t \in Topology : ~ClearStep(t)
<1>1. QuietWorker(v)
  BY DEF QuietStep, Quiet, QuietWorkers
<1>2. /\ ~CallFails(v) /\ ~RequestFails(v) /\ ~Crash(v) /\ ~ReleaseLeadership(v)
      /\ ~Disable(v)
  BY NothingDisrupts DEF CallFails, RequestFails, Crash, ReleaseLeadership, Disable
<1>3. ~Recover(v)
  BY <1>1 DEF Recover, Pings, QuietWorker
<1>4. ~Close(v)
  BY <1>1, NothingDisrupts DEF Close, QuietWorker
<1>5. ~Exit(v) /\ ~CheckCandidacyFails(v)
  BY <1>1
  DEF Exit, CheckCandidacyFails, CheckLeaderCandidacyFails, At, Loops, QuietWorker
<1>6. ~Delete(v)
  BY RegisteredAreUp
  DEF Delete, DeleteWorker, QuietStep, Quiet, LeaderInv, RecordsInv
<1>7. \A t \in Topology : ~ClearStep(t)
  BY DEF QuietStep, Quiet, NobodyClears, ClearStep, ClearReadsTopology,
     ClearReadsWorkers, ClearSetsStatus, ClearSendsMessage
<1>. QED  BY <1>2, <1>3, <1>4, <1>5, <1>6, <1>7

LEMMA CallsLeaveWorkers ==
  ASSUME QuietStep, NEW v \in Worker, MakeCall(v)
  PROVE  UNCHANGED workers
<1>1. PICK c \in calls[v] : Perform(c)
  BY DEF MakeCall
<1>2. c.op \in {"unassign", "assign", "start", "stop"}
  BY DEF QuietStep, Quiet, QuietCalls, QuietCall
<1>3. CASE c.op = "unassign"
  BY <1>1, <1>3 DEF Perform, SetTopologyStatus
<1>4. CASE c.op = "assign"
  BY <1>1, <1>4 DEF Perform, AssignTopology
<1>5. CASE c.op \in {"start", "stop"}
  BY <1>1, <1>5 DEF Perform, SendMessageToWorker
<1>. QED  BY <1>2, <1>3, <1>4, <1>5

LEMMA RecordsStay ==
  ASSUME QuietStep, NEW w \in Worker, ~Register(w)
  PROVE  RecordStays(w)
<1>0. WorkersInv /\ QuietWorkers /\ LeaderTimeout # 0
  BY DEF QuietStep, LeaderInv, RecordsInv, Quiet
<1>1. ASSUME NEW v \in Worker, MakeCall(v)
      PROVE  RecordStays(w)
  BY <1>0, <1>1, CallsLeaveWorkers, ReadsStay
<1>2. ASSUME NEW v \in Worker,
             \/ RefreshStatuses(v) \/ UnassignWaiting(v) \/ ConfirmLeadership(v)
             \/ AssignUnassigned(v) \/ Rebalance(v) \/ RebalanceDue(v) \/ EndPass(v)
      PROVE  RecordStays(w)
  <2>1. GetWorkerStatus \/ GetTopologyStatus \/ UNCHANGED workers
    BY <1>2 DEF RefreshStatuses, UnassignWaiting, ConfirmLeadership,
       AssignUnassigned, Rebalance, RebalanceDue, EndPass, storage_vars
  <2>. QED  BY <1>0, <2>1, ReadsStay
<1>3. ASSUME NEW v \in Worker, AnnounceCandidacy(v) \/ CheckCandidacy(v)
      PROVE  RecordStays(w)
  <2>1. ~Leads(v) /\ (AnnounceLeaderCandidacy(v) \/ CheckLeaderCandidacy(v))
    BY <1>3 DEF AnnounceCandidacy, CheckCandidacy, At, Leads
  <2>. QED  BY <1>0, <2>1, ElectionsStay
<1>4. ASSUME NEW v \in Worker, WorkerStep(v)
      PROVE  RecordStays(w)
  <2>1. Start(v) \/ Register(v) \/ Ping(v) \/ ReadMessages(v)
    BY <1>4, QuietExcludes DEF WorkerStep
  <2>2. CASE Start(v)
    BY <1>0, <2>2, ReadsStay DEF Start, storage_vars
  <2>3. CASE Register(v)
    <3>1. v # w /\ RegisterWorker(v)
      BY <2>3 DEF Register
    <3>2. /\ w \in DOMAIN workers' <=> w \in DOMAIN workers
          /\ w \in DOMAIN workers => workers'[w] = workers[w]
      BY <3>1 DEF RegisterWorker
    <3>. QED  BY <1>0, <3>2, SameRecordStays
  <2>4. CASE Ping(v) \/ ReadMessages(v)
    <3>1. workers' = Pinged(v)
      BY <2>4 DEF Ping, PingWorker, ReadMessages, GetMessage, GetNoMessage
    <3>. QED  BY <1>0, <3>1, PingsStay
  <2>. QED  BY <2>1, <2>2, <2>3, <2>4
<1>5. ASSUME NEW v \in Worker, Disruption(v)
      PROVE  RecordStays(w)
  <2>1. SetWorkerStatus(v, "alive")
    BY <1>5, QuietExcludes DEF Disruption, Enable
  <2>. QED  BY <1>0, <2>1, EnabledStays
<1>6. ASSUME NEW v \in Worker, NEW t \in Topology, NEW status \in Reported,
             Report(v, t, status)
      PROVE  RecordStays(w)
  BY <1>0, <1>6, ReadsStay DEF Report, SetTopologyStatus
<1>7. ASSUME NEW t \in Topology, ClearStep(t) \/ Client(t)
      PROVE  RecordStays(w)
  <2>1. UNCHANGED workers
    BY <1>7, QuietExcludes
    DEF Client, RegisterTopology, EnableTopology, DisableTopology, SetEnabled
  <2>. QED  BY <1>0, <2>1, ReadsStay
<1>8. CASE TimePasses
  <2>1. workers' = AgeWorkers
        /\ \A v \in DOMAIN workers : Pings(v) => workers[v].age = 0
    BY <1>8, NothingDisrupts DEF TimePasses, Tick
  <2>. QED  BY <1>0, <2>1, TimeStays
<1>9. QuietStep => LeaderNext
  BY DEF QuietStep
<1>. QED  BY <1>1, <1>2, <1>3, <1>4, <1>5, <1>6, <1>7, <1>8, <1>9, QuietExcludes
  DEF LeaderNext, LeaderStep

\* Steps of others leave a worker quiet.
LEMMA StaysQuiet ==
  ASSUME NEW w \in Worker, QuietWorker(w), RecordStays(w),
         up'[w] = up[w], step'[w] = step[w], calls'[w] = calls[w],
         is_running[w] => is_running'[w]
  PROVE  QuietWorker(w)'
BY DEF QuietWorker, RecordStays, Leads

\* The loop of a worker that is up goes on.
LEMMA GoesOnQuiet ==
  ASSUME NEW w \in Worker, QuietWorker(w), RecordStays(w), up[w] = "up",
         up'[w] = "up", is_running[w] => is_running'[w], step'[w] # "stopped",
         Leads(w)' => IsRecorded(w)'
  PROVE  QuietWorker(w)'
BY DEF QuietWorker, RecordStays

LEMMA OwnStepQuiet ==
  ASSUME QuietStep, NEW w \in Worker, LeaderStep(w)
  PROVE  QuietWorker(w)'
<1>1. QuietWorker(w) /\ RecordStays(w)
  <2>1. ~Register(w) \/ UNCHANGED <<step, calls>>
    BY DEF Register, loop_vars
  <2>2. CASE ~Register(w)
    BY <2>2, RecordsStay DEF QuietStep, Quiet, QuietWorkers
  <2>3. CASE Register(w)
    <3>1. up[w] = "starting" /\ up' = [up EXCEPT ![w] = "up"]
      BY <2>3 DEF Register
    <3>2. up'[w] = "up" /\ UNCHANGED <<step, calls, seen>>
      BY <3>1, <2>3 DEF Register, loop_vars, QuietStep, LoopTypes, LeaderTypeOK
    <3>3. UNCHANGED up
      BY DEF LeaderStep, MakeCall, RefreshStatuses, UnassignWaiting,
         AnnounceCandidacy, CheckCandidacy, CheckCandidacyFails, EndPass,
         ConfirmLeadership, AssignUnassigned, Rebalance
    <3>. QED  BY <3>1, <3>2, <3>3
  <2>. QED  BY <2>2, <2>3
<1>2. up[w] = "up"
  BY <1>1, NothingDisrupts, QuietExcludes
  DEF LeaderStep, MakeCall, RefreshStatuses, UnassignWaiting, AnnounceCandidacy,
      CheckCandidacy, EndPass, ConfirmLeadership, AssignUnassigned, Rebalance,
      At, Loops, QuietWorker
<1>3. UNCHANGED <<up, is_running>>
  BY QuietExcludes
  DEF LeaderStep, MakeCall, RefreshStatuses, UnassignWaiting, AnnounceCandidacy,
      CheckCandidacy, EndPass, ConfirmLeadership, AssignUnassigned, Rebalance
<1>4. is_running[w] /\ step[w] # "stopped"
  BY <1>1, <1>2 DEF QuietWorker
<1>5. step \in [Worker -> Step]
  BY DEF QuietStep, LoopTypes, LeaderTypeOK
<1>6. CASE MakeCall(w)
  <2>1. UNCHANGED step
    BY <1>6 DEF MakeCall
  <2>. QED  BY <1>1, <1>2, <1>3, <1>4, <2>1, GoesOnQuiet
    DEF Leads, RecordStays, QuietWorker
<1>7. CASE RefreshStatuses(w) \/ UnassignWaiting(w) \/ AnnounceCandidacy(w)
           \/ CheckCandidacy(w) \/ Rebalance(w)
  <2>1. \E x \in {"defunct", "waiting", "announced", "elected", "end"} :
          step' = [step EXCEPT ![w] = x]
    BY <1>7 DEF RefreshStatuses, UnassignWaiting, AnnounceCandidacy, CheckCandidacy,
       Rebalance
  <2>2. step'[w] # "stopped" /\ ~Leads(w)'
    BY <1>5, <2>1 DEF Leads
  <2>. QED  BY <1>1, <1>2, <1>3, <1>4, <2>2, GoesOnQuiet
<1>8. CASE EndPass(w)
  <2>1. step' = [step EXCEPT ![w] = IF is_running[w] THEN "sleep" ELSE "stopped"]
    BY <1>8 DEF EndPass
  <2>2. step'[w] = "sleep"
    BY <1>4, <1>5, <2>1
  <2>3. step'[w] # "stopped" /\ ~Leads(w)'
    BY <2>2 DEF Leads
  <2>. QED  BY <1>1, <1>2, <1>3, <1>4, <2>3, GoesOnQuiet
<1>9. CASE ConfirmLeadership(w)
  <2>. DEFINE serves == IsRecorded(w)' /\ Alive(w)'
  <2>1. step' = [step EXCEPT ![w] = IF serves THEN "dead" ELSE "end"]
    BY <1>9 DEF ConfirmLeadership
  <2>2. step'[w] = IF serves THEN "dead" ELSE "end"
    BY <1>5, <2>1
  <2>3. step'[w] # "stopped" /\ (Leads(w)' => IsRecorded(w)')
    BY <2>2 DEF Leads
  <2>. QED  BY <1>1, <1>2, <1>3, <1>4, <2>3, GoesOnQuiet
<1>10. CASE AssignUnassigned(w)
  <2>1. Leads(w) /\ step' = [step EXCEPT ![w] = "assign"]
    BY <1>10 DEF AssignUnassigned, At, Leads
  <2>2. step'[w] # "stopped" /\ IsRecorded(w)'
    BY <1>1, <1>5, <2>1 DEF QuietWorker, RecordStays
  <2>. QED  BY <1>1, <1>2, <1>3, <1>4, <2>2, GoesOnQuiet
<1>. QED  BY <1>6, <1>7, <1>8, <1>9, <1>10, QuietExcludes DEF LeaderStep

LEMMA QuietWorkersStep ==
  ASSUME QuietStep, NEW w \in Worker
  PROVE  QuietWorker(w)'
<1>1. QuietWorker(w) /\ LeaderTypeOK /\ LeaderNext
  BY DEF QuietStep, Quiet, QuietWorkers, LoopTypes
<1>2. CASE LeaderStep(w)
  BY <1>2, OwnStepQuiet
<1>3. CASE Register(w)
  <2>1. /\ up[w] = "starting" /\ up'[w] = "up"
        /\ RegisterWorker(w) /\ UNCHANGED loop_vars
    BY <1>1, <1>3 DEF Register, LeaderTypeOK
  <2>2. /\ w \in DOMAIN workers'
        /\ workers'[w] = [age |-> 0, status |-> "alive", lstatus |-> "normal"]
    BY <2>1 DEF RegisterWorker
  <2>3. step'[w] = step[w] /\ is_running'[w] = is_running[w]
    BY <2>1 DEF loop_vars
  <2>4. step[w] = "sleep" /\ is_running[w]
    BY <1>1, <2>1 DEF QuietWorker
  <2>. QED  BY <2>1, <2>2, <2>3, <2>4 DEF QuietWorker, Leads
<1>4. CASE Start(w)
  <2>1. /\ up[w] = "down" /\ up'[w] = "starting" /\ step'[w] = "sleep"
        /\ is_running'[w] /\ UNCHANGED <<workers, calls>>
    BY <1>1, <1>4, Zenon DEF Start, LeaderTypeOK, storage_vars
  <2>. QED  BY <1>1, <2>1 DEF QuietWorker, Leads
<1>5. CASE /\ ~Register(w)
           /\ \/ RebalanceDue(w) \/ Ping(w) \/ ReadMessages(w) \/ Enable(w)
              \/ \E v \in Worker, t \in Topology, status \in Reported : Report(v, t, status)
              \/ \E t \in Topology : Client(t)
              \/ TimePasses
  <2>1. UNCHANGED <<up, step, calls, is_running>>
    BY <1>5 DEF RebalanceDue, Ping, ReadMessages, Enable, Report, Client,
       TimePasses, leader_vars, loop_vars
  <2>. QED  BY <1>1, <1>5, <2>1, RecordsStay, StaysQuiet
<1>6. ASSUME NEW v \in Worker, v # w, ~Register(w),
             LeaderStep(v) \/ RebalanceDue(v) \/ WorkerStep(v) \/ Disruption(v)
      PROVE  QuietWorker(w)'
  BY <1>1, <1>6, RecordsStay, OtherLoops, StaysQuiet
<1>. QED  BY <1>1, <1>2, <1>3, <1>4, <1>5, <1>6, QuietExcludes
  DEF LeaderNext, WorkerStep, Disruption

\* No topology is moved to another worker.
PlacesStay ==
  \A t \in DOMAIN topologies :
    /\ t \in DOMAIN topologies'
    /\ topologies'[t].worker \in {topologies[t].worker, NoWorker}

LEMMA PlacesStayIf ==
  ASSUME TopologiesInv,
         \/ UNCHANGED topologies
         \/ GetWorkerStatus \/ GetTopologyStatus \/ GetTopologiesForWorker
         \/ \E t \in Topology : \E w, status : SetTopologyStatus(t, w, status)
         \/ \E t \in Topology : RegisterTopology(t)
         \/ \E t \in Topology : \E enabled : SetEnabled(t, enabled)
         \/ topologies' = AgeTopologies
  PROVE  PlacesStay
<1>1. \A u \in DOMAIN topologies : topologies[u] \in TopologyRec
  BY DEF TopologiesInv
<1>2. CASE UNCHANGED topologies \/ GetWorkerStatus
  BY <1>2 DEF PlacesStay, GetWorkerStatus
<1>3. CASE GetTopologyStatus \/ GetTopologiesForWorker
  <2>. DEFINE T == {t \in DOMAIN topologies : WaitingTooLong(t) \/ OnDeadWorker(t)}
  <2>1. topologies' = [t \in DOMAIN topologies |->
          IF t \in T THEN [topologies[t] EXCEPT !.status = "unassigned",
                                                 !.worker = NoWorker]
                     ELSE topologies[t]]
    BY <1>3 DEF GetTopologyStatus, GetTopologiesForWorker, UnassignWaitingTopologies
  <2>. HIDE DEF T
  <2>. QED  BY <1>1, <2>1 DEF PlacesStay, TopologyRec
<1>4. ASSUME NEW t \in Topology, NEW w, NEW status, SetTopologyStatus(t, w, status)
      PROVE  PlacesStay
  <2>1. CASE ~Accepted(t, w)
    BY <1>4, <2>1 DEF SetTopologyStatus, PlacesStay
  <2>2. CASE Accepted(t, w)
    <3>. DEFINE rec == [topologies[t] EXCEPT !.status = status, !.age = 0]
    <3>1. topologies' = [u \in DOMAIN topologies |-> IF u = t THEN rec ELSE topologies[u]]
      BY <1>4, <2>2 DEF SetTopologyStatus, WithTopology
    <3>2. t \in DOMAIN topologies => rec.worker = topologies[t].worker
      BY <1>1 DEF TopologyRec
    <3>. HIDE DEF rec
    <3>. QED  BY <3>1, <3>2 DEF PlacesStay
  <2>. QED  BY <2>1, <2>2
<1>5. ASSUME NEW t \in Topology, RegisterTopology(t)
      PROVE  PlacesStay
  <2>. DEFINE fresh == [age |-> 0, status |-> "unassigned",
                        worker |-> NoWorker, enabled |-> FALSE]
              again == [topologies[t] EXCEPT !.age = 0]
  <2>1. topologies' = [u \in DOMAIN topologies \cup {t} |->
          IF u # t THEN topologies[u]
          ELSE IF t \in DOMAIN topologies THEN again ELSE fresh]
    BY <1>5 DEF RegisterTopology
  <2>2. t \in DOMAIN topologies => again.worker = topologies[t].worker
    BY <1>1 DEF TopologyRec
  <2>. HIDE DEF fresh, again
  <2>. QED  BY <2>1, <2>2 DEF PlacesStay
<1>6. ASSUME NEW t \in Topology, NEW enabled, SetEnabled(t, enabled)
      PROVE  PlacesStay
  <2>. DEFINE rec == [topologies[t] EXCEPT !.enabled = enabled]
  <2>1. topologies' = [u \in DOMAIN topologies |-> IF u = t THEN rec ELSE topologies[u]]
    BY <1>6 DEF SetEnabled, WithTopology
  <2>2. t \in DOMAIN topologies => rec.worker = topologies[t].worker
    BY <1>1 DEF TopologyRec
  <2>. HIDE DEF rec
  <2>. QED  BY <2>1, <2>2 DEF PlacesStay
<1>7. CASE topologies' = AgeTopologies
  <2>1. ASSUME NEW t \in DOMAIN topologies
        PROVE  t \in DOMAIN topologies' /\ topologies'[t].worker = topologies[t].worker
    <3>1. topologies[t] \in TopologyRec
      BY <1>1
    <3>2. t \in DOMAIN topologies'
          /\ \/ topologies'[t] = topologies[t]
             \/ topologies'[t] = [topologies[t] EXCEPT !.age = Older(topologies[t].age)]
      BY <1>7 DEF AgeTopologies
    <3>. QED  BY <3>1, <3>2 DEF TopologyRec
  <2>. QED  BY <2>1 DEF PlacesStay
<1>. QED  BY <1>2, <1>3, <1>4, <1>5, <1>6, <1>7

\* A call that is still to be made stays good while no assignment is made.
LEMMA CallStaysQuiet ==
  ASSUME NEW w \in Worker, NEW c \in calls[w], QuietCall(w, c), PlacesStay,
         calls'[w] \subseteq calls[w], step'[w] = step[w],
         \A d \in calls[w] : d.op = "assign" => d \in calls'[w]
  PROVE  QuietCall(w, c)'
<1>1. \A v, t : ACall("assign", v, {t}) \in calls[w] => ACall("assign", v, {t}) \in calls'[w]
  BY DEF ACall
<1>2. /\ c.op \in {"unassign", "assign", "start", "stop"}
      /\ c.op \in {"assign", "start"} => step'[w] = "assign"
  BY DEF QuietCall
<1>3. ASSUME c.op = "start", NEW t \in c.topologies
      PROVE  /\ t \in DOMAIN topologies'
             /\ \/ topologies'[t].worker \in {c.worker, NoWorker}
                \/ ACall("assign", c.worker, {t}) \in calls'[w]
  BY <1>1, <1>3 DEF QuietCall, PlacesStay
<1>4. ASSUME c.op = "assign"
      PROVE  \E t \in Topology :
               /\ c.topologies = {t}
               /\ \A d \in calls'[w] :
                    d.op = "start" /\ t \in d.topologies => d.worker = c.worker
  BY <1>4 DEF QuietCall
<1>. QED  BY <1>2, <1>3, <1>4 DEF QuietCall

\* Only one worker assigns topologies.
LEMMA OneAssigns ==
  ASSUME QuietStep, NEW v \in Worker, NEW w \in Worker,
         step[v] = "assign", step[w] = "assign"
  PROVE  v = w
BY DEF QuietStep, Quiet, QuietWorkers, QuietWorker, Leads, IsRecorded, LeaderInv,
   RecordsInv, WorkersInv, AtMostOneLeader

\* The assignment is made, and the message about it has not been sent.
LEMMA AssignmentIsMade ==
  ASSUME QuietStep, NEW v \in Worker, NEW c \in calls[v], c.op = "assign", Perform(c),
         calls' = [calls EXCEPT ![v] = @ \ {c}], UNCHANGED step,
         NEW w \in Worker, NEW d \in calls'[w]
  PROVE  QuietCall(w, d)'
<1>1. /\ QuietCalls /\ calls \in [Worker -> SUBSET Call] /\ TopologiesInv
  BY DEF QuietStep, Quiet, LoopTypes, LeaderTypeOK, LeaderInv, RecordsInv
<1>2. /\ d \in calls[w] /\ QuietCall(w, d) /\ QuietCall(v, c) /\ d \in Call /\ c \in Call
      /\ calls'[v] = calls[v] \ {c} /\ (w # v => calls'[w] = calls[w])
  BY <1>1 DEF QuietCalls
<1>3. PICK t \in Topology :
        /\ c.topologies = {t}
        /\ \A e \in calls[v] : e.op = "start" /\ t \in e.topologies => e.worker = c.worker
  BY <1>2 DEF QuietCall
<1>4. step[v] = "assign"
  BY <1>2 DEF QuietCall
<1>5. AssignTopology(t, c.worker)
  BY <1>3 DEF Perform
<1>6. /\ DOMAIN topologies' = DOMAIN topologies
      /\ \A u \in DOMAIN topologies :
           topologies'[u].worker = IF u = t THEN c.worker ELSE topologies[u].worker
  <2>. DEFINE rec == [topologies[t] EXCEPT !.worker = c.worker, !.status = "waiting",
                                           !.age = 0]
  <2>1. topologies' = [u \in DOMAIN topologies |-> IF u = t THEN rec ELSE topologies[u]]
    BY <1>5 DEF AssignTopology, WithTopology
  <2>2. t \in DOMAIN topologies => rec.worker = c.worker
    BY <1>1 DEF TopologiesInv, TopologyRec
  <2>. HIDE DEF rec
  <2>. QED  BY <2>1, <2>2
<1>7. CASE d.op \in {"unassign", "stop"}
  BY <1>7 DEF QuietCall
<1>8. CASE d.op = "start"
  <2>1. step[w] = "assign" /\ step'[w] = "assign"
    BY <1>2, <1>8 DEF QuietCall
  <2>2. w = v
    BY <1>4, <2>1, OneAssigns
  <2>3. ASSUME NEW u \in d.topologies
        PROVE  /\ u \in DOMAIN topologies'
               /\ \/ topologies'[u].worker \in {d.worker, NoWorker}
                  \/ ACall("assign", d.worker, {u}) \in calls'[w]
    <3>1. /\ u \in DOMAIN topologies
          /\ \/ topologies[u].worker \in {d.worker, NoWorker}
             \/ ACall("assign", d.worker, {u}) \in calls[w]
      BY <1>2, <1>8 DEF QuietCall
    <3>2. CASE u = t
      <4>1. d.worker = c.worker
        BY <1>2, <1>3, <1>8, <2>2, <3>2
      <4>. QED  BY <1>6, <3>1, <3>2, <4>1
    <3>3. CASE u # t
      <4>1. ACall("assign", d.worker, {u}) # c
        BY <1>3, <3>3 DEF ACall
      <4>. QED  BY <1>2, <1>6, <2>2, <3>1, <3>3, <4>1
    <3>. QED  BY <3>2, <3>3
  <2>. QED  BY <1>8, <2>1, <2>3 DEF QuietCall
<1>9. CASE d.op = "assign"
  <2>1. step[w] = "assign" /\ step'[w] = "assign"
    BY <1>2, <1>9 DEF QuietCall
  <2>2. w = v
    BY <1>4, <2>1, OneAssigns
  <2>3. \E u \in Topology :
           /\ d.topologies = {u}
           /\ \A e \in calls'[w] : e.op = "start" /\ u \in e.topologies => e.worker = d.worker
    BY <1>2, <1>9, <2>2 DEF QuietCall
  <2>. QED  BY <1>9, <2>1, <2>3 DEF QuietCall
<1>. QED  BY <1>2, <1>7, <1>8, <1>9 DEF QuietCall

LEMMA MakeCallQuiet ==
  ASSUME QuietStep, NEW v \in Worker, MakeCall(v), NEW w \in Worker, NEW d \in calls'[w]
  PROVE  QuietCall(w, d)'
<1>1. /\ QuietCalls /\ calls \in [Worker -> SUBSET Call] /\ TopologiesInv
  BY DEF QuietStep, Quiet, LoopTypes, LeaderTypeOK, LeaderInv, RecordsInv
<1>2. PICK c \in calls[v] :
        /\ Perform(c)
        /\ calls' = [calls EXCEPT ![v] = (@ \ {c}) \cup
             IF c.op = "list"
             THEN HandleDeadWorker(c.worker, TopologiesOf(c.worker)', topologies')
             ELSE {}]
  BY DEF MakeCall
<1>3. QuietCall(v, c) /\ c \in Call
  BY <1>1 DEF QuietCalls
<1>4. c.op \in {"unassign", "assign", "start", "stop"}
  BY <1>3 DEF QuietCall
<1>5. calls' = [calls EXCEPT ![v] = @ \ {c}] /\ UNCHANGED step
  <2>1. (IF c.op = "list"
         THEN HandleDeadWorker(c.worker, TopologiesOf(c.worker)', topologies')
         ELSE {}) = {}
    BY <1>4
  <2>2. calls' = [calls EXCEPT ![v] = (@ \ {c}) \cup {}]
    BY <1>2, <2>1
  <2>. QED  BY <2>2 DEF MakeCall
<1>6. CASE c.op = "assign"
  BY <1>2, <1>5, <1>6, AssignmentIsMade
<1>7. CASE c.op # "assign"
  <2>1. PlacesStay
    <3>1. CASE c.op = "unassign"
      <4>1. PICK t \in c.topologies : SetTopologyStatus(t, NoWorker, "unassigned")
        BY <1>2, <3>1 DEF Perform
      <4>2. t \in Topology
        BY <1>3 DEF Call
      <4>. QED  BY <1>1, <4>1, <4>2, PlacesStayIf
    <3>2. CASE c.op \in {"start", "stop"}
      <4>1. UNCHANGED topologies
        BY <1>2, <3>2 DEF Perform, SendMessageToWorker
      <4>. QED  BY <1>1, <4>1, PlacesStayIf
    <3>. QED  BY <1>4, <1>7, <3>1, <3>2
  <2>2. /\ calls'[w] \subseteq calls[w] /\ step'[w] = step[w]
        /\ \A e \in calls[w] : e.op = "assign" => e \in calls'[w]
    BY <1>1, <1>5, <1>7
  <2>3. d \in calls[w] /\ QuietCall(w, d)
    BY <1>1, <2>2 DEF QuietCalls
  <2>. QED  BY <2>1, <2>2, <2>3, CallStaysQuiet
<1>. QED  BY <1>6, <1>7

LEMMA PlacesStayQuiet ==
  ASSUME QuietStep, \A v \in Worker : ~MakeCall(v)
  PROVE  PlacesStay
<1>0. TopologiesInv /\ LeaderNext
  BY DEF QuietStep, LeaderInv, RecordsInv
<1>1. ASSUME NEW v \in Worker, LeaderStep(v) \/ RebalanceDue(v)
      PROVE  PlacesStay
  <2>1. UNCHANGED topologies \/ GetWorkerStatus \/ GetTopologyStatus
    BY <1>1, QuietExcludes
    DEF QuietStep, LeaderStep, RefreshStatuses, UnassignWaiting, AnnounceCandidacy,
        AnnounceLeaderCandidacy, CheckCandidacy, CheckLeaderCandidacy, EndPass,
        ConfirmLeadership, AssignUnassigned, Rebalance, RebalanceDue, storage_vars
  <2>. QED  BY <1>0, <2>1, PlacesStayIf
<1>2. ASSUME NEW v \in Worker, WorkerStep(v) \/ Disruption(v)
      PROVE  PlacesStay
  <2>1. UNCHANGED topologies
    BY <1>2, QuietExcludes
    DEF WorkerStep, Disruption, Start, Register, RegisterWorker, Ping, PingWorker,
        ReadMessages, GetMessage, GetNoMessage, Enable, SetWorkerStatus, storage_vars
  <2>. QED  BY <1>0, <2>1, PlacesStayIf
<1>3. ASSUME NEW v \in Worker, NEW t \in Topology, NEW status \in Reported,
             Report(v, t, status)
      PROVE  PlacesStay
  BY <1>0, <1>3, PlacesStayIf DEF Report
<1>4. ASSUME NEW t \in Topology, Client(t)
      PROVE  PlacesStay
  BY <1>0, <1>4, PlacesStayIf DEF Client, EnableTopology, DisableTopology
<1>5. CASE TimePasses
  BY <1>0, <1>5, PlacesStayIf DEF TimePasses, Tick
<1>6. CASE \E v \in Worker : \E t \in Topology : ClearStep(t)
  BY <1>6, QuietExcludes
<1>7. ASSUME NEW t \in Topology, ClearStep(t)
      PROVE  PlacesStay
  BY <1>7 DEF QuietStep, Quiet, NobodyClears, ClearStep, ClearReadsTopology,
     ClearReadsWorkers, ClearSetsStatus, ClearSendsMessage
<1>. QED  BY <1>0, <1>1, <1>2, <1>3, <1>4, <1>5, <1>7 DEF LeaderNext

\* After a step that is nobody's registration all registered workers are alive.
LEMMA AllStayAlive ==
  ASSUME QuietStep, NEW v \in Worker, LeaderStep(v), NEW u \in DOMAIN workers'
  PROVE  workers'[u].status = "alive" /\ workers'[u].age \in {0, 1}
<1>1. u \in Worker /\ QuietWorker(u)'
  <2>1. QuietStep => [LeaderNext]_vars /\ LeaderInv
    BY DEF QuietStep
  <2>2. WorkersInv'
    BY <2>1, MakeCallStep, RefreshStatusesStep, UnassignWaitingStep, ElectionStep,
       ConfirmLeadershipStep, AssignUnassignedStep, RebalanceStep
    DEF LeaderStep, LeaderInv, RecordsInv
  <2>3. u \in Worker
    BY <2>2 DEF WorkersInv
  <2>. QED  BY <2>3, QuietWorkersStep
<1>. QED  BY <1>1 DEF QuietWorker

\* The calls that the loop of w begins are good.
LEMMA NewCallsAreQuiet ==
  ASSUME QuietStep, NEW w \in Worker, LeaderStep(w), ~MakeCall(w), NEW d \in calls'[w]
  PROVE  QuietCall(w, d)'
<1>1. /\ calls \in [Worker -> SUBSET Call] /\ step \in [Worker -> Step]
      /\ LeaderInv
  BY DEF QuietStep, LoopTypes, LeaderTypeOK
<1>2. CASE RefreshStatuses(w)
  <2>1. DefunctCalls' = {}
    <3>1. 1 <= IdleInterval /\ IdleInterval \in Nat
      BY TimeoutsAreOrdered, IntervalsAreOrdered
    <3>2. ASSUME NEW u \in DOMAIN workers'
          PROVE  ~Idle(u)' /\ ~Disabled(u)'
      BY <3>1, <3>2, AllStayAlive DEF Idle, Disabled
    <3>. QED  BY <3>2 DEF DefunctCalls
  <2>2. calls'[w] = DefunctCalls'
    BY <1>1, <1>2 DEF RefreshStatuses
  <2>. QED  BY <2>1, <2>2
<1>3. CASE UnassignWaiting(w)
  <2>. DEFINE T == {u \in DOMAIN topologies' : Stranded(topologies'[u], seen[w].gone)}
  <2>1. calls'[w] = {ACall("unassign", NoWorker, {t}) : t \in T}
    BY <1>1, <1>3 DEF UnassignWaiting
  <2>2. d.op = "unassign"
    BY <2>1 DEF ACall
  <2>. QED  BY <2>2 DEF QuietCall
<1>4. CASE AnnounceCandidacy(w) \/ CheckCandidacy(w) \/ EndPass(w)
  <2>1. calls'[w] = {}
    BY <1>4 DEF AnnounceCandidacy, CheckCandidacy, EndPass, At
  <2>. QED  BY <2>1
<1>5. CASE ConfirmLeadership(w)
  <2>. DEFINE serves == IsRecorded(w)' /\ Alive(w)'
  <2>1. calls'[w] = CASE serves -> {ACall("list", v, {}) : v \in DeadWorkers'}
                      [] IsRecorded(w)' /\ ~serves -> Release(w)
                      [] OTHER -> {}
    BY <1>1, <1>5 DEF ConfirmLeadership
  <2>2. DeadWorkers' = {}
    BY AllStayAlive DEF DeadWorkers
  <2>3. IsRecorded(w)' => serves
    BY AllStayAlive DEF IsRecorded, Alive, AliveWorkers
  <2>4. CASE serves
    BY <2>1, <2>2, <2>4
  <2>5. CASE ~IsRecorded(w)'
    BY <2>1, <2>5
  <2>. QED  BY <2>3, <2>4, <2>5
<1>6. CASE AssignUnassigned(w)
  <2>. DEFINE T == {t \in DOMAIN topologies' : ToAssign(t)'}
  <2>1. PICK target \in [T -> seen[w].alive] :
          calls' = [calls EXCEPT ![w] =
             {ACall("assign", target[t], {t}) : t \in T} \cup
             {ACall("start", v, {t \in T : target[t] = v}) :
                v \in {target[t] : t \in T}}]
    BY <1>6 DEF AssignUnassigned
  <2>2. T \subseteq Topology /\ T \subseteq DOMAIN topologies'
    <3>1. TopologiesInv'
      BY <1>1, <1>6, AssignUnassignedStep DEF LeaderInv, RecordsInv
    <3>. QED  BY <3>1 DEF TopologiesInv
  <2>3. step'[w] = "assign"
    BY <1>1, <1>6 DEF AssignUnassigned
  <2>. HIDE DEF T
  <2>4. calls'[w] = {ACall("assign", target[t], {t}) : t \in T} \cup
             {ACall("start", v, {t \in T : target[t] = v}) :
                v \in {target[t] : t \in T}}
    BY <1>1, <2>1
  <2>5. ASSUME NEW e \in calls'[w], e.op = "start"
        PROVE  \A t \in e.topologies : t \in T /\ target[t] = e.worker
    BY <2>4, <2>5 DEF ACall
  <2>6. ASSUME NEW t \in T
        PROVE  ACall("assign", target[t], {t}) \in calls'[w]
    BY <2>4
  <2>7. CASE d.op = "start"
    BY <2>2, <2>3, <2>5, <2>6, <2>7 DEF QuietCall
  <2>8. CASE d.op = "assign"
    <3>1. PICK t \in T : d = ACall("assign", target[t], {t})
      BY <2>4, <2>8 DEF ACall
    <3>2. d.topologies = {t} /\ d.worker = target[t]
      BY <3>1 DEF ACall
    <3>3. \A e \in calls'[w] : e.op = "start" /\ t \in e.topologies => e.worker = d.worker
      BY <2>5, <3>2
    <3>. QED  BY <2>2, <2>3, <2>8, <3>2, <3>3 DEF QuietCall
  <2>9. d.op \in {"assign", "start"}
    BY <2>4 DEF ACall
  <2>. QED  BY <2>7, <2>8, <2>9
<1>7. CASE Rebalance(w)
  <2>1. PICK T \in SUBSET DOMAIN seen[w].placed :
          calls' = [calls EXCEPT ![w] =
            {ACall("stop", v, {t \in T : seen[w].placed[t] = v}) :
               v \in {seen[w].placed[t] : t \in T}}]
    BY <1>7 DEF Rebalance
  <2>2. calls'[w] = {ACall("stop", v, {t \in T : seen[w].placed[t] = v}) :
                       v \in {seen[w].placed[t] : t \in T}}
    BY <1>1, <2>1
  <2>3. d.op = "stop"
    BY <2>2 DEF ACall
  <2>. QED  BY <2>3 DEF QuietCall
<1>. QED  BY <1>2, <1>3, <1>4, <1>5, <1>6, <1>7, QuietExcludes DEF LeaderStep

LEMMA QuietCallsStep ==
  ASSUME QuietStep, NEW w \in Worker, NEW d \in calls'[w]
  PROVE  QuietCall(w, d)'
<1>1. QuietCalls /\ QuietWorker(w) /\ LeaderTypeOK /\ LeaderNext
  BY DEF QuietStep, Quiet, QuietWorkers, LoopTypes
<1>2. CASE \E v \in Worker : MakeCall(v)
  BY <1>2, MakeCallQuiet
<1>3. CASE LeaderStep(w) /\ ~MakeCall(w)
  BY <1>3, NewCallsAreQuiet
<1>4. CASE /\ \A v \in Worker : ~MakeCall(v)
           /\ calls'[w] = calls[w] /\ (step'[w] = step[w] \/ calls[w] = {})
  <2>1. PlacesStay
    BY <1>4, PlacesStayQuiet
  <2>2. d \in calls[w] /\ QuietCall(w, d)
    BY <1>1, <1>4 DEF QuietCalls
  <2>. QED  BY <1>4, <2>1, <2>2, CallStaysQuiet
<1>5. ASSUME NEW v \in Worker, v # w,
             LeaderStep(v) \/ RebalanceDue(v) \/ WorkerStep(v) \/ Disruption(v)
      PROVE  calls'[w] = calls[w] /\ step'[w] = step[w]
  BY <1>1, <1>5, OtherLoops
<1>6. ASSUME RebalanceDue(w) \/ WorkerStep(w) \/ Disruption(w)
      PROVE  calls'[w] = calls[w] /\ (step'[w] = step[w] \/ calls[w] = {})
  <2>1. CASE Start(w)
    BY <1>1, <2>1 DEF Start, QuietWorker
  <2>2. CASE RebalanceDue(w) \/ Register(w) \/ Ping(w) \/ ReadMessages(w) \/ Enable(w)
    BY <2>2 DEF RebalanceDue, Register, Ping, ReadMessages, Enable, leader_vars, loop_vars
  <2>. QED  BY <1>6, <2>1, <2>2, QuietExcludes DEF WorkerStep, Disruption
<1>7. ASSUME \/ \E v \in Worker, t \in Topology, status \in Reported : Report(v, t, status)
             \/ \E t \in Topology : ClearStep(t) \/ Client(t)
             \/ TimePasses
      PROVE  calls'[w] = calls[w] /\ step'[w] = step[w]
  <2>1. UNCHANGED <<calls, step>>
    BY <1>7 DEF Report, ClearStep, ClearReadsTopology, ClearReadsWorkers,
       ClearSetsStatus, ClearSendsMessage, Client, TimePasses, leader_vars, loop_vars
  <2>. QED  BY <2>1
<1>. QED  BY <1>1, <1>2, <1>3, <1>4, <1>5, <1>6, <1>7 DEF LeaderNext

\* Nobody begins to clear errors.
LEMMA ClearingStep ==
  ASSUME LeaderNext, NobodyClears, Clearable = {}
  PROVE  NobodyClears'
<1>1. \A t \in Topology : ~ClearStep(t)
  BY DEF NobodyClears, ClearStep, ClearReadsTopology,
     ClearReadsWorkers, ClearSetsStatus, ClearSendsMessage
<1>2. UNCHANGED clearing
  <2>1. ASSUME NEW v \in Worker, LeaderStep(v) \/ RebalanceDue(v)
        PROVE  UNCHANGED clearing
    BY <2>1 DEF LeaderStep, RebalanceDue, MakeCall,
     RefreshStatuses, UnassignWaiting, AnnounceCandidacy, CheckCandidacy,
     CheckCandidacyFails, EndPass, ConfirmLeadership, AssignUnassigned, Rebalance
  <2>2. ASSUME NEW v \in Worker, WorkerStep(v) \/ Disruption(v)
        PROVE  UNCHANGED clearing
    BY <2>2 DEF WorkerStep, Disruption,
     Start, Register, Ping, Recover, Close, Exit, ReadMessages, Crash,
     ReleaseLeadership, Disable, Enable, CallFails, RequestFails, Delete,
     ProcessEnds, leader_vars
  <2>. QED  BY <1>1, <2>1, <2>2
    DEF LeaderNext, Report, Client, TimePasses, leader_vars
<1>. QED  BY <1>2 DEF NobodyClears

LEMMA QuietInit == LeaderInit => Quiet
<1>. SUFFICES ASSUME LeaderInit
              PROVE  Quiet
  OBVIOUS
<1>1. QuietWorkers
  BY DEF LeaderInit, StorageInit, Nothing, QuietWorkers, QuietWorker, Leads
<1>2. QuietCalls /\ NobodyClears
  BY DEF LeaderInit, QuietCalls, NobodyClears, NotClearing
<1>. QED  BY <1>1, <1>2 DEF Quiet

LEMMA QuietFrame ==
  ASSUME Quiet, UNCHANGED vars
  PROVE  Quiet'
BY DEF Quiet, QuietWorkers, QuietWorker, QuietCalls, QuietCall, NobodyClears, Leads,
   IsRecorded, vars, storage_vars, leader_vars, loop_vars

LEMMA SendTells ==
  ASSUME messages \in Queues, NEW u \in Addressee, NEW cmd, NEW T,
         SendMessageToWorker(u, Message(cmd, T, MessageInterval)),
         NEW v \in Addressee, NEW t, Told(v, t)
  PROVE  u = v /\ cmd = "start_topologies" /\ t \in T
<1>. DEFINE m == Message(cmd, T, MessageInterval)
<1>1. PICK i \in DOMAIN messages'[v] \ DOMAIN messages[v] :
        /\ messages'[v][i].cmd = "start_topologies"
        /\ t \in messages'[v][i].content
  BY DEF Told
<1>2. messages' = [messages EXCEPT ![u] = Append(messages[u], m)]
  BY DEF SendMessageToWorker, Queued
<1>. HIDE DEF m
<1>3. u = v
  BY <1>1, <1>2 DEF Queues
<1>4. messages'[v] = Append(messages[v], m) /\ messages[v] \in Seq(MessageRec)
  BY <1>2, <1>3 DEF Queues
<1>5. messages'[v][i] = m
  <2>1. /\ DOMAIN messages[v] = 1 .. Len(messages[v])
        /\ DOMAIN messages'[v] = 1 .. Len(messages[v]) + 1
        /\ messages'[v][Len(messages[v]) + 1] = m
        /\ Len(messages[v]) \in Nat
    BY <1>4
  <2>2. i = Len(messages[v]) + 1
    BY <1>1, <2>1
  <2>. QED  BY <2>1, <2>2
<1>. QED  BY <1>1, <1>3, <1>5 DEF m, Message

LEMMA ReadsTellNothing ==
  ASSUME messages \in Queues,
         \/ UNCHANGED messages \/ messages' = AgeMessages
         \/ \E n \in Worker : GetMessage(n) \/ GetNoMessage(n),
         NEW v \in Addressee, NEW t, Told(v, t)
  PROVE  FALSE
<1>. SUFFICES DOMAIN messages'[v] \subseteq DOMAIN messages[v]
  BY DEF Told
<1>1. CASE UNCHANGED messages
  BY <1>1
<1>2. CASE messages' = AgeMessages
  BY <1>2 DEF AgeMessages
<1>3. ASSUME NEW n \in Worker, GetMessage(n)
      PROVE  DOMAIN messages'[v] \subseteq DOMAIN messages[v]
  <2>1. PICK i \in Deliverable(n) :
          messages' = [messages EXCEPT ![n] = WithoutMessage(@, i)]
    BY <1>3 DEF GetMessage
  <2>2. CASE v # n
    BY <2>1, <2>2 DEF Queues
  <2>3. CASE v = n
    <3>1. messages'[v] = WithoutMessage(messages[v], i) /\ messages[v] \in Seq(MessageRec)
      BY <2>1, <2>3 DEF Queues
    <3>2. DOMAIN messages'[v] = 1 .. Len(messages[v]) - 1
      BY <3>1 DEF WithoutMessage
    <3>3. DOMAIN messages[v] = 1 .. Len(messages[v]) /\ Len(messages[v]) \in Nat
      BY <3>1
    <3>. QED  BY <3>2, <3>3
  <2>. QED  BY <2>2, <2>3
<1>4. ASSUME NEW n \in Worker, GetNoMessage(n)
      PROVE  DOMAIN messages'[v] \subseteq DOMAIN messages[v]
  <2>1. messages'[v] = << >>
    BY <1>4 DEF GetNoMessage
  <2>. QED  BY <2>1
<1>. QED  BY <1>1, <1>2, <1>3, <1>4

\* A worker is told to start topologies only by a call that was ready.
LEMMA ToldByCall ==
  ASSUME LoopTypes, LeaderInv, LeaderNext, NEW v \in Worker, NEW t, Told(v, t)
  PROVE  \E w \in Worker : \E c \in calls[w] :
           Ready(w, c) /\ c.op = "start" /\ c.worker = v /\ t \in c.topologies
<1>1. messages \in Queues /\ v \in Addressee /\ calls \in [Worker -> SUBSET Call]
  BY DEF LoopTypes, Addressee, LeaderTypeOK
<1>2. ~UNCHANGED messages /\ messages' # AgeMessages
  BY <1>1, ReadsTellNothing
<1>3. ASSUME NEW w \in Worker, MakeCall(w) \/ CallFails(w)
      PROVE  \E c \in calls[w] :
               Ready(w, c) /\ c.op = "start" /\ c.worker = v /\ t \in c.topologies
  <2>1. PICK c \in calls[w] : Ready(w, c) /\ Perform(c)
    BY <1>2, <1>3 DEF MakeCall, CallFails, storage_vars
  <2>2. c \in Call
    BY <1>1
  <2>3. c.op \in Op /\ c.worker \in Addressee
    BY <2>2 DEF Call
  <2>4. c.op \in {"start", "stop"}
    BY <1>2, <2>1, <2>3 DEF Op, Perform, SetWorkerStatus, SetWorkerLStatus,
       GetTopologiesForWorker, SetTopologyStatus, AssignTopology
  <2>5. CASE c.op = "start"
    <3>1. SendMessageToWorker(c.worker,
            Message("start_topologies", c.topologies, MessageInterval))
      BY <2>1, <2>5 DEF Perform
    <3>2. c.worker = v /\ t \in c.topologies
      BY <1>1, <2>3, <3>1, SendTells
    <3>. QED  BY <2>1, <2>5, <3>2
  <2>6. CASE c.op = "stop"
    <3>1. SendMessageToWorker(c.worker,
            Message("stop_topologies", c.topologies, MessageInterval))
      BY <2>1, <2>6 DEF Perform
    <3>2. "stop_topologies" = "start_topologies"
      BY <1>1, <2>3, <3>1, SendTells
    <3>. QED  BY <3>2
  <2>. QED  BY <2>4, <2>5, <2>6
<1>4. ASSUME NEW w \in Worker, LeaderStep(w) \/ RebalanceDue(w), ~MakeCall(w)
      PROVE  FALSE
  <2>1. UNCHANGED messages
    BY <1>4
    DEF LeaderStep, RefreshStatuses, UnassignWaiting, AnnounceCandidacy,
        AnnounceLeaderCandidacy, CheckCandidacy, CheckLeaderCandidacy, EndPass,
        CheckCandidacyFails, CheckLeaderCandidacyFails, ConfirmLeadership,
        AssignUnassigned, Rebalance, RebalanceDue, storage_vars, GetWorkerStatus,
        GetTopologyStatus
  <2>. QED  BY <1>2, <2>1
<1>5. ASSUME NEW w \in Worker, WorkerStep(w)
      PROVE  FALSE
  <2>1. UNCHANGED messages \/ GetMessage(w) \/ GetNoMessage(w)
    BY <1>5
    DEF WorkerStep, Start, Register, RegisterWorker, Ping, PingWorker, Recover,
        Close, Exit, SetWorkerStatus, ReadMessages, storage_vars
  <2>. QED  BY <1>1, <2>1, ReadsTellNothing
<1>6. ASSUME NEW w \in Worker, Disruption(w), ~CallFails(w)
      PROVE  FALSE
  <2>1. UNCHANGED messages
    BY <1>6
    DEF Disruption, Crash, ReleaseLeadership, Disable, Enable, RequestFails, Delete,
        SetWorkerStatus, SetWorkerLStatus, DeleteWorker, AnnounceLeaderCandidacy,
        CheckLeaderCandidacy, storage_vars
  <2>. QED  BY <1>2, <2>1
<1>7. ASSUME NEW w \in Worker, NEW u \in Topology, NEW status \in Reported,
             Report(w, u, status)
      PROVE  FALSE
  BY <1>2, <1>7 DEF Report, SetTopologyStatus
<1>8. ASSUME NEW u \in Topology, ClearStep(u)
      PROVE  FALSE
  <2>1. CASE ClearSendsMessage(u)
    <3>1. clearing[u].worker \in Addressee
      BY DEF LeaderInv, LoopsInv, ClearingRec, Addressee
    <3>2. "start_topology" = "start_topologies"
      BY <1>1, <2>1, <3>1, SendTells DEF ClearSendsMessage
    <3>. QED  BY <3>2
  <2>2. CASE ~ClearSendsMessage(u)
    BY <1>2, <1>8, <2>2
    DEF ClearStep, ClearReadsTopology, ClearReadsWorkers, ClearSetsStatus,
        GetWorkerStatus, AssignTopology, SetTopologyStatus, storage_vars
  <2>. QED  BY <2>1, <2>2
<1>9. ASSUME NEW u \in Topology, Client(u)
      PROVE  FALSE
  BY <1>2, <1>9 DEF Client, RegisterTopology, EnableTopology, DisableTopology
<1>10. ~TimePasses
  BY <1>2 DEF TimePasses, Tick
<1>. QED  BY <1>3, <1>4, <1>5, <1>6, <1>7, <1>8, <1>9, <1>10 DEF LeaderNext

LEMMA StartsFit ==
  ASSUME Quiet, LoopTypes, LeaderInv, LeaderNext, NEW v \in Worker,
         NEW t \in DOMAIN topologies, Told(v, t)
  PROVE  topologies[t].worker \in {v, NoWorker}
<1>1. PICK w \in Worker : \E c \in calls[w] :
        Ready(w, c) /\ c.op = "start" /\ c.worker = v /\ t \in c.topologies
  BY ToldByCall
<1>2. PICK c \in calls[w] :
        Ready(w, c) /\ c.op = "start" /\ c.worker = v /\ t \in c.topologies
  BY <1>1
<1>3. topologies[t].worker \in {v, NoWorker} \/ ACall("assign", v, {t}) \in calls[w]
  BY <1>2 DEF Quiet, QuietCalls, QuietCall
<1>4. ACall("assign", v, {t}) \notin calls[w]
  <2>. DEFINE d == ACall("assign", v, {t})
  <2>1. d.worker = v /\ d.op = "assign"
    BY DEF ACall
  <2>2. <<"assign", "start">> \in Precedes
    BY DEF Precedes
  <2>. HIDE DEF d
  <2>3. d \notin calls[w]
    BY <1>2, <2>1, <2>2 DEF Ready
  <2>. QED  BY <2>3 DEF d
<1>. QED  BY <1>3, <1>4

\* While nothing goes wrong, no worker is told to start a topology that
\* another one has, however many workers and topologies there are: only the
\* recorded leader assigns, and it sends a message after all the assignments
\* to its addressee.
THEOREM StartsAreTheirOwn ==
  ASSUME Clearable = {}, LeaderTimeout # 0
  PROVE  LeaderSpec => StartsAreOwn
<1>. DEFINE Inv == disruptions = 0 => Quiet
<1>1. LeaderInit => Inv
  BY QuietInit
<1>2. LeaderInv /\ LoopTypes /\ Inv /\ [LeaderNext]_vars => Inv'
  <2>. SUFFICES ASSUME LeaderInv, LoopTypes, Inv, [LeaderNext]_vars, disruptions' = 0
                PROVE  Quiet'
    OBVIOUS
  <2>1. CASE UNCHANGED vars
    <3>1. disruptions = 0
      BY <2>1 DEF vars, leader_vars
    <3>. QED  BY <2>1, <3>1, QuietFrame
  <2>2. CASE LeaderNext
    <3>1. disruptions = 0
      <4>1. disruptions \in Nat
        BY IntervalsAreOrdered DEF LoopTypes, LeaderTypeOK
      <4>2. UNCHANGED disruptions \/ \E kind : Disrupts(kind)
        <5>1. ASSUME NEW v \in Worker, LeaderStep(v) \/ RebalanceDue(v)
              PROVE  UNCHANGED disruptions \/ \E kind : Disrupts(kind)
          BY <5>1 DEF LeaderStep, RebalanceDue, MakeCall,
           RefreshStatuses, UnassignWaiting, AnnounceCandidacy, CheckCandidacy,
           CheckCandidacyFails, EndPass, ConfirmLeadership, AssignUnassigned, Rebalance
        <5>2. ASSUME NEW v \in Worker, WorkerStep(v) \/ Disruption(v)
              PROVE  UNCHANGED disruptions \/ \E kind : Disrupts(kind)
          BY <5>2 DEF WorkerStep, Disruption,
           Start, Register, Ping, Recover, Close, Exit, ReadMessages, Crash,
           ReleaseLeadership, Disable, Enable, CallFails, RequestFails, Delete,
           leader_vars
        <5>. QED  BY <2>2, <5>1, <5>2
          DEF LeaderNext, Report, Client, TimePasses, leader_vars, ClearStep,
              ClearReadsTopology, ClearReadsWorkers, ClearSetsStatus, ClearSendsMessage
      <4>. QED  BY <4>1, <4>2 DEF Disrupts
    <3>2. QuietStep
      BY <2>2, <3>1 DEF QuietStep
    <3>3. NobodyClears'
      BY <3>2, ClearingStep DEF QuietStep, Quiet
    <3>. QED  BY <3>2, <3>3, QuietWorkersStep, QuietCallsStep
      DEF Quiet, QuietWorkers, QuietCalls
  <2>. QED  BY <2>1, <2>2
<1>3. LeaderInv /\ LoopTypes /\ Inv /\ [LeaderNext]_vars
        => [\A v \in Worker, t \in DOMAIN topologies :
              disruptions = 0 /\ Told(v, t) => topologies[t].worker \in {v, NoWorker}]_vars
  BY StartsFit
<1>. HIDE DEF Inv
<1>. QED  BY <1>1, <1>2, <1>3, LeaderInvariant, LoopTypesInvariant, PTL
  DEF LeaderSpec, StartsAreOwn

---------------------------------------------------------------------------
(* Workers that crash, and come back.  As long as those that are up ping   *)
(* in time, there is only one leader, and it alone pronounces workers      *)
(* unloaded; what it has still to do about a dead worker tells how far it  *)
(* has come.  This part follows the workers up to the first return while   *)
(* calls about the death are on their way, which pronounce the worker      *)
(* unloaded with what it got in the meantime; the next part goes on there. *)

CallsAbout(v) ==
  \E w \in Worker : \E c \in calls[w] :
    c.worker = v /\ c.op \in {"normal", "list", "unassign", "unloaded"}

\* A worker whose process is up is registered and pings in time.
LiveWorker(w) ==
  /\ up[w] \in {"down", "starting", "up"}
  /\ up[w] # "up" => calls[w] = {} /\ step[w] \in {"stopped", "sleep"}
  /\ up[w] # "down" => step[w] # "stopped" /\ is_running[w]
  /\ up[w] = "up" =>
       /\ w \in DOMAIN workers
       /\ workers[w].status = "alive" /\ workers[w].age \in {0, 1}
  /\ Leads(w) => IsRecorded(w)

Unloaded(v) == v \in DOMAIN workers /\ workers[v].status = "unloaded"

\* The leader w deals with the dead worker v in this pass.
DealsWith(w, v) ==
  /\ step[w] = "dead" /\ v \in Worker /\ up[v] # "up"
  /\ v \in DOMAIN workers /\ workers[v].status = "dead"
  /\ v \notin seen[w].alive

\* Topologies of v that nothing is left to be done about.
GivenUp(t) == topologies[t].status \in {"unassigned", "error"}

CalmCall(w, c) ==
  /\ c.op # "dead"
  /\ c.op = "normal" => c.worker \in Worker /\ up[c.worker] # "up"
  /\ c.op \in {"list", "unloaded"} => DealsWith(w, c.worker) /\ c.topologies = {}
  /\ c.op = "unassign" /\ c.worker # NoWorker => DealsWith(w, c.worker)
  /\ c.op = "list" => \A d \in calls[w] : d.worker = c.worker => d = c \/ d.op = "normal"
  /\ c.op = "assign" => step[w] = "assign" /\ ~Unloaded(c.worker)
  /\ c.op = "unloaded" =>
       \A t \in DOMAIN topologies :
         topologies[t].worker = c.worker =>
           GivenUp(t) \/ ACall("unassign", c.worker, {t}) \in calls[w]

LiveWorkers == \A w \in Worker : LiveWorker(w)
Statuses ==
  \A v \in DOMAIN workers : workers[v].status \in {"alive", "dead", "unloaded"}
CalmCalls == \A w \in Worker : \A c \in calls[w] : CalmCall(w, c)
SeenCalm == \A w \in Worker : step[w] = "dead" => \A v \in seen[w].alive : ~Unloaded(v)
Emptied ==
  \A t \in DOMAIN topologies : Unloaded(topologies[t].worker) => GivenUp(t)
Calm ==
  LiveWorkers /\ Statuses /\ CalmCalls /\ SeenCalm /\ Emptied /\ NobodyClears

CalmStep ==
  /\ Calm /\ LeaderInv /\ LoopTypes /\ LeaderInv' /\ LoopTypes'
  /\ LeaderNext
  /\ \A v \in Worker : Register(v) => ~CallsAbout(v)
  /\ Disruptions \subseteq {"crash"} /\ LeaderTimeout # 0 /\ Clearable = {}

\* What a step does to the record of a worker: one that is up goes on as it
\* was, another one may at most turn out to be dead.
RecordGoesOn(v) ==
  /\ v \in DOMAIN workers' <=> v \in DOMAIN workers
  /\ v \in DOMAIN workers =>
       \/ workers'[v].status = workers[v].status
       \/ workers[v].status = "alive" /\ workers'[v].status = "dead"
  /\ up[v] = "up" => workers'[v].status = "alive" /\ workers'[v].age \in {0, 1}
  /\ Leads(v) => IsRecorded(v)'

LEMMA LiveAreUp ==
  ASSUME LiveWorkers, WorkersInv, NEW w \in Worker, up[w] = "up"
  PROVE  /\ w \in DOMAIN workers /\ workers[w] \in WorkerRec
         /\ workers[w].status = "alive" /\ workers[w].age \in {0, 1}
BY DEF LiveWorkers, LiveWorker, WorkersInv

LEMMA LeadersAreUp ==
  ASSUME LiveWorkers, NEW w \in Worker, Leads(w)
  PROVE  up[w] = "up" /\ IsRecorded(w)
BY DEF LiveWorkers, LiveWorker, Leads

\* Only one worker is past its confirmation of leadership.
LEMMA OneLeads ==
  ASSUME LiveWorkers, WorkersInv, NEW v \in Worker, NEW w \in Worker,
         Leads(v), Leads(w)
  PROVE  v = w
BY LeadersAreUp DEF IsRecorded, WorkersInv, AtMostOneLeader

LEMMA SameRecordGoesOn ==
  ASSUME LiveWorkers, WorkersInv, NEW v \in Worker,
         v \in DOMAIN workers' <=> v \in DOMAIN workers,
         v \in DOMAIN workers => workers'[v] = workers[v]
  PROVE  RecordGoesOn(v)
BY LiveAreUp, LeadersAreUp DEF RecordGoesOn, IsRecorded

LEMMA LiveAreNotDefunct ==
  ASSUME LiveWorkers, WorkersInv, LeaderTimeout # 0, NEW w \in Worker, up[w] = "up"
  PROVE  w \notin DefunctWorkers /\ w \notin DefunctLeaders
<1>1. LeaderTimeout >= 1 /\ WorkerTimeout >= 1 /\ LeaderTimeout \in Nat /\ WorkerTimeout \in Nat
  BY TimeoutsAreOrdered
<1>2. ~(workers[w].age > WorkerTimeout) /\ ~(workers[w].age > LeaderTimeout)
  BY <1>1, LiveAreUp
<1>. QED  BY <1>2 DEF DefunctWorkers, DefunctLeaders

LEMMA ReadsGoOn ==
  ASSUME LiveWorkers, WorkersInv, LeaderTimeout # 0, NEW v \in Worker,
         \/ UNCHANGED workers
         \/ GetWorkerStatus \/ GetTopologyStatus \/ GetTopologiesForWorker
  PROVE  RecordGoesOn(v)
<1>1. CASE UNCHANGED workers \/ GetTopologiesForWorker
  BY <1>1, SameRecordGoesOn DEF GetTopologiesForWorker
<1>2. CASE GetWorkerStatus \/ GetTopologyStatus
  <2>1. workers' = [u \in DOMAIN workers |->
          IF u \in DefunctWorkers THEN [workers[u] EXCEPT !.status = "dead"]
                                  ELSE workers[u]]
    BY <1>2 DEF GetWorkerStatus, GetTopologyStatus, DisableDefunctWorkers
  <2>2. CASE v \notin DefunctWorkers
    BY <2>1, <2>2, SameRecordGoesOn
  <2>3. CASE v \in DefunctWorkers
    <3>1. v \in DOMAIN workers /\ workers[v].status = "alive" /\ workers[v] \in WorkerRec
      BY <2>3 DEF DefunctWorkers, WorkersInv
    <3>2. v \in DOMAIN workers' /\ workers'[v] = [workers[v] EXCEPT !.status = "dead"]
      BY <2>1, <2>3, <3>1
    <3>3. workers'[v].status = "dead"
      BY <3>1, <3>2 DEF WorkerRec
    <3>4. up[v] # "up" /\ ~Leads(v)
      BY <2>3, LiveAreNotDefunct, LeadersAreUp
    <3>. QED  BY <3>1, <3>2, <3>3, <3>4 DEF RecordGoesOn
  <2>. QED  BY <2>2, <2>3
<1>. QED  BY <1>1, <1>2

LEMMA PingsGoOn ==
  ASSUME LiveWorkers, WorkersInv, NEW v \in Worker,
         NEW n \in Worker, workers' = Pinged(n)
  PROVE  RecordGoesOn(v)
<1>1. CASE v # n \/ v \notin DOMAIN workers
  BY <1>1, SameRecordGoesOn DEF Pinged
<1>2. CASE v = n /\ v \in DOMAIN workers
  <2>1. workers'[v] = [workers[v] EXCEPT !.age = 0] /\ v \in DOMAIN workers'
    BY <1>2 DEF Pinged
  <2>2. /\ workers'[v].age = 0 /\ workers'[v].status = workers[v].status
        /\ workers'[v].lstatus = workers[v].lstatus
    BY <1>2, <2>1 DEF WorkersInv, WorkerRec
  <2>. QED  BY <1>2, <2>1, <2>2, LiveAreUp, LeadersAreUp DEF RecordGoesOn, IsRecorded
<1>. QED  BY <1>1, <1>2

LEMMA TimeGoesOn ==
  ASSUME LiveWorkers, WorkersInv, NEW v \in Worker, workers' = AgeWorkers,
         \A u \in DOMAIN workers : Pings(u) => workers[u].age = 0
  PROVE  RecordGoesOn(v)
<1>1. CASE v \notin DOMAIN workers
  BY <1>1, SameRecordGoesOn DEF AgeWorkers
<1>2. CASE v \in DOMAIN workers
  <2>1. workers[v] \in WorkerRec
    BY <1>2 DEF WorkersInv
  <2>. DEFINE age == Older(workers[v].age)
  <2>2. workers'[v] = [workers[v] EXCEPT !.age = age] /\ v \in DOMAIN workers'
    BY <1>2 DEF AgeWorkers
  <2>3. up[v] = "up" => age \in {0, 1}
    <3>1. up[v] = "up" => workers[v].age = 0
      BY <1>2 DEF Pings
    <3>2. Older(0) \in {0, 1}
      BY TimeoutsAreOrdered DEF Older
    <3>. QED  BY <3>1, <3>2
  <2>. HIDE DEF age
  <2>4. /\ workers'[v].age = age /\ workers'[v].status = workers[v].status
        /\ workers'[v].lstatus = workers[v].lstatus
    BY <2>1, <2>2 DEF WorkerRec
  <2>. QED  BY <1>2, <2>2, <2>3, <2>4, LiveAreUp, LeadersAreUp
    DEF RecordGoesOn, IsRecorded
<1>. QED  BY <1>1, <1>2

\* Nobody wins an election against a leader that pings.
LEMMA ElectionsGoOn ==
  ASSUME LiveWorkers, WorkersInv, LeaderTimeout # 0, NEW v \in Worker,
         NEW n \in Worker, ~Leads(n),
         AnnounceLeaderCandidacy(n) \/ CheckLeaderCandidacy(n)
  PROVE  RecordGoesOn(v)
<1>. DEFINE ws == LeadersDisabled
<1>1. DOMAIN ws = DOMAIN workers /\ \A u \in DOMAIN workers : ws[u] \in WorkerRec
  BY DEF LeadersDisabled, WorkersInv, WorkerRec, WorkerLStatus
<1>2. \A u \in DOMAIN workers :
        ws[u].status = workers[u].status /\ ws[u].age = workers[u].age
  BY DEF LeadersDisabled, WorkersInv, WorkerRec
<1>3. Leads(v) => v \in DOMAIN ws /\ ws[v].lstatus = "leader" /\ v # n
  <2>1. SUFFICES ASSUME Leads(v)
                 PROVE  v \in DOMAIN ws /\ ws[v].lstatus = "leader" /\ v # n
    OBVIOUS
  <2>2. up[v] = "up" /\ IsRecorded(v)
    BY <2>1, LeadersAreUp
  <2>3. v \notin DefunctLeaders
    BY <2>2, LiveAreNotDefunct
  <2>4. v # n
    BY <2>1
  <2>. QED  BY <2>2, <2>3, <2>4 DEF LeadersDisabled, IsRecorded
<1>. HIDE DEF ws
<1>4. Leads(v) => v \in OtherLeaders(n, ws)
  BY <1>3 DEF OtherLeaders, Leaders
<1>5. CASE AnnounceLeaderCandidacy(n)
  <2>. DEFINE announced == IF MayAnnounce(n, ws) THEN {n} \cap DOMAIN ws ELSE {}
  <2>1. workers' = [u \in DOMAIN ws |->
          IF u \in announced THEN [ws[u] EXCEPT !.lstatus = "candidate"] ELSE ws[u]]
    BY <1>5 DEF AnnounceLeaderCandidacy, ws
  <2>2. Leads(v) => announced = {}
    BY <1>4 DEF MayAnnounce
  <2>. HIDE DEF announced
  <2>3. DOMAIN workers' = DOMAIN workers
    BY <1>1, <2>1
  <2>4. v \in DOMAIN workers =>
          workers'[v].status = workers[v].status /\ workers'[v].age = workers[v].age
    <3>1. CASE v \in announced
      BY <1>1, <1>2, <2>1, <3>1 DEF WorkerRec
    <3>2. CASE v \notin announced
      BY <1>1, <1>2, <2>1, <3>2
    <3>. QED  BY <3>1, <3>2
  <2>5. Leads(v) => IsRecorded(v)'
    BY <1>1, <1>3, <2>1, <2>2 DEF IsRecorded
  <2>. QED  BY <2>3, <2>4, <2>5, LiveAreUp DEF RecordGoesOn
<1>6. CASE CheckLeaderCandidacy(n)
  <2>1. workers' = [u \in DOMAIN ws |->
          [ws[u] EXCEPT !.lstatus = LStatusAfterCheck(n, ws, u)]]
    BY <1>6 DEF CheckLeaderCandidacy, ws
  <2>2. Leads(v) => LStatusAfterCheck(n, ws, v) = ws[v].lstatus
    <3>1. SUFFICES ASSUME Leads(v)
                   PROVE  LStatusAfterCheck(n, ws, v) = ws[v].lstatus
      OBVIOUS
    <3>2. ~Elects(n, ws) /\ v # n
      BY <1>3, <1>4, <3>1 DEF Elects
    <3>. QED  BY <3>2 DEF LStatusAfterCheck
  <2>. DEFINE ls == LStatusAfterCheck(n, ws, v)
  <2>3. v \in DOMAIN ws => workers'[v] = [ws[v] EXCEPT !.lstatus = ls]
    BY <2>1
  <2>4. DOMAIN workers' = DOMAIN ws
    BY <2>1
  <2>. HIDE DEF ls
  <2>5. v \in DOMAIN ws =>
          /\ workers'[v].status = workers[v].status /\ workers'[v].age = workers[v].age
          /\ workers'[v].lstatus = ls
    BY <1>1, <1>2, <2>3 DEF WorkerRec
  <2>6. Leads(v) => IsRecorded(v)'
    BY <1>3, <2>2, <2>4, <2>5 DEF IsRecorded, ls
  <2>. QED  BY <1>1, <2>4, <2>5, <2>6, LiveAreUp DEF RecordGoesOn
<1>. QED  BY <1>5, <1>6

LEMMA EnabledGoesOn ==
  ASSUME LiveWorkers, WorkersInv, NEW v \in Worker,
         NEW n \in Worker, up[n] = "up", SetWorkerStatus(n, "alive")
  PROVE  RecordGoesOn(v)
<1>1. CASE v # n \/ v \notin DOMAIN workers
  BY <1>1, SameRecordGoesOn DEF SetWorkerStatus
<1>2. CASE v = n /\ v \in DOMAIN workers
  <2>1. workers'[v] = [workers[v] EXCEPT !.status = "alive"] /\ v \in DOMAIN workers'
    BY <1>2 DEF SetWorkerStatus
  <2>2. /\ workers'[v].age = workers[v].age /\ workers'[v].status = "alive"
        /\ workers'[v].lstatus = workers[v].lstatus
    BY <1>2, <2>1, LiveAreUp DEF WorkerRec
  <2>. QED  BY <1>2, <2>1, <2>2, LiveAreUp, LeadersAreUp DEF RecordGoesOn, IsRecorded
<1>. QED  BY <1>1, <1>2

\* Whoever is down loses its office.
LEMMA ReleaseGoesOn ==
  ASSUME LiveWorkers, WorkersInv, NEW v \in Worker,
         NEW n \in Worker, up[n] # "up", SetWorkerLStatus(n, "normal")
  PROVE  RecordGoesOn(v)
<1>1. CASE v # n \/ v \notin DOMAIN workers
  BY <1>1, SameRecordGoesOn DEF SetWorkerLStatus
<1>2. CASE v = n /\ v \in DOMAIN workers
  <2>1. workers'[v] = [workers[v] EXCEPT !.lstatus = "normal"] /\ v \in DOMAIN workers'
    BY <1>2 DEF SetWorkerLStatus
  <2>2. workers'[v].status = workers[v].status
    BY <1>2, <2>1 DEF WorkersInv, WorkerRec
  <2>3. ~Leads(v)
    BY <1>2, LeadersAreUp
  <2>. QED  BY <1>2, <2>1, <2>2, <2>3 DEF RecordGoesOn
<1>. QED  BY <1>1, <1>2

\* What cannot happen as long as nothing but crashes goes wrong.
LEMMA OnlyCrashesDisrupt ==
  ASSUME CalmStep, NEW kind, Disrupts(kind)
  PROVE  kind = "crash"
BY DEF CalmStep, Disrupts

LEMMA CalmExcludes ==
  ASSUME CalmStep, NEW v \in Worker
  PROVE  /\ ~CallFails(v) /\ ~RequestFails(v) /\ ~ReleaseLeadership(v)
         /\ ~Disable(v) /\ ~Recover(v) /\ ~Close(v) /\ ~Exit(v)
         /\ ~CheckCandidacyFails(v)
         /\ \A t \in Topology : ~ClearStep(t)
<1>1. LiveWorker(v)
  BY DEF CalmStep, Calm, LiveWorkers
<1>2. /\ ~CallFails(v) /\ ~RequestFails(v) /\ ~ReleaseLeadership(v) /\ ~Disable(v)
  BY OnlyCrashesDisrupt DEF CallFails, RequestFails, ReleaseLeadership, Disable
<1>3. ~Recover(v)
  BY <1>1 DEF Recover, Pings, LiveWorker
<1>4. ~Close(v)
  BY <1>1, OnlyCrashesDisrupt DEF Close, LiveWorker
<1>5. ~Exit(v) /\ ~CheckCandidacyFails(v)
  BY <1>1
  DEF Exit, CheckCandidacyFails, CheckLeaderCandidacyFails, At, Loops, LiveWorker
<1>6. \A t \in Topology : ~ClearStep(t)
  BY DEF CalmStep, Calm, NobodyClears, ClearStep, ClearReadsTopology,
     ClearReadsWorkers, ClearSetsStatus, ClearSendsMessage
<1>. QED  BY <1>2, <1>3, <1>4, <1>5, <1>6

\* Only workers that are up run their loops.
LEMMA LoopsAreUp ==
  ASSUME CalmStep, NEW w \in Worker, LeaderStep(w)
  PROVE  up[w] = "up" /\ UNCHANGED <<up, is_running>>
<1>1. LiveWorker(w)
  BY DEF CalmStep, Calm, LiveWorkers
<1>2. CASE RefreshStatuses(w)
  <2>1. up[w] # "starting"
    BY <1>2, OnlyCrashesDisrupt DEF RefreshStatuses
  <2>. QED  BY <1>1, <1>2, <2>1 DEF RefreshStatuses, At, Loops, LiveWorker
<1>3. CASE MakeCall(w)
  BY <1>1, <1>3 DEF MakeCall, Loops, LiveWorker
<1>4. CASE \/ UnassignWaiting(w) \/ AnnounceCandidacy(w) \/ CheckCandidacy(w)
           \/ EndPass(w) \/ ConfirmLeadership(w) \/ AssignUnassigned(w) \/ Rebalance(w)
  BY <1>1, <1>4
  DEF UnassignWaiting, AnnounceCandidacy, CheckCandidacy, EndPass, ConfirmLeadership,
      AssignUnassigned, Rebalance, At, Loops, LiveWorker
<1>. QED  BY <1>2, <1>3, <1>4, CalmExcludes DEF LeaderStep

\* A call about another worker, or of another kind than unloaded.
LEMMA CallGoesOn ==
  ASSUME CalmStep, NEW w \in Worker, NEW c \in calls[w], Perform(c), NEW v \in Worker,
         ~(c.op = "unloaded" /\ c.worker = v)
  PROVE  RecordGoesOn(v)
<1>1. LiveWorkers /\ WorkersInv /\ LeaderTimeout # 0 /\ CalmCall(w, c) /\ c.op \in Op
  BY DEF CalmStep, Calm, CalmCalls, LeaderInv, RecordsInv, LoopsInv, GoodCall
<1>2. CASE c.op = "normal"
  BY <1>1, <1>2, ReleaseGoesOn DEF Perform, CalmCall
<1>3. CASE c.op = "unloaded"
  <2>1. SetWorkerStatus(c.worker, "unloaded") /\ v # c.worker
    BY <1>3 DEF Perform
  <2>. QED  BY <1>1, <2>1, SameRecordGoesOn DEF SetWorkerStatus
<1>4. CASE c.op \in {"list", "unassign", "assign", "start", "stop"}
  <2>1. UNCHANGED workers
    BY <1>4 DEF Perform, GetTopologiesForWorker, SetTopologyStatus, AssignTopology,
       SendMessageToWorker
  <2>. QED  BY <1>1, <2>1, ReadsGoOn
<1>. QED  BY <1>1, <1>2, <1>3, <1>4 DEF CalmCall, Op

LEMMA RecordsGoOn ==
  ASSUME CalmStep, NEW v \in Worker, ~Register(v), ~Delete(v),
         \A w \in Worker : ~MakeCall(w)
  PROVE  RecordGoesOn(v)
<1>0. LiveWorkers /\ WorkersInv /\ LeaderTimeout # 0 /\ LeaderNext
  BY DEF CalmStep, Calm, LeaderInv, RecordsInv
<1>1. ASSUME NEW n \in Worker,
             \/ RefreshStatuses(n) \/ UnassignWaiting(n) \/ ConfirmLeadership(n)
             \/ AssignUnassigned(n) \/ Rebalance(n) \/ RebalanceDue(n) \/ EndPass(n)
      PROVE  RecordGoesOn(v)
  <2>1. GetWorkerStatus \/ GetTopologyStatus \/ UNCHANGED workers
    BY <1>1 DEF RefreshStatuses, UnassignWaiting, ConfirmLeadership,
       AssignUnassigned, Rebalance, RebalanceDue, EndPass, storage_vars
  <2>. QED  BY <1>0, <2>1, ReadsGoOn
<1>2. ASSUME NEW n \in Worker, AnnounceCandidacy(n) \/ CheckCandidacy(n)
      PROVE  RecordGoesOn(v)
  <2>1. ~Leads(n) /\ (AnnounceLeaderCandidacy(n) \/ CheckLeaderCandidacy(n))
    BY <1>2 DEF AnnounceCandidacy, CheckCandidacy, At, Leads
  <2>. QED  BY <1>0, <2>1, ElectionsGoOn
<1>3. ASSUME NEW n \in Worker, WorkerStep(n)
      PROVE  RecordGoesOn(v)
  <2>1. Start(n) \/ Register(n) \/ Ping(n) \/ ReadMessages(n)
    BY <1>3, CalmExcludes DEF WorkerStep
  <2>2. CASE Start(n)
    BY <1>0, <2>2, ReadsGoOn DEF Start, storage_vars
  <2>3. CASE Register(n)
    <3>1. v # n /\ RegisterWorker(n)
      BY <2>3 DEF Register
    <3>2. /\ v \in DOMAIN workers' <=> v \in DOMAIN workers
          /\ v \in DOMAIN workers => workers'[v] = workers[v]
      BY <3>1 DEF RegisterWorker
    <3>. QED  BY <1>0, <3>2, SameRecordGoesOn
  <2>4. CASE Ping(n) \/ ReadMessages(n)
    <3>1. workers' = Pinged(n)
      BY <2>4 DEF Ping, PingWorker, ReadMessages, GetMessage, GetNoMessage
    <3>. QED  BY <1>0, <3>1, PingsGoOn
  <2>. QED  BY <2>1, <2>2, <2>3, <2>4
<1>4. ASSUME NEW n \in Worker, Disruption(n)
      PROVE  RecordGoesOn(v)
  <2>1. Crash(n) \/ Enable(n) \/ Delete(n)
    BY <1>4, CalmExcludes DEF Disruption
  <2>2. CASE Crash(n)
    BY <1>0, <2>2, ReadsGoOn DEF Crash, storage_vars
  <2>3. CASE Enable(n)
    BY <1>0, <2>3, EnabledGoesOn DEF Enable
  <2>4. CASE Delete(n)
    <3>1. v # n /\ DeleteWorker(n)
      BY <2>4 DEF Delete
    <3>2. /\ v \in DOMAIN workers' <=> v \in DOMAIN workers
          /\ v \in DOMAIN workers => workers'[v] = workers[v]
      BY <3>1 DEF DeleteWorker
    <3>. QED  BY <1>0, <3>2, SameRecordGoesOn
  <2>. QED  BY <2>1, <2>2, <2>3, <2>4
<1>5. ASSUME NEW n \in Worker, NEW t \in Topology, NEW status \in Reported,
             Report(n, t, status)
      PROVE  RecordGoesOn(v)
  BY <1>0, <1>5, ReadsGoOn DEF Report, SetTopologyStatus
<1>6. ASSUME NEW t \in Topology, ClearStep(t) \/ Client(t)
      PROVE  RecordGoesOn(v)
  <2>1. UNCHANGED workers
    BY <1>6, CalmExcludes
    DEF Client, RegisterTopology, EnableTopology, DisableTopology, SetEnabled
  <2>. QED  BY <1>0, <2>1, ReadsGoOn
<1>7. CASE TimePasses
  <2>1. workers' = AgeWorkers
        /\ \A u \in DOMAIN workers : Pings(u) => workers[u].age = 0
    BY <1>7, OnlyCrashesDisrupt DEF TimePasses, Tick
  <2>. QED  BY <1>0, <2>1, TimeGoesOn
<1>. QED  BY <1>0, <1>1, <1>2, <1>3, <1>4, <1>5, <1>6, <1>7, CalmExcludes
  DEF LeaderNext, LeaderStep

\* The calls of others leave a worker that is up alone.
LEMMA LiveGoOn ==
  ASSUME CalmStep, NEW w \in Worker, up[w] = "up"
  PROVE  RecordGoesOn(w)
<1>1. LiveWorkers /\ WorkersInv
  BY DEF CalmStep, Calm, LeaderInv, RecordsInv
<1>2. ~Register(w) /\ ~Delete(w)
  BY <1>1, LiveAreUp DEF Register, Delete, DeleteWorker
<1>3. ASSUME NEW u \in Worker, MakeCall(u)
      PROVE  RecordGoesOn(w)
  <2>1. PICK c \in calls[u] : Perform(c)
    BY <1>3 DEF MakeCall
  <2>2. CalmCall(u, c)
    BY DEF CalmStep, Calm, CalmCalls
  <2>3. ~(c.op = "unloaded" /\ c.worker = w)
    BY <2>2 DEF CalmCall, DealsWith
  <2>. QED  BY <2>1, <2>3, CallGoesOn
<1>. QED  BY <1>2, <1>3, RecordsGoOn

\* The steps of one worker leave what the others have seen.
LEMMA OthersHaveSeen ==
  ASSUME LeaderInv, NEW v \in Worker, NEW w \in Worker, v # w,
         LeaderStep(v) \/ RebalanceDue(v) \/ WorkerStep(v) \/ Disruption(v)
  PROVE  seen'[w] = seen[w]
<1>1. seen = [u \in Worker |-> seen[u]]
  BY DEF LeaderInv, LoopsInv
<1>2. UNCHANGED seen \/ \E x : seen' = [seen EXCEPT ![v] = x]
  <2>1. CASE LeaderStep(v) \/ CallFails(v)
    BY <2>1 DEF LeaderStep, MakeCall,
     RefreshStatuses, UnassignWaiting, AnnounceCandidacy, CheckCandidacy,
     CheckCandidacyFails, EndPass, ConfirmLeadership, AssignUnassigned, Rebalance,
     CallFails
  <2>2. CASE RebalanceDue(v) \/ WorkerStep(v) \/ (Disruption(v) /\ ~CallFails(v))
    BY <2>2
    DEF RebalanceDue, WorkerStep, Disruption,
     Start, Register, Ping, Recover, Close, Exit, ReadMessages, Crash,
     ReleaseLeadership, Disable, Enable, RequestFails, Delete,
     ProcessEnds, leader_vars, loop_vars
  <2>. QED  BY <2>1, <2>2
<1>. QED  BY <1>1, <1>2

\* What a step leaves as it is of a worker that does not take it itself.
LEMMA StepsOfOthers ==
  ASSUME CalmStep, NEW w \in Worker,
         ~LeaderStep(w), ~RebalanceDue(w), ~WorkerStep(w), ~Disruption(w)
  PROVE  /\ up'[w] = up[w] /\ is_running'[w] = is_running[w]
         /\ calls'[w] = calls[w] /\ step'[w] = step[w] /\ seen'[w] = seen[w]
<1>1. LeaderNext /\ LeaderInv /\ LeaderTypeOK
  BY DEF CalmStep, LoopTypes
<1>2. ASSUME NEW v \in Worker,
             LeaderStep(v) \/ RebalanceDue(v) \/ WorkerStep(v) \/ Disruption(v)
      PROVE  /\ up'[w] = up[w] /\ is_running'[w] = is_running[w]
             /\ calls'[w] = calls[w] /\ step'[w] = step[w] /\ seen'[w] = seen[w]
  BY <1>1, <1>2, OtherLoops, OthersHaveSeen
<1>3. ASSUME \/ \E v \in Worker, t \in Topology, status \in Reported : Report(v, t, status)
             \/ \E t \in Topology : Client(t)
             \/ TimePasses
      PROVE  UNCHANGED <<up, is_running, calls, step, seen>>
  BY <1>3 DEF Report, Client, TimePasses, leader_vars, loop_vars
<1>. QED  BY <1>1, <1>2, <1>3, CalmExcludes DEF LeaderNext

LEMMA StaysLive ==
  ASSUME CalmStep, NEW w \in Worker,
         up'[w] = up[w], step'[w] = step[w], calls'[w] = calls[w],
         is_running'[w] = is_running[w]
  PROVE  LiveWorker(w)'
<1>1. LiveWorker(w)
  BY DEF CalmStep, Calm, LiveWorkers
<1>2. CASE up[w] = "up"
  <2>1. RecordGoesOn(w)
    BY <1>2, LiveGoOn
  <2>. QED  BY <1>1, <1>2, <2>1 DEF LiveWorker, RecordGoesOn, Leads
<1>3. CASE up[w] # "up"
  BY <1>1, <1>3 DEF LiveWorker, Leads
<1>. QED  BY <1>2, <1>3

LEMMA OwnStepLive ==
  ASSUME CalmStep, NEW w \in Worker, LeaderStep(w)
  PROVE  LiveWorker(w)'
<1>1. up[w] = "up" /\ UNCHANGED <<up, is_running>>
  BY LoopsAreUp
<1>2. RecordGoesOn(w) /\ LiveWorker(w)
  BY <1>1, LiveGoOn DEF CalmStep, Calm, LiveWorkers
<1>3. step \in [Worker -> Step] /\ is_running[w] /\ step[w] # "stopped"
  BY <1>1, <1>2 DEF CalmStep, LoopTypes, LeaderTypeOK, LiveWorker
<1>4. ASSUME step'[w] # "stopped", Leads(w)' => IsRecorded(w)'
      PROVE  LiveWorker(w)'
  BY <1>1, <1>2, <1>3, <1>4 DEF LiveWorker, RecordGoesOn
<1>5. CASE MakeCall(w)
  <2>1. UNCHANGED step
    BY <1>5 DEF MakeCall
  <2>. QED  BY <1>2, <1>3, <1>4, <2>1 DEF Leads, RecordGoesOn
<1>6. CASE RefreshStatuses(w) \/ UnassignWaiting(w) \/ AnnounceCandidacy(w)
           \/ CheckCandidacy(w) \/ Rebalance(w)
  <2>1. \E x \in {"defunct", "waiting", "announced", "elected", "end"} :
          step' = [step EXCEPT ![w] = x]
    BY <1>6 DEF RefreshStatuses, UnassignWaiting, AnnounceCandidacy, CheckCandidacy,
       Rebalance
  <2>2. step'[w] # "stopped" /\ ~Leads(w)'
    BY <1>3, <2>1 DEF Leads
  <2>. QED  BY <1>4, <2>2
<1>7. CASE EndPass(w)
  <2>1. step' = [step EXCEPT ![w] = IF is_running[w] THEN "sleep" ELSE "stopped"]
    BY <1>7 DEF EndPass
  <2>2. step'[w] = "sleep"
    BY <1>3, <2>1
  <2>3. step'[w] # "stopped" /\ ~Leads(w)'
    BY <2>2 DEF Leads
  <2>. QED  BY <1>4, <2>3
<1>8. CASE ConfirmLeadership(w)
  <2>. DEFINE serves == IsRecorded(w)' /\ Alive(w)'
  <2>1. step' = [step EXCEPT ![w] = IF serves THEN "dead" ELSE "end"]
    BY <1>8 DEF ConfirmLeadership
  <2>2. step'[w] = IF serves THEN "dead" ELSE "end"
    BY <1>3, <2>1
  <2>3. step'[w] # "stopped" /\ (Leads(w)' => IsRecorded(w)')
    BY <2>2 DEF Leads
  <2>. QED  BY <1>4, <2>3
<1>9. CASE AssignUnassigned(w)
  <2>1. Leads(w) /\ step' = [step EXCEPT ![w] = "assign"]
    BY <1>9 DEF AssignUnassigned, At, Leads
  <2>2. step'[w] # "stopped" /\ IsRecorded(w)'
    BY <1>2, <1>3, <2>1 DEF RecordGoesOn
  <2>. QED  BY <1>4, <2>2
<1>. QED  BY <1>5, <1>6, <1>7, <1>8, <1>9, CalmExcludes DEF LeaderStep

LEMMA LiveWorkersStep ==
  ASSUME CalmStep, NEW w \in Worker
  PROVE  LiveWorker(w)'
<1>1. LiveWorker(w) /\ LeaderTypeOK
  BY DEF CalmStep, Calm, LiveWorkers, LoopTypes
<1>2. CASE LeaderStep(w)
  BY <1>2, OwnStepLive
<1>3. CASE Register(w)
  <2>1. /\ up[w] = "starting" /\ up'[w] = "up"
        /\ RegisterWorker(w) /\ UNCHANGED loop_vars
    BY <1>1, <1>3 DEF Register, LeaderTypeOK
  <2>2. /\ w \in DOMAIN workers'
        /\ workers'[w] = [age |-> 0, status |-> "alive", lstatus |-> "normal"]
    BY <2>1 DEF RegisterWorker
  <2>3. step'[w] = step[w] /\ is_running'[w] = is_running[w]
    BY <2>1 DEF loop_vars
  <2>4. step[w] = "sleep" /\ is_running[w]
    BY <1>1, <2>1 DEF LiveWorker
  <2>. QED  BY <2>1, <2>2, <2>3, <2>4 DEF LiveWorker, Leads
<1>4. CASE Start(w)
  <2>1. /\ up[w] = "down" /\ up'[w] = "starting" /\ step'[w] = "sleep"
        /\ is_running'[w] /\ UNCHANGED <<workers, calls>>
    BY <1>1, <1>4, Zenon DEF Start, LeaderTypeOK, storage_vars
  <2>. QED  BY <1>1, <2>1 DEF LiveWorker, Leads
<1>5. CASE Crash(w)
  <2>1. /\ up'[w] = "down" /\ step'[w] = "stopped" /\ calls'[w] = {}
    BY <1>1, <1>5 DEF Crash, ProcessEnds, LeaderTypeOK
  <2>. QED  BY <2>1 DEF LiveWorker, Leads
<1>6. CASE RebalanceDue(w) \/ Ping(w) \/ ReadMessages(w) \/ Enable(w) \/ Delete(w)
  <2>1. UNCHANGED <<up, step, calls, is_running>>
    BY <1>6 DEF RebalanceDue, Ping, ReadMessages, Enable, Delete, leader_vars, loop_vars
  <2>. QED  BY <2>1, StaysLive
<1>7. CASE ~LeaderStep(w) /\ ~RebalanceDue(w) /\ ~WorkerStep(w) /\ ~Disruption(w)
  BY <1>7, StepsOfOthers, StaysLive
<1>. QED  BY <1>2, <1>3, <1>4, <1>5, <1>6, <1>7, CalmExcludes DEF WorkerStep, Disruption

\* Worker w makes its call c.
Makes(w, c) ==
  /\ c \in calls[w] /\ Ready(w, c) /\ Perform(c)
  /\ calls'[w] = (calls[w] \ {c}) \cup
       IF c.op = "list"
       THEN HandleDeadWorker(c.worker, TopologiesOf(c.worker)', topologies')
       ELSE {}
  /\ \A u \in Worker : u # w => calls'[u] = calls[u]
  /\ UNCHANGED <<up, step, seen>>

LEMMA CallsAreMade ==
  ASSUME CalmStep, NEW w \in Worker, MakeCall(w)
  PROVE  \E c \in calls[w] : Makes(w, c) /\ CalmCall(w, c)
<1>1. calls \in [Worker -> SUBSET Call] /\ CalmCalls
  BY DEF CalmStep, LoopTypes, LeaderTypeOK, Calm
<1>2. PICK c \in calls[w] :
        /\ Ready(w, c) /\ Perform(c)
        /\ calls' = [calls EXCEPT ![w] = (@ \ {c}) \cup
             IF c.op = "list"
             THEN HandleDeadWorker(c.worker, TopologiesOf(c.worker)', topologies')
             ELSE {}]
  BY DEF MakeCall
<1>. DEFINE H == IF c.op = "list"
                 THEN HandleDeadWorker(c.worker, TopologiesOf(c.worker)', topologies')
                 ELSE {}
<1>3. calls' = [calls EXCEPT ![w] = (calls[w] \ {c}) \cup H]
  BY <1>2
<1>. HIDE DEF H
<1>4. calls'[w] = (calls[w] \ {c}) \cup H /\ \A u \in Worker : u # w => calls'[u] = calls[u]
  BY <1>1, <1>3
<1>5. UNCHANGED <<up, step, seen>>
  BY DEF MakeCall
<1>6. CalmCall(w, c)
  BY <1>1 DEF CalmCalls
<1>. QED  BY <1>2, <1>4, <1>5, <1>6 DEF Makes, H

\* Records change in four ways.
LEMMA FateOfRecord ==
  ASSUME CalmStep, NEW v \in Worker
  PROVE  \/ RecordGoesOn(v) \/ Register(v) \/ Delete(v)
         \/ \E w \in Worker : \E c \in calls[w] :
              Makes(w, c) /\ CalmCall(w, c) /\ c.op = "unloaded" /\ c.worker = v
<1>1. ASSUME NEW w \in Worker, MakeCall(w)
      PROVE  \/ RecordGoesOn(v)
             \/ \E c \in calls[w] :
                  Makes(w, c) /\ CalmCall(w, c) /\ c.op = "unloaded" /\ c.worker = v
  <2>1. PICK c \in calls[w] : Makes(w, c) /\ CalmCall(w, c)
    BY <1>1, CallsAreMade
  <2>2. Perform(c)
    BY <2>1 DEF Makes
  <2>. QED  BY <2>1, <2>2, CallGoesOn
<1>. QED  BY <1>1, RecordsGoOn

LEMMA StatusesStep ==
  ASSUME CalmStep
  PROVE  Statuses'
<1>. SUFFICES ASSUME NEW v \in DOMAIN workers'
              PROVE  workers'[v].status \in {"alive", "dead", "unloaded"}
  BY DEF Statuses
<1>1. v \in Worker /\ Statuses
  BY DEF CalmStep, LeaderInv, RecordsInv, WorkersInv, Calm
<1>2. CASE RecordGoesOn(v)
  BY <1>1, <1>2 DEF RecordGoesOn, Statuses
<1>3. CASE Register(v)
  BY <1>3 DEF Register, RegisterWorker
<1>4. CASE Delete(v)
  BY <1>4 DEF Delete, DeleteWorker
<1>5. ASSUME NEW w \in Worker, NEW c \in calls[w], Makes(w, c), c.op = "unloaded",
             c.worker = v
      PROVE  workers'[v].status \in {"alive", "dead", "unloaded"}
  <2>1. SetWorkerStatus(v, "unloaded")
    BY <1>5 DEF Makes, Perform
  <2>2. workers'[v] = [workers[v] EXCEPT !.status = "unloaded"] /\ v \in DOMAIN workers
    BY <2>1 DEF SetWorkerStatus
  <2>3. workers[v] \in WorkerRec
    BY <2>2 DEF CalmStep, LeaderInv, RecordsInv, WorkersInv
  <2>. QED  BY <2>2, <2>3 DEF WorkerRec
<1>. QED  BY <1>1, <1>2, <1>3, <1>4, <1>5, FateOfRecord

\* No topology becomes active on v.
NothingComesTo(v) ==
  \A t \in DOMAIN topologies' :
    topologies'[t].worker = v /\ ~GivenUp(t)' =>
      t \in DOMAIN topologies /\ topologies[t].worker = v /\ ~GivenUp(t)

\* One record of a topology changes.
LEMMA OneTopologyChanges ==
  ASSUME NEW v \in Worker, NEW t, NEW rec,
         topologies' = [u \in DOMAIN topologies |-> IF u = t THEN rec ELSE topologies[u]],
         t \in DOMAIN topologies =>
           \/ rec.worker # v \/ rec.status \in {"unassigned", "error"}
           \/ rec.worker = topologies[t].worker /\ rec.status = topologies[t].status
  PROVE  NothingComesTo(v)
BY DEF NothingComesTo, GivenUp

LEMMA NothingComesIf ==
  ASSUME TopologiesInv, NEW v \in Worker,
         \/ UNCHANGED topologies
         \/ GetWorkerStatus \/ GetTopologyStatus \/ GetTopologiesForWorker
         \/ \E t \in Topology : SetTopologyStatus(t, NoWorker, "unassigned")
         \/ \E t \in Topology, w \in Worker :
              w # v /\ \E status : SetTopologyStatus(t, w, status)
         \/ \E t \in Topology : \E w : w # v /\ AssignTopology(t, w)
         \/ \E t \in Topology : RegisterTopology(t)
         \/ \E t \in Topology : \E enabled : SetEnabled(t, enabled)
         \/ topologies' = AgeTopologies
  PROVE  NothingComesTo(v)
<1>0. v # NoWorker
  BY WorkersAreNumbers
<1>1. \A u \in DOMAIN topologies : topologies[u] \in TopologyRec
  BY DEF TopologiesInv
<1>2. CASE UNCHANGED topologies \/ GetWorkerStatus
  BY <1>2 DEF NothingComesTo, GivenUp, GetWorkerStatus
<1>3. CASE GetTopologyStatus \/ GetTopologiesForWorker
  <2>. DEFINE T == {t \in DOMAIN topologies : WaitingTooLong(t) \/ OnDeadWorker(t)}
  <2>1. topologies' = [t \in DOMAIN topologies |->
          IF t \in T THEN [topologies[t] EXCEPT !.status = "unassigned",
                                                 !.worker = NoWorker]
                     ELSE topologies[t]]
    BY <1>3 DEF GetTopologyStatus, GetTopologiesForWorker, UnassignWaitingTopologies
  <2>. HIDE DEF T
  <2>. QED  BY <1>0, <1>1, <2>1 DEF NothingComesTo, GivenUp, TopologyRec
<1>4. ASSUME NEW t \in Topology, NEW w, NEW status, SetTopologyStatus(t, w, status),
             status = "unassigned" \/ (w \in Worker /\ w # v)
      PROVE  NothingComesTo(v)
  <2>1. CASE ~Accepted(t, w)
    BY <1>4, <2>1 DEF SetTopologyStatus, NothingComesTo, GivenUp
  <2>2. CASE Accepted(t, w)
    <3>. DEFINE rec == [topologies[t] EXCEPT !.status = status, !.age = 0]
    <3>1. topologies' = [u \in DOMAIN topologies |-> IF u = t THEN rec ELSE topologies[u]]
      BY <1>4, <2>2 DEF SetTopologyStatus, WithTopology
    <3>2. rec.worker = topologies[t].worker /\ rec.status = status
      BY <1>1, <2>2 DEF TopologyRec, Accepted
    <3>3. rec.worker # v \/ rec.status \in {"unassigned", "error"}
      BY <1>4, <2>2, <3>2, WorkersAreNumbers DEF Accepted
    <3>. HIDE DEF rec
    <3>. QED  BY <3>1, <3>3, OneTopologyChanges
  <2>. QED  BY <2>1, <2>2
<1>5. ASSUME NEW t \in Topology, NEW w, w # v, AssignTopology(t, w)
      PROVE  NothingComesTo(v)
  <2>. DEFINE rec == [topologies[t] EXCEPT !.worker = w, !.status = "waiting", !.age = 0]
  <2>1. topologies' = [u \in DOMAIN topologies |-> IF u = t THEN rec ELSE topologies[u]]
    BY <1>5 DEF AssignTopology, WithTopology
  <2>2. t \in DOMAIN topologies => rec.worker # v
    BY <1>1, <1>5 DEF TopologyRec
  <2>. HIDE DEF rec
  <2>. QED  BY <2>1, <2>2, OneTopologyChanges
<1>6. ASSUME NEW t \in Topology, RegisterTopology(t)
      PROVE  NothingComesTo(v)
  <2>. DEFINE fresh == [age |-> 0, status |-> "unassigned",
                        worker |-> NoWorker, enabled |-> FALSE]
              again == [topologies[t] EXCEPT !.age = 0]
  <2>1. topologies' = [u \in DOMAIN topologies \cup {t} |->
          IF u # t THEN topologies[u]
          ELSE IF t \in DOMAIN topologies THEN again ELSE fresh]
    BY <1>6 DEF RegisterTopology
  <2>2. t \in DOMAIN topologies =>
          again.worker = topologies[t].worker /\ again.status = topologies[t].status
    BY <1>1 DEF TopologyRec
  <2>3. fresh.worker = NoWorker
    OBVIOUS
  <2>. HIDE DEF fresh, again
  <2>. QED  BY <1>0, <2>1, <2>2, <2>3 DEF NothingComesTo, GivenUp
<1>7. ASSUME NEW t \in Topology, NEW enabled, SetEnabled(t, enabled)
      PROVE  NothingComesTo(v)
  <2>. DEFINE rec == [topologies[t] EXCEPT !.enabled = enabled]
  <2>1. topologies' = [u \in DOMAIN topologies |-> IF u = t THEN rec ELSE topologies[u]]
    BY <1>7 DEF SetEnabled, WithTopology
  <2>2. t \in DOMAIN topologies =>
          rec.worker = topologies[t].worker /\ rec.status = topologies[t].status
    BY <1>1 DEF TopologyRec
  <2>. HIDE DEF rec
  <2>. QED  BY <2>1, <2>2, OneTopologyChanges
<1>8. CASE topologies' = AgeTopologies
  <2>1. ASSUME NEW t \in DOMAIN topologies
        PROVE  /\ topologies'[t].worker = topologies[t].worker
               /\ topologies'[t].status = topologies[t].status
    <3>1. topologies[t] \in TopologyRec
      BY <1>1
    <3>2. \/ topologies'[t] = topologies[t]
          \/ topologies'[t] = [topologies[t] EXCEPT !.age = Older(topologies[t].age)]
      BY <1>8 DEF AgeTopologies
    <3>. QED  BY <3>1, <3>2 DEF TopologyRec
  <2>2. DOMAIN topologies' = DOMAIN topologies
    BY <1>8 DEF AgeTopologies
  <2>. QED  BY <2>1, <2>2 DEF NothingComesTo, GivenUp
<1>9. CASE \E t \in Topology : SetTopologyStatus(t, NoWorker, "unassigned")
  BY <1>4, <1>9
<1>10. CASE \E t \in Topology, w \in Worker :
              w # v /\ \E status : SetTopologyStatus(t, w, status)
  BY <1>4, <1>10
<1>. QED  BY <1>2, <1>3, <1>5, <1>6, <1>7, <1>8, <1>9, <1>10

LEMMA NothingComesByCall ==
  ASSUME CalmStep, NEW w \in Worker, NEW c \in calls[w], Makes(w, c),
         CalmCall(w, c), NEW v \in Worker, ~(c.op = "assign" /\ c.worker = v)
  PROVE  NothingComesTo(v)
<1>1. TopologiesInv /\ c \in Call /\ Perform(c)
  BY DEF CalmStep, LeaderInv, RecordsInv, LoopTypes, LeaderTypeOK, Makes
<1>2. c.op \in Op /\ c.topologies \subseteq Topology
  BY <1>1 DEF Call
<1>3. CASE c.op = "unassign"
  BY <1>1, <1>2, <1>3, NothingComesIf DEF Perform
<1>4. CASE c.op = "assign"
  <2>1. PICK t \in c.topologies : AssignTopology(t, c.worker)
    BY <1>1, <1>4 DEF Perform
  <2>2. c.worker # v
    BY <1>4
  <2>. QED  BY <1>1, <1>2, <2>1, <2>2, NothingComesIf
<1>5. CASE c.op = "list"
  BY <1>1, <1>5, NothingComesIf DEF Perform
<1>6. CASE c.op \in {"dead", "normal", "unloaded", "start", "stop"}
  <2>1. UNCHANGED topologies
    BY <1>1, <1>6 DEF Perform, SetWorkerStatus, SetWorkerLStatus, SendMessageToWorker
  <2>. QED  BY <1>1, <2>1, NothingComesIf
<1>. QED  BY <1>2, <1>3, <1>4, <1>5, <1>6 DEF Op

\* A worker that is down gets topologies only by an assignment.
LEMMA NothingComesToTheDown ==
  ASSUME CalmStep, NEW v \in Worker, up[v] # "up"
  PROVE  \/ NothingComesTo(v)
         \/ \E w \in Worker : \E c \in calls[w] :
              Makes(w, c) /\ CalmCall(w, c) /\ c.op = "assign" /\ c.worker = v
<1>0. TopologiesInv /\ LeaderNext
  BY DEF CalmStep, LeaderInv, RecordsInv
<1>1. ASSUME NEW w \in Worker, MakeCall(w)
      PROVE  \/ NothingComesTo(v)
             \/ \E c \in calls[w] :
                  Makes(w, c) /\ CalmCall(w, c) /\ c.op = "assign" /\ c.worker = v
  BY <1>1, CallsAreMade, NothingComesByCall
<1>2. ASSUME NEW n \in Worker, LeaderStep(n) \/ RebalanceDue(n), ~MakeCall(n)
      PROVE  NothingComesTo(v)
  <2>1. UNCHANGED topologies \/ GetWorkerStatus \/ GetTopologyStatus
    BY <1>2, CalmExcludes
    DEF LeaderStep, RefreshStatuses, UnassignWaiting, AnnounceCandidacy,
        AnnounceLeaderCandidacy, CheckCandidacy, CheckLeaderCandidacy, EndPass,
        ConfirmLeadership, AssignUnassigned, Rebalance, RebalanceDue, storage_vars
  <2>. QED  BY <1>0, <2>1, NothingComesIf
<1>3. ASSUME NEW n \in Worker, WorkerStep(n) \/ Disruption(n)
      PROVE  NothingComesTo(v)
  <2>1. UNCHANGED topologies
    BY <1>3, CalmExcludes
    DEF WorkerStep, Disruption, Start, Register, RegisterWorker, Ping, PingWorker,
        ReadMessages, GetMessage, GetNoMessage, Enable, SetWorkerStatus, Crash,
        Delete, DeleteWorker, storage_vars
  <2>. QED  BY <1>0, <2>1, NothingComesIf
<1>4. ASSUME NEW n \in Worker, NEW t \in Topology, NEW status \in Reported,
             Report(n, t, status)
      PROVE  NothingComesTo(v)
  <2>1. LiveWorker(n) /\ Pings(n) /\ SetTopologyStatus(t, n, status)
    BY <1>4 DEF CalmStep, Calm, LiveWorkers, Report
  <2>2. n # v
    BY <2>1 DEF LiveWorker, Pings
  <2>. QED  BY <1>0, <2>1, <2>2, NothingComesIf
<1>5. ASSUME NEW t \in Topology, Client(t)
      PROVE  NothingComesTo(v)
  BY <1>0, <1>5, NothingComesIf DEF Client, EnableTopology, DisableTopology
<1>6. CASE TimePasses
  BY <1>0, <1>6, NothingComesIf DEF TimePasses, Tick
<1>. QED  BY <1>0, <1>1, <1>2, <1>3, <1>4, <1>5, <1>6, CalmExcludes DEF LeaderNext

LEMMA EmptiedStep ==
  ASSUME CalmStep
  PROVE  Emptied'
<1>. SUFFICES ASSUME NEW t \in DOMAIN topologies', NEW v, v = topologies'[t].worker,
                     Unloaded(v)'
              PROVE  GivenUp(t)'
  BY DEF Emptied
<1>1. v \in Worker /\ LiveWorkers /\ Statuses /\ Emptied /\ WorkersInv
  BY DEF Unloaded, CalmStep, LeaderInv, RecordsInv, WorkersInv, Calm
<1>2. CASE RecordGoesOn(v)
  <2>1. Unloaded(v)
    BY <1>2 DEF RecordGoesOn, Unloaded
  <2>2. up[v] # "up"
    BY <1>1, <2>1, LiveAreUp DEF Unloaded
  <2>3. NothingComesTo(v)
    BY <1>1, <2>1, <2>2, NothingComesToTheDown DEF CalmCall
  <2>. QED  BY <1>1, <2>1, <2>3 DEF NothingComesTo, Emptied
<1>3. CASE Register(v)
  BY <1>3 DEF Register, RegisterWorker, Unloaded
<1>4. CASE Delete(v)
  BY <1>4 DEF Delete, DeleteWorker, Unloaded
<1>5. ASSUME NEW w \in Worker, NEW c \in calls[w], Makes(w, c), CalmCall(w, c),
             c.op = "unloaded", c.worker = v
      PROVE  GivenUp(t)'
  <2>1. UNCHANGED topologies
    BY <1>5 DEF Makes, Perform, SetWorkerStatus
  <2>2. GivenUp(t) \/ ACall("unassign", v, {t}) \in calls[w]
    BY <1>5, <2>1 DEF CalmCall
  <2>3. ACall("unassign", v, {t}) \notin calls[w]
    <3>. DEFINE d == ACall("unassign", v, {t})
    <3>1. d.worker = v /\ d.op = "unassign" /\ <<"unassign", "unloaded">> \in Precedes
      BY DEF ACall, Precedes
    <3>. HIDE DEF d
    <3>2. d \notin calls[w]
      BY <1>5, <3>1 DEF Makes, Ready
    <3>. QED  BY <3>2 DEF d
  <2>. QED  BY <2>1, <2>2, <2>3 DEF GivenUp
<1>. QED  BY <1>1, <1>2, <1>3, <1>4, <1>5, FateOfRecord

LEMMA DownStayDown ==
  ASSUME CalmStep, NEW v \in Worker, up[v] # "up", ~Register(v)
  PROVE  up'[v] # "up"
<1>1. up \in [Worker -> Life]
  BY DEF CalmStep, LoopTypes, LeaderTypeOK
<1>2. CASE Start(v)
  BY <1>1, <1>2 DEF Start
<1>3. CASE Crash(v)
  BY <1>1, <1>3 DEF Crash, ProcessEnds
<1>4. CASE LeaderStep(v)
  BY <1>4, LoopsAreUp
<1>5. CASE RebalanceDue(v) \/ Ping(v) \/ ReadMessages(v) \/ Enable(v) \/ Delete(v)
  BY <1>5 DEF RebalanceDue, Ping, ReadMessages, Enable, Delete, leader_vars
<1>6. CASE ~LeaderStep(v) /\ ~RebalanceDue(v) /\ ~WorkerStep(v) /\ ~Disruption(v)
  BY <1>6, StepsOfOthers
<1>. QED  BY <1>2, <1>3, <1>4, <1>5, <1>6, CalmExcludes DEF WorkerStep, Disruption

\* Worker v is not pronounced unloaded in this step.
Spared(v) ==
  ~\E w \in Worker : \E c \in calls[w] :
     Makes(w, c) /\ c.op = "unloaded" /\ c.worker = v

\* A dead worker stays so while the leader deals with it.
LEMMA DealsOn ==
  ASSUME CalmStep, NEW w \in Worker, NEW v, DealsWith(w, v), CallsAbout(v), Spared(v),
         step'[w] = step[w], seen'[w] = seen[w]
  PROVE  DealsWith(w, v)'
<1>1. v \in Worker /\ ~Register(v)
  BY DEF DealsWith, CalmStep
<1>2. up'[v] # "up"
  BY <1>1, DownStayDown DEF DealsWith
<1>3. ~Delete(v)
  BY DEF DealsWith, Delete, DeleteWorker
<1>4. RecordGoesOn(v)
  BY <1>1, <1>3, FateOfRecord DEF Spared
<1>. QED  BY <1>1, <1>2, <1>4 DEF DealsWith, RecordGoesOn

\* Who deals with a dead worker is alone in that.
LEMMA OneDeals ==
  ASSUME CalmStep, NEW w \in Worker, Leads(w), NEW u \in Worker, NEW v, DealsWith(u, v)
  PROVE  u = w
BY OneLeads DEF CalmStep, Calm, LeaderInv, RecordsInv, DealsWith, Leads

LEMMA OneUnloads ==
  ASSUME CalmStep, NEW w \in Worker, Leads(w), NEW v,
         \A c \in calls[w] : ~(Makes(w, c) /\ c.op = "unloaded" /\ c.worker = v)
  PROVE  Spared(v)
<1>1. ASSUME NEW u \in Worker, NEW c \in calls[u], Makes(u, c), c.op = "unloaded",
             c.worker = v
      PROVE  FALSE
  <2>1. CalmCall(u, c)
    BY DEF CalmStep, Calm, CalmCalls
  <2>2. DealsWith(u, v)
    BY <1>1, <2>1 DEF CalmCall
  <2>. QED  BY <1>1, <2>2, OneDeals
<1>. QED  BY <1>1 DEF Spared

\* A worker that was not unloaded is not so after a step that spares it.
LEMMA SparedAreNotUnloaded ==
  ASSUME CalmStep, NEW v \in Worker, ~Unloaded(v), Spared(v)
  PROVE  ~Unloaded(v)'
<1>1. CASE RecordGoesOn(v)
  BY <1>1 DEF RecordGoesOn, Unloaded
<1>2. CASE Register(v)
  BY <1>2 DEF Register, RegisterWorker, Unloaded
<1>3. CASE Delete(v)
  BY <1>3 DEF Delete, DeleteWorker, Unloaded
<1>. QED  BY <1>1, <1>2, <1>3, FateOfRecord DEF Spared

LEMMA SeenCalmStep ==
  ASSUME CalmStep, NEW w \in Worker, step'[w] = "dead", NEW v \in seen'[w].alive
  PROVE  ~Unloaded(v)'
<1>1. /\ LeaderInv /\ SeenCalm /\ CalmCalls /\ step \in [Worker -> Step] /\ v \in Worker
      /\ up \in [Worker -> Life]
  BY DEF CalmStep, Calm, LoopTypes, LeaderTypeOK, LeaderInv, LoopsInv
<1>2. CASE step'[w] = step[w] /\ seen'[w] = seen[w]
  <2>1. Leads(w) /\ ~Unloaded(v) /\ v \in seen[w].alive
    BY <1>1, <1>2 DEF Leads, SeenCalm
  <2>2. ASSUME NEW c \in calls[w], c.op = "unloaded", c.worker = v
        PROVE  FALSE
    BY <1>1, <2>1, <2>2 DEF CalmCalls, CalmCall, DealsWith
  <2>3. Spared(v)
    BY <2>1, <2>2, OneUnloads
  <2>. QED  BY <1>1, <2>1, <2>3, SparedAreNotUnloaded
<1>3. CASE ConfirmLeadership(w)
  <2>. DEFINE serves == IsRecorded(w)' /\ Alive(w)'
  <2>1. seen' = [seen EXCEPT ![w] =
              [Unseen EXCEPT !.alive = IF serves THEN AliveWorkers' ELSE {}]]
    BY <1>3 DEF ConfirmLeadership
  <2>2. seen'[w] = [Unseen EXCEPT !.alive = IF serves THEN AliveWorkers' ELSE {}]
    BY <1>1, <2>1 DEF LeaderInv, LoopsInv
  <2>3. v \in AliveWorkers'
    BY <2>2 DEF Unseen
  <2>. QED  BY <2>3 DEF AliveWorkers, Unloaded
<1>4. CASE MakeCall(w) \/ RebalanceDue(w) \/ Register(w) \/ Ping(w) \/ ReadMessages(w)
           \/ Enable(w) \/ Delete(w)
  <2>1. UNCHANGED <<step, seen>>
    BY <1>4 DEF MakeCall, RebalanceDue, Register, Ping, ReadMessages, Enable, Delete,
       leader_vars, loop_vars
  <2>. QED  BY <1>2, <2>1
<1>5. CASE ~LeaderStep(w) /\ ~RebalanceDue(w) /\ ~WorkerStep(w) /\ ~Disruption(w)
  BY <1>2, <1>5, StepsOfOthers
<1>6. CASE RefreshStatuses(w) \/ UnassignWaiting(w) \/ AnnounceCandidacy(w)
           \/ CheckCandidacy(w) \/ EndPass(w) \/ AssignUnassigned(w) \/ Rebalance(w)
           \/ Start(w) \/ Crash(w)
  <2>1. \E x \in {"defunct", "waiting", "announced", "elected", "end", "sleep",
                  "stopped", "assign"} : step' = [step EXCEPT ![w] = x]
    BY <1>6 DEF RefreshStatuses, UnassignWaiting, AnnounceCandidacy, CheckCandidacy,
       EndPass, AssignUnassigned, Rebalance, Start, Crash, ProcessEnds
  <2>2. step'[w] # "dead"
    BY <1>1, <2>1
  <2>. QED  BY <2>2
<1>. QED  BY <1>3, <1>4, <1>5, <1>6, CalmExcludes DEF LeaderStep, WorkerStep, Disruption

\* What is still to be done about a dead worker is known while others act.
LEMMA CallStaysCalm ==
  ASSUME CalmStep, NEW w \in Worker, calls'[w] = calls[w], step'[w] = step[w],
         seen'[w] = seen[w], NEW d \in calls[w]
  PROVE  CalmCall(w, d)'
<1>1. CalmCall(w, d) /\ CalmCalls
  BY DEF CalmStep, Calm, CalmCalls
<1>2. ASSUME NEW v, NEW c \in calls[w], Makes(w, c), c.op = "unloaded" \/ c.op = "assign"
      PROVE  FALSE
  BY <1>2 DEF Makes
<1>3. ASSUME Leads(w), NEW v
      PROVE  Spared(v)
  BY <1>2, <1>3, OneUnloads
<1>4. ASSUME d.op \in {"list", "unloaded"} \/ (d.op = "unassign" /\ d.worker # NoWorker)
      PROVE  DealsWith(w, d.worker)'
  <2>1. DealsWith(w, d.worker)
    BY <1>1, <1>4 DEF CalmCall
  <2>2. CallsAbout(d.worker)
    BY <1>4 DEF CallsAbout
  <2>3. Spared(d.worker)
    BY <1>3, <2>1 DEF DealsWith, Leads
  <2>. QED  BY <2>1, <2>2, <2>3, DealsOn
<1>5. ASSUME d.op = "normal"
      PROVE  d.worker \in Worker /\ up'[d.worker] # "up"
  <2>1. d.worker \in Worker /\ up[d.worker] # "up" /\ CallsAbout(d.worker)
    BY <1>1, <1>5 DEF CalmCall, CallsAbout
  <2>2. ~Register(d.worker)
    BY <2>1 DEF CalmStep
  <2>. QED  BY <2>1, <2>2, DownStayDown
<1>6. ASSUME d.op = "assign"
      PROVE  step'[w] = "assign" /\ ~Unloaded(d.worker)'
  <2>1. step[w] = "assign" /\ ~Unloaded(d.worker) /\ d.worker \in Worker
    BY <1>1, <1>6 DEF CalmCall, CalmStep, LeaderInv, LoopsInv, GoodCall
  <2>2. Spared(d.worker)
    BY <1>3, <2>1 DEF Leads
  <2>. QED  BY <2>1, <2>2, SparedAreNotUnloaded
<1>7. ASSUME d.op = "unloaded", NEW t \in DOMAIN topologies',
             topologies'[t].worker = d.worker, ~GivenUp(t)'
      PROVE  ACall("unassign", d.worker, {t}) \in calls'[w]
  <2>1. DealsWith(w, d.worker)
    BY <1>1, <1>7 DEF CalmCall
  <2>2. ASSUME NEW u \in Worker, NEW c \in calls[u], Makes(u, c), CalmCall(u, c),
               c.op = "assign"
        PROVE  FALSE
    <3>1. Leads(u) /\ Leads(w) /\ step[u] # step[w]
      BY <2>1, <2>2 DEF CalmCall, DealsWith, Leads
    <3>. QED  BY <2>1, <3>1, OneDeals
  <2>3. NothingComesTo(d.worker)
    BY <2>1, <2>2, NothingComesToTheDown DEF DealsWith
  <2>. QED  BY <1>1, <1>7, <2>3 DEF NothingComesTo, CalmCall
<1>8. d.op # "dead" /\ (d.op \in {"list", "unloaded"} => d.topologies = {})
  BY <1>1 DEF CalmCall
<1>9. d.op = "list" => \A e \in calls'[w] : e.worker = d.worker => e = d \/ e.op = "normal"
  BY <1>1 DEF CalmCall
<1>. QED  BY <1>4, <1>5, <1>6, <1>7, <1>8, <1>9 DEF CalmCall

\* The calls beside the one that is made.
LEMMA OtherCallsStayCalm ==
  ASSUME CalmStep, NEW w \in Worker, NEW c \in calls[w], Makes(w, c),
         NEW d \in calls[w], d # c
  PROVE  CalmCall(w, d)'
<1>. DEFINE H == IF c.op = "list"
                 THEN HandleDeadWorker(c.worker, TopologiesOf(c.worker)', topologies')
                 ELSE {}
<1>1. /\ CalmCall(w, d) /\ CalmCall(w, c) /\ d \in Call /\ c \in Call
      /\ calls'[w] = (calls[w] \ {c}) \cup H
  BY DEF CalmStep, Calm, CalmCalls, LoopTypes, LeaderTypeOK, Makes
<1>2. step'[w] = step[w] /\ seen'[w] = seen[w] /\ UNCHANGED up
  BY DEF Makes
<1>3. \A e \in H : c.op = "list" /\ e.worker = c.worker
  BY DEF HandleDeadWorker, ACall
<1>. HIDE DEF H
<1>4. ASSUME d.op \in {"list", "unloaded"} \/ (d.op = "unassign" /\ d.worker # NoWorker)
      PROVE  DealsWith(w, d.worker)'
  <2>1. DealsWith(w, d.worker) /\ CallsAbout(d.worker)
    BY <1>1, <1>4 DEF CalmCall, CallsAbout
  <2>2. ~(c.op = "unloaded" /\ c.worker = d.worker)
    <3>1. SUFFICES ASSUME c.op = "unloaded", c.worker = d.worker
                   PROVE  FALSE
      OBVIOUS
    <3>2. CASE d.op = "list"
      BY <1>1, <3>1, <3>2 DEF CalmCall
    <3>3. CASE d.op = "unassign"
      BY <3>1, <3>3 DEF Makes, Ready, Precedes
    <3>4. CASE d.op = "unloaded"
      <4>1. c.topologies = {} /\ d.topologies = {}
        BY <1>1, <3>1, <3>4 DEF CalmCall
      <4>. QED  BY <1>1, <3>1, <3>4, <4>1 DEF Call
    <3>. QED  BY <1>4, <3>2, <3>3, <3>4
  <2>3. ASSUME NEW e \in calls[w], Makes(w, e), e.op = "unloaded", e.worker = d.worker
        PROVE  FALSE
    <3>1. e \notin calls'[w]
      BY <2>3 DEF Makes
    <3>2. e = c
      BY <1>1, <3>1
    <3>. QED  BY <2>2, <2>3, <3>2
  <2>4. Spared(d.worker)
    BY <2>1, <2>3, OneUnloads DEF DealsWith, Leads
  <2>. QED  BY <1>2, <2>1, <2>4, DealsOn
<1>5. ASSUME d.op = "normal"
      PROVE  d.worker \in Worker /\ up'[d.worker] # "up"
  BY <1>1, <1>2, <1>5 DEF CalmCall
<1>6. ASSUME d.op = "assign"
      PROVE  step'[w] = "assign" /\ ~Unloaded(d.worker)'
  <2>1. step[w] = "assign" /\ ~Unloaded(d.worker) /\ d.worker \in Worker
    BY <1>1, <1>6 DEF CalmCall, CalmStep, LeaderInv, LoopsInv, GoodCall
  <2>2. ASSUME NEW e \in calls[w], e.op = "unloaded"
        PROVE  FALSE
    <3>1. CalmCall(w, e)
      BY DEF CalmStep, Calm, CalmCalls
    <3>. QED  BY <2>1, <2>2, <3>1 DEF CalmCall, DealsWith
  <2>3. Spared(d.worker)
    BY <2>1, <2>2, OneUnloads DEF Leads
  <2>. QED  BY <1>2, <2>1, <2>3, SparedAreNotUnloaded
<1>7. ASSUME d.op = "unloaded", NEW t \in DOMAIN topologies',
             topologies'[t].worker = d.worker, ~GivenUp(t)'
      PROVE  ACall("unassign", d.worker, {t}) \in calls'[w]
  <2>1. DealsWith(w, d.worker)
    BY <1>1, <1>7 DEF CalmCall
  <2>2. c.op # "assign"
    BY <1>1, <2>1 DEF CalmCall, DealsWith
  <2>3. NothingComesTo(d.worker)
    BY <1>1, <2>1, <2>2, NothingComesByCall DEF DealsWith
  <2>4. t \in DOMAIN topologies /\ ACall("unassign", d.worker, {t}) \in calls[w]
    BY <1>1, <1>7, <2>3 DEF NothingComesTo, CalmCall
  <2>5. c # ACall("unassign", d.worker, {t})
    <3>1. SUFFICES ASSUME c = ACall("unassign", d.worker, {t})
                   PROVE  FALSE
      OBVIOUS
    <3>2. SetTopologyStatus(t, NoWorker, "unassigned")
      BY <3>1 DEF Makes, Perform, ACall
    <3>3. Accepted(t, NoWorker) /\ topologies[t] \in TopologyRec
      BY <2>4 DEF Accepted, CalmStep, LeaderInv, RecordsInv, TopologiesInv
    <3>4. topologies'[t] = [topologies[t] EXCEPT !.status = "unassigned", !.age = 0]
      BY <2>4, <3>2, <3>3 DEF SetTopologyStatus, WithTopology
    <3>5. topologies'[t].status = "unassigned"
      BY <3>3, <3>4 DEF TopologyRec
    <3>. QED  BY <1>7, <3>5 DEF GivenUp
  <2>. QED  BY <1>1, <2>4, <2>5
<1>8. d.op # "dead" /\ (d.op \in {"list", "unloaded"} => d.topologies = {})
  BY <1>1 DEF CalmCall
<1>9. ASSUME d.op = "list", NEW e \in calls'[w], e.worker = d.worker
      PROVE  e = d \/ e.op = "normal"
  <2>1. CASE e \in calls[w]
    BY <1>1, <1>9, <2>1 DEF CalmCall
  <2>2. CASE e \in H
    <3>1. c.op = "list" /\ c.worker = d.worker
      BY <1>3, <1>9, <2>2
    <3>2. c = d \/ c.op = "normal"
      BY <1>1, <1>9, <3>1 DEF CalmCall
    <3>. QED  BY <3>1, <3>2
  <2>. QED  BY <1>1, <2>1, <2>2
<1>. QED  BY <1>4, <1>5, <1>6, <1>7, <1>8, <1>9 DEF CalmCall

\* The calls that the answer about a dead worker gives rise to.
LEMMA HandlingIsCalm ==
  ASSUME CalmStep, NEW w \in Worker, NEW c \in calls[w], Makes(w, c), c.op = "list",
         NEW d \in HandleDeadWorker(c.worker, TopologiesOf(c.worker)', topologies')
  PROVE  CalmCall(w, d)'
<1>. DEFINE v == c.worker
            H == HandleDeadWorker(v, TopologiesOf(v)', topologies')
<1>1. CalmCall(w, c) /\ calls'[w] = (calls[w] \ {c}) \cup H
  BY DEF CalmStep, Calm, CalmCalls, Makes
<1>2. DealsWith(w, v) /\ CallsAbout(v)
  BY <1>1 DEF CalmCall, CallsAbout
<1>3. ASSUME NEW e \in calls[w], Makes(w, e), e.op = "unloaded"
      PROVE  FALSE
  <2>1. e \notin calls'[w] /\ e # c
    BY <1>3 DEF Makes
  <2>. HIDE DEF H, v
  <2>. QED  BY <1>1, <2>1
<1>4. Spared(v)
  BY <1>2, <1>3, OneUnloads DEF DealsWith, Leads
<1>5. DealsWith(w, v)'
  <2>1. step'[w] = step[w] /\ seen'[w] = seen[w]
    BY DEF Makes
  <2>. HIDE DEF v
  <2>2. DealsWith(w, v)'
    BY <1>2, <1>4, <2>1, DealsOn
  <2>. QED  BY <2>2
<1>6. \/ d = ACall("unloaded", v, {})
      \/ \E t : d = ACall("unassign", v, {t})
  BY DEF HandleDeadWorker
<1>7. CASE d = ACall("unloaded", v, {})
  <2>1. d.op = "unloaded" /\ d.worker = v /\ d.topologies = {}
    BY <1>7 DEF ACall
  <2>2. ASSUME NEW t \in DOMAIN topologies', topologies'[t].worker = v
        PROVE  GivenUp(t)' \/ ACall("unassign", v, {t}) \in calls'[w]
    <3>1. t \in TopologiesOf(v)'
      BY <2>2 DEF TopologiesOf
    <3>2. topologies'[t].status # "error" => ACall("unassign", v, {t}) \in H
      BY <3>1 DEF HandleDeadWorker
    <3>. HIDE DEF H, v
    <3>. QED  BY <1>1, <3>2 DEF GivenUp
  <2>. HIDE DEF H, v
  <2>. QED  BY <1>5, <2>1, <2>2 DEF CalmCall
<1>8. ASSUME NEW t, d = ACall("unassign", v, {t})
      PROVE  CalmCall(w, d)'
  <2>1. d.op = "unassign" /\ d.worker = v
    BY <1>8 DEF ACall
  <2>. HIDE DEF H, v
  <2>. QED  BY <1>5, <2>1 DEF CalmCall
<1>. QED  BY <1>6, <1>7, <1>8

\* The calls that the loop of w begins.
LEMMA NewCallsAreCalm ==
  ASSUME CalmStep, NEW w \in Worker, LeaderStep(w), ~MakeCall(w), NEW d \in calls'[w]
  PROVE  CalmCall(w, d)'
<1>1. /\ calls \in [Worker -> SUBSET Call] /\ step \in [Worker -> Step]
      /\ seen = [u \in Worker |-> seen[u]]
      /\ up[w] = "up" /\ UNCHANGED up /\ RecordGoesOn(w)
  BY LoopsAreUp, LiveGoOn DEF CalmStep, LoopTypes, LeaderTypeOK, LeaderInv, LoopsInv
<1>2. \A u \in DOMAIN workers' : u \in Worker /\ workers'[u] \in WorkerRec
  BY DEF CalmStep, LeaderInv, RecordsInv, WorkersInv
<1>3. ASSUME NEW u \in DOMAIN workers', workers'[u].status # "alive"
      PROVE  u \in Worker /\ up'[u] # "up"
  <2>1. LiveWorker(u)'
    BY <1>2, LiveWorkersStep
  <2>. QED  BY <1>2, <1>3, <2>1 DEF LiveWorker
<1>4. CASE RefreshStatuses(w)
  <2>1. calls'[w] = DefunctCalls' /\ GetWorkerStatus
    BY <1>1, <1>4 DEF RefreshStatuses
  <2>2. ASSUME NEW u \in DOMAIN workers'
        PROVE  ~Idle(u)'
    <3>1. workers'[u].status \in {"alive", "dead", "unloaded"}
      BY StatusesStep DEF Statuses
    <3>2. workers'[u].status = "alive" => ~(workers'[u].age > WorkerTimeout)
      <4>1. workers' = [v \in DOMAIN workers |->
              IF v \in DefunctWorkers THEN [workers[v] EXCEPT !.status = "dead"]
                                      ELSE workers[v]]
        BY <2>1 DEF GetWorkerStatus, DisableDefunctWorkers
      <4>2. u \in DOMAIN workers /\ workers[u] \in WorkerRec
        BY <4>1 DEF CalmStep, LeaderInv, RecordsInv, WorkersInv
      <4>3. CASE u \in DefunctWorkers
        <5>1. workers'[u] = [workers[u] EXCEPT !.status = "dead"]
          BY <4>1, <4>2, <4>3
        <5>2. workers'[u].status = "dead"
          BY <4>2, <5>1 DEF WorkerRec
        <5>. QED  BY <5>2
      <4>4. CASE u \notin DefunctWorkers
        BY <4>1, <4>2, <4>4 DEF DefunctWorkers
      <4>. QED  BY <4>3, <4>4
    <3>3. workers'[u].age \in Nat /\ IdleInterval \in Nat /\ WorkerTimeout \in Nat
          /\ WorkerTimeout <= IdleInterval
      BY <1>2, TimeoutsAreOrdered, IntervalsAreOrdered DEF WorkerRec, Age
    <3>4. workers'[u].status = "alive" => ~(workers'[u].age > IdleInterval)
      BY <3>2, <3>3
    <3>. QED  BY <3>1, <3>4 DEF Idle
  <2>3. ASSUME NEW u \in DOMAIN workers', Disabled(u)'
        PROVE  u \in Worker /\ up'[u] # "up"
    BY <1>3, <2>2, <2>3 DEF Disabled
  <2>4. d.op = "normal" /\ d.worker \in Worker /\ up'[d.worker] # "up"
    <3>1. \E u \in DOMAIN workers' : Disabled(u)' /\ d = ACall("normal", u, {})
      BY <2>1, <2>2 DEF DefunctCalls
    <3>2. PICK u \in DOMAIN workers' : Disabled(u)' /\ d = ACall("normal", u, {})
      BY <3>1
    <3>. QED  BY <2>3, <3>2 DEF ACall
  <2>. QED  BY <2>4 DEF CalmCall
<1>5. CASE UnassignWaiting(w)
  <2>. DEFINE T == {u \in DOMAIN topologies' : Stranded(topologies'[u], seen[w].gone)}
  <2>1. calls'[w] = {ACall("unassign", NoWorker, {t}) : t \in T}
    BY <1>1, <1>5 DEF UnassignWaiting
  <2>2. d.op = "unassign" /\ d.worker = NoWorker
    BY <2>1 DEF ACall
  <2>. QED  BY <2>2 DEF CalmCall
<1>6. CASE AnnounceCandidacy(w) \/ CheckCandidacy(w) \/ EndPass(w)
  <2>1. calls'[w] = {}
    BY <1>6 DEF AnnounceCandidacy, CheckCandidacy, EndPass, At
  <2>. QED  BY <2>1
<1>7. CASE ConfirmLeadership(w)
  <2>. DEFINE serves == IsRecorded(w)' /\ Alive(w)'
  <2>1. /\ calls' = [calls EXCEPT ![w] =
              CASE serves -> {ACall("list", v, {}) : v \in DeadWorkers'}
                [] IsRecorded(w)' /\ ~serves -> Release(w)
                [] OTHER -> {}]
        /\ step' = [step EXCEPT ![w] = IF serves THEN "dead" ELSE "end"]
        /\ seen' = [seen EXCEPT ![w] =
              [Unseen EXCEPT !.alive = IF serves THEN AliveWorkers' ELSE {}]]
    BY <1>7 DEF ConfirmLeadership
  <2>2. IsRecorded(w)' => serves
    BY <1>1 DEF RecordGoesOn, IsRecorded, Alive, AliveWorkers
  <2>3. CASE serves
    <3>1. /\ calls'[w] = {ACall("list", v, {}) : v \in DeadWorkers'}
          /\ step'[w] = "dead"
      BY <1>1, <2>1, <2>3
    <3>2. seen'[w].alive = AliveWorkers'
      <4>1. seen'[w] = [Unseen EXCEPT !.alive = AliveWorkers']
        BY <1>1, <2>1, <2>3
      <4>. QED  BY <4>1 DEF Unseen
    <3>3. PICK v \in DeadWorkers' : d = ACall("list", v, {})
      BY <3>1
    <3>4. d.op = "list" /\ d.worker = v /\ d.topologies = {}
      BY <3>3 DEF ACall
    <3>5. DealsWith(w, v)'
      <4>1. v \in DOMAIN workers' /\ workers'[v].status = "dead"
        BY DEF DeadWorkers
      <4>2. v \in Worker /\ up'[v] # "up"
        BY <1>3, <4>1
      <4>3. v \notin seen'[w].alive
        BY <3>2, <4>1 DEF AliveWorkers
      <4>. QED  BY <3>1, <4>1, <4>2, <4>3 DEF DealsWith
    <3>6. \A e \in calls'[w] : e.worker = v => e = d
      BY <3>1, <3>3 DEF ACall
    <3>. QED  BY <3>4, <3>5, <3>6 DEF CalmCall
  <2>4. CASE ~IsRecorded(w)'
    <3>1. calls'[w] = {}
      BY <1>1, <2>1, <2>4
    <3>. QED  BY <3>1
  <2>. QED  BY <2>2, <2>3, <2>4
<1>8. CASE AssignUnassigned(w)
  <2>. DEFINE T == {t \in DOMAIN topologies' : ToAssign(t)'}
  <2>1. PICK target \in [T -> seen[w].alive] :
          calls' = [calls EXCEPT ![w] =
             {ACall("assign", target[t], {t}) : t \in T} \cup
             {ACall("start", v, {t \in T : target[t] = v}) :
                v \in {target[t] : t \in T}}]
    BY <1>8 DEF AssignUnassigned
  <2>2. step'[w] = "assign" /\ step[w] = "dead" /\ calls[w] = {}
    BY <1>1, <1>8 DEF AssignUnassigned, At
  <2>. HIDE DEF T
  <2>3. calls'[w] = {ACall("assign", target[t], {t}) : t \in T} \cup
             {ACall("start", v, {t \in T : target[t] = v}) :
                v \in {target[t] : t \in T}}
    BY <1>1, <2>1
  <2>4. CASE d.op = "start"
    BY <2>4 DEF CalmCall
  <2>5. CASE d.op = "assign"
    <3>1. PICK t \in T : d = ACall("assign", target[t], {t})
      BY <2>3, <2>5 DEF ACall
    <3>2. d.worker \in seen[w].alive
      BY <3>1 DEF ACall
    <3>3. d.worker \in Worker /\ ~Unloaded(d.worker)
      BY <2>2, <3>2 DEF CalmStep, Calm, SeenCalm, LeaderInv, LoopsInv
    <3>4. Leads(w)
      BY <2>2 DEF Leads
    <3>5. Spared(d.worker)
      BY <2>2, <3>4, OneUnloads
    <3>6. ~Unloaded(d.worker)'
      BY <3>3, <3>5, SparedAreNotUnloaded
    <3>. QED  BY <2>2, <2>5, <3>6 DEF CalmCall
  <2>6. d.op \in {"assign", "start"}
    BY <2>3 DEF ACall
  <2>. QED  BY <2>4, <2>5, <2>6
<1>9. CASE Rebalance(w)
  <2>1. PICK T \in SUBSET DOMAIN seen[w].placed :
          calls' = [calls EXCEPT ![w] =
            {ACall("stop", v, {t \in T : seen[w].placed[t] = v}) :
               v \in {seen[w].placed[t] : t \in T}}]
    BY <1>9 DEF Rebalance
  <2>2. calls'[w] = {ACall("stop", v, {t \in T : seen[w].placed[t] = v}) :
                       v \in {seen[w].placed[t] : t \in T}}
    BY <1>1, <2>1
  <2>3. d.op = "stop"
    BY <2>2 DEF ACall
  <2>. QED  BY <2>3 DEF CalmCall
<1>. QED  BY <1>4, <1>5, <1>6, <1>7, <1>8, <1>9, CalmExcludes DEF LeaderStep

LEMMA CalmCallsStep ==
  ASSUME CalmStep, NEW w \in Worker, NEW d \in calls'[w]
  PROVE  CalmCall(w, d)'
<1>1. LiveWorker(w) /\ calls \in [Worker -> SUBSET Call]
  BY DEF CalmStep, Calm, LiveWorkers, LoopTypes, LeaderTypeOK
<1>2. CASE MakeCall(w)
  <2>1. PICK c \in calls[w] : Makes(w, c)
    BY <1>2, CallsAreMade
  <2>2. \/ d \in calls[w] /\ d # c
        \/ /\ c.op = "list"
           /\ d \in HandleDeadWorker(c.worker, TopologiesOf(c.worker)', topologies')
    BY <2>1 DEF Makes
  <2>. QED  BY <2>1, <2>2, OtherCallsStayCalm, HandlingIsCalm
<1>3. CASE LeaderStep(w) /\ ~MakeCall(w)
  BY <1>3, NewCallsAreCalm
<1>4. CASE RebalanceDue(w) \/ Register(w) \/ Ping(w) \/ ReadMessages(w) \/ Enable(w)
           \/ Delete(w)
  <2>1. UNCHANGED <<calls, step, seen>>
    BY <1>4 DEF RebalanceDue, Register, Ping, ReadMessages, Enable, Delete,
       leader_vars, loop_vars
  <2>. QED  BY <2>1, CallStaysCalm
<1>5. CASE Start(w) \/ Crash(w)
  <2>1. calls'[w] = {}
    BY <1>1, <1>5 DEF Start, Crash, ProcessEnds, LiveWorker
  <2>. QED  BY <2>1
<1>6. CASE ~LeaderStep(w) /\ ~RebalanceDue(w) /\ ~WorkerStep(w) /\ ~Disruption(w)
  BY <1>6, StepsOfOthers, CallStaysCalm
<1>. QED  BY <1>2, <1>3, <1>4, <1>5, <1>6, CalmExcludes DEF WorkerStep, Disruption

LEMMA CalmInit == LeaderInit => Calm
<1>. SUFFICES ASSUME LeaderInit
              PROVE  Calm
  OBVIOUS
<1>1. LiveWorkers
  BY DEF LeaderInit, StorageInit, Nothing, LiveWorkers, LiveWorker, Leads
<1>2. CalmCalls /\ NobodyClears /\ SeenCalm
  BY DEF LeaderInit, CalmCalls, NobodyClears, NotClearing, SeenCalm
<1>3. Statuses /\ Emptied
  BY DEF LeaderInit, StorageInit, Nothing, Statuses, Emptied
<1>. QED  BY <1>1, <1>2, <1>3 DEF Calm

LEMMA CalmFrame ==
  ASSUME Calm, UNCHANGED vars
  PROVE  Calm'
<1>1. UNCHANGED <<workers, topologies, up, is_running, step, calls, seen, clearing>>
  BY DEF vars, storage_vars, leader_vars, loop_vars
<1>2. LiveWorkers' /\ Statuses' /\ NobodyClears'
  BY <1>1 DEF Calm, LiveWorkers, LiveWorker, Statuses, NobodyClears, Leads, IsRecorded
<1>3. SeenCalm' /\ Emptied'
  BY <1>1 DEF Calm, SeenCalm, Emptied, Unloaded, GivenUp
<1>4. CalmCalls'
  BY <1>1 DEF Calm, CalmCalls, CalmCall, DealsWith, Unloaded, GivenUp
<1>. QED  BY <1>2, <1>3, <1>4 DEF Calm

---------------------------------------------------------------------------
(* A worker that comes back while calls about its death are on their way.  *)
(* After one crash, that is when every recorded worker is up again: from   *)
(* then on what the late calls do is undone by the worker that runs, if no *)
(* loop fails over a lost record and the leader keeps its office.          *)

\* A worker that crashed, or that another has calls to make about.
Touched(v) == (v \in DOMAIN workers /\ up[v] # "up") \/ CallsAbout(v)

OneTouched ==
  \A v \in Worker : Touched(v) =>
    disruptions # 0 /\ \A u \in Worker : Touched(u) => u = v

\* c is about the death of v, which some worker has calls to make about.
DeathCall(c, v) == c.worker = v /\ c.op \in {"list", "unassign", "unloaded"}
Dying(v) == \E w \in Worker : \E c \in calls[w] : DeathCall(c, v)
Mourns(w) == \E v \in Worker : \E c \in calls[w] : DeathCall(c, v)

\* Worker w is to announce itself, or did so in this pass.
Stands(w) ==
  \/ step[w] = "announced"
  \/ step[w] \in {"defunct", "waiting"} /\ seen[w].announce

BackLoop(w) ==
  /\ up[w] \in {"down", "starting", "up"}
  /\ up[w] # "up" => calls[w] = {} /\ step[w] \in {"stopped", "sleep"}
  /\ up[w] # "down" => step[w] # "stopped" /\ is_running[w]
BackRecord(v) ==
  /\ up[v] = "up"
  /\ workers[v].status \in {"alive", "unloaded"} /\ workers[v].age \in {0, 1}
Standing(w) ==
  Stands(w) => w \in DOMAIN workers /\ workers[w].status = "alive" /\ ~Dying(w)
Mourning(w) ==
  Mourns(w) => IsRecorded(w) /\ workers[w].status = "alive" /\ ~CallsAbout(w)

\* Who makes the calls about a death leads, and nobody else may stand.
AllBack ==
  /\ disruptions = MaxDisruptions
  /\ \A w \in Worker : BackLoop(w) /\ Standing(w) /\ Mourning(w)
  /\ \A w \in Worker : \A c \in calls[w] : c.op # "dead"
  /\ \A v \in DOMAIN workers : BackRecord(v)
  /\ NobodyClears

\* Either nobody came back too early, or everybody is back.
CrashIsHandled == (Calm /\ OneTouched) \/ AllBack

LEMMA DisruptionsGrow ==
  ASSUME LeaderNext
  PROVE  UNCHANGED disruptions \/ \E kind : Disrupts(kind)
<1>1. ASSUME NEW v \in Worker, LeaderStep(v) \/ RebalanceDue(v)
      PROVE  UNCHANGED disruptions \/ \E kind : Disrupts(kind)
  BY <1>1 DEF LeaderStep, RebalanceDue, MakeCall,
   RefreshStatuses, UnassignWaiting, AnnounceCandidacy, CheckCandidacy,
   CheckCandidacyFails, EndPass, ConfirmLeadership, AssignUnassigned, Rebalance
<1>2. ASSUME NEW v \in Worker, WorkerStep(v) \/ Disruption(v)
      PROVE  UNCHANGED disruptions \/ \E kind : Disrupts(kind)
  BY <1>2 DEF WorkerStep, Disruption,
   Start, Register, Ping, Recover, Close, Exit, ReadMessages, Crash,
   ReleaseLeadership, Disable, Enable, CallFails, RequestFails, Delete,
   leader_vars
<1>. QED  BY <1>1, <1>2
  DEF LeaderNext, Report, Client, TimePasses, leader_vars, ClearStep,
      ClearReadsTopology, ClearReadsWorkers, ClearSetsStatus, ClearSendsMessage

\* Calls to clear a record come from what the storage says after the step.
LEMMA NewReleases ==
  ASSUME LeaderNext, LeaderInv, LeaderTypeOK,
         NEW w \in Worker, NEW d \in calls'[w], d.op = "normal"
  PROVE  \/ d \in calls[w]
         \/ /\ d.worker \in DOMAIN workers'
            /\ Idle(d.worker)' \/ workers'[d.worker].status # "alive"
<1>1. calls \in [Worker -> SUBSET Call] /\ LoopsInv
  BY DEF LeaderTypeOK, LeaderInv
<1>2. CASE calls'[w] \subseteq calls[w]
  BY <1>2
<1>3. CASE MakeCall(w) \/ CallFails(w)
  <2>1. PICK c \in calls[w] : \E T, ts :
          calls'[w] \subseteq calls[w] \cup HandleDeadWorker(c.worker, T, ts)
    BY <1>1, <1>3 DEF MakeCall, CallFails
  <2>. QED  BY <2>1 DEF HandleDeadWorker, ACall
<1>4. CASE RefreshStatuses(w)
  <2>1. calls'[w] = DefunctCalls'
    BY <1>1, <1>4 DEF RefreshStatuses
  <2>2. PICK u \in DOMAIN workers' : Disabled(u)' /\ d = ACall("normal", u, {})
    BY <2>1 DEF DefunctCalls, ACall
  <2>. QED  BY <2>2 DEF ACall, Disabled
<1>5. CASE UnassignWaiting(w)
  <2>1. \E T : calls'[w] = {ACall("unassign", NoWorker, {t}) : t \in T}
    BY <1>1, <1>5 DEF UnassignWaiting
  <2>. QED  BY <2>1 DEF ACall
<1>6. CASE ConfirmLeadership(w)
  <2>1. calls'[w] = CASE IsRecorded(w)' /\ Alive(w)' ->
                            {ACall("list", v, {}) : v \in DeadWorkers'}
                      [] IsRecorded(w)' /\ ~(IsRecorded(w)' /\ Alive(w)') -> Release(w)
                      [] OTHER -> {}
    BY <1>1, <1>6 DEF ConfirmLeadership
  <2>2. IsRecorded(w)' /\ ~Alive(w)' /\ d \in Release(w)
    BY <2>1 DEF ACall
  <2>. QED  BY <2>2 DEF Release, ACall, Alive, AliveWorkers, IsRecorded
<1>7. CASE AssignUnassigned(w)
  <2>. DEFINE T == {t \in DOMAIN topologies' : ToAssign(t)'}
  <2>1. PICK target \in [T -> seen[w].alive] :
          calls' = [calls EXCEPT ![w] =
             {ACall("assign", target[t], {t}) : t \in T} \cup
             {ACall("start", v, {t \in T : target[t] = v}) :
                v \in {target[t] : t \in T}}]
    BY <1>7 DEF AssignUnassigned
  <2>. HIDE DEF T
  <2>. QED  BY <1>1, <2>1 DEF ACall
<1>8. CASE Rebalance(w)
  <2>1. PICK T \in SUBSET DOMAIN seen[w].placed :
          calls' = [calls EXCEPT ![w] =
            {ACall("stop", v, {t \in T : seen[w].placed[t] = v}) :
               v \in {seen[w].placed[t] : t \in T}}]
    BY <1>8 DEF Rebalance
  <2>. QED  BY <1>1, <2>1 DEF ACall
<1>9. CASE LeaderStep(w) \/ RebalanceDue(w) \/ WorkerStep(w) \/ Disruption(w)
  <2>1. CASE \/ AnnounceCandidacy(w) \/ CheckCandidacy(w) \/ CheckCandidacyFails(w)
             \/ EndPass(w) \/ RebalanceDue(w) \/ WorkerStep(w)
             \/ (Disruption(w) /\ ~CallFails(w))
    <3>1. UNCHANGED calls \/ calls' = [calls EXCEPT ![w] = {}]
      BY <2>1 DEF AnnounceCandidacy, CheckCandidacy, CheckCandidacyFails, EndPass,
       RebalanceDue, WorkerStep, Disruption,
       Start, Register, Ping, Recover, Close, Exit, ReadMessages, Crash,
       ReleaseLeadership, Disable, Enable, RequestFails, Delete,
       ProcessEnds, leader_vars, loop_vars
    <3>. QED  BY <1>1, <1>2, <3>1
  <2>. QED  BY <2>1, <1>3, <1>4, <1>5, <1>6, <1>7, <1>8, <1>9 DEF LeaderStep
<1>10. CASE ~LeaderStep(w) /\ ~RebalanceDue(w) /\ ~WorkerStep(w) /\ ~Disruption(w)
  <2>1. ASSUME NEW v \in Worker,
               LeaderStep(v) \/ RebalanceDue(v) \/ WorkerStep(v) \/ Disruption(v)
        PROVE  calls'[w] = calls[w]
    BY <1>10, <2>1, OtherLoops
  <2>2. ASSUME \/ \E v \in Worker, t \in Topology, status \in Reported : Report(v, t, status)
               \/ \E t \in Topology : Client(t) \/ ClearStep(t)
               \/ TimePasses
        PROVE  UNCHANGED calls
    BY <2>2 DEF Report, Client, TimePasses, leader_vars, loop_vars, ClearStep,
      ClearReadsTopology, ClearReadsWorkers, ClearSetsStatus, ClearSendsMessage
  <2>. QED  BY <1>2, <2>1, <2>2 DEF LeaderNext
<1>. QED  BY <1>9, <1>10

LEMMA CountIsNatural ==
  ASSUME LoopTypes
  PROVE  disruptions \in Nat /\ MaxDisruptions \in Nat /\ disruptions <= MaxDisruptions
BY IntervalsAreOrdered DEF LoopTypes, LeaderTypeOK

\* Only a crash makes that a worker is touched.
LEMMA TouchedByCrash ==
  ASSUME CalmStep, LiveWorkers', CalmCalls', NEW v \in Worker, Touched(v)', ~Touched(v)
  PROVE  Crash(v)
<1>1. /\ LeaderNext /\ LeaderInv /\ LeaderTypeOK
      /\ up \in [Worker -> Life]
  BY DEF CalmStep, LoopTypes, LeaderTypeOK
<1>2. v \in DOMAIN workers' /\ up'[v] # "up"
  <2>1. SUFFICES ASSUME CallsAbout(v)'
                 PROVE  v \in DOMAIN workers' /\ up'[v] # "up"
    BY DEF Touched
  <2>2. PICK w \in Worker : \E d \in calls'[w] :
          d.worker = v /\ d.op \in {"normal", "list", "unassign", "unloaded"}
    BY <2>1 DEF CallsAbout
  <2>3. PICK d \in calls'[w] :
          d.worker = v /\ d.op \in {"normal", "list", "unassign", "unloaded"}
    BY <2>2
  <2>4. CalmCall(w, d)'
    BY DEF CalmCalls
  <2>5. CASE d.op = "normal"
    <3>1. up'[v] # "up"
      BY <2>3, <2>4, <2>5 DEF CalmCall
    <3>2. d \notin calls[w]
      BY <2>3, <2>5 DEF Touched, CallsAbout
    <3>. QED  BY <1>1, <2>3, <2>5, <3>1, <3>2, NewReleases
  <2>6. CASE d.op \in {"list", "unassign", "unloaded"}
    <3>1. DealsWith(w, v)'
      BY <2>3, <2>4, <2>6, WorkersAreNumbers DEF CalmCall
    <3>. QED  BY <3>1 DEF DealsWith
  <2>. QED  BY <2>3, <2>5, <2>6
<1>3. ~Register(v)
  BY <1>1, <1>2 DEF Register
<1>4. v \in DOMAIN workers
  <2>1. CASE Delete(v)
    BY <2>1 DEF Delete, DeleteWorker
  <2>2. CASE RecordGoesOn(v)
    BY <1>2, <2>2 DEF RecordGoesOn
  <2>3. ASSUME NEW w \in Worker, NEW c \in calls[w], Makes(w, c), c.op = "unloaded",
               c.worker = v
        PROVE  v \in DOMAIN workers
    BY <1>2, <2>3 DEF Makes, Perform, SetWorkerStatus
  <2>. QED  BY <1>3, <2>1, <2>2, <2>3, FateOfRecord
<1>5. up[v] = "up"
  BY <1>4 DEF Touched
<1>6. CASE LeaderStep(v)
  BY <1>2, <1>5, <1>6, LoopsAreUp
<1>7. CASE RebalanceDue(v) \/ Ping(v) \/ ReadMessages(v) \/ Enable(v) \/ Delete(v)
  BY <1>2, <1>5, <1>7 DEF RebalanceDue, Ping, ReadMessages, Enable, Delete, leader_vars
<1>8. CASE Start(v)
  BY <1>5, <1>8 DEF Start
<1>9. CASE ~LeaderStep(v) /\ ~RebalanceDue(v) /\ ~WorkerStep(v) /\ ~Disruption(v)
  BY <1>2, <1>5, <1>9, StepsOfOthers
<1>. QED  BY <1>3, <1>6, <1>7, <1>8, <1>9, CalmExcludes DEF WorkerStep, Disruption

LEMMA OneTouchedStep ==
  ASSUME CalmStep, OneTouched, LiveWorkers', CalmCalls', MaxDisruptions <= 1
  PROVE  OneTouched'
<1>1. /\ disruptions \in Nat /\ MaxDisruptions \in Nat /\ LeaderNext
      /\ up \in [Worker -> Life]
  BY CountIsNatural DEF CalmStep, LoopTypes, LeaderTypeOK
<1>2. ASSUME NEW v \in Worker, Crash(v)
      PROVE  disruptions = 0 /\ disruptions' = 1 /\ ~\E u \in Worker : Touched(u)
  BY <1>1, <1>2 DEF Crash, Disrupts, OneTouched
<1>3. ASSUME NEW v \in Worker, NEW u \in Worker, Crash(v), Crash(u)
      PROVE  u = v
  BY <1>1, <1>3 DEF Crash, ProcessEnds
<1>4. UNCHANGED disruptions \/ disruptions' = disruptions + 1
  BY <1>1, DisruptionsGrow DEF Disrupts
<1>5. ASSUME NEW v \in Worker, Touched(v)'
      PROVE  Touched(v) \/ Crash(v)
  BY <1>5, TouchedByCrash
<1>. SUFFICES ASSUME NEW v \in Worker, Touched(v)'
              PROVE  disruptions' # 0 /\ \A u \in Worker : Touched(u)' => u = v
  BY DEF OneTouched
<1>6. disruptions' # 0
  <2>1. Touched(v) => disruptions # 0
    BY DEF OneTouched
  <2>. QED  BY <1>1, <1>2, <1>4, <1>5, <2>1
<1>7. ASSUME NEW u \in Worker, Touched(u)'
      PROVE  u = v
  <2>1. Touched(v) \/ Crash(v)
    BY <1>5
  <2>2. Touched(u) \/ Crash(u)
    BY <1>5, <1>7
  <2>3. CASE Touched(u) /\ Touched(v)
    BY <2>3 DEF OneTouched
  <2>. QED  BY <1>2, <1>3, <2>1, <2>2, <2>3
<1>. QED  BY <1>6, <1>7

\* The crashed worker comes back before the calls about its death were made.
LEMMA ReturnBringsAllBack ==
  ASSUME Calm, OneTouched, LeaderInv, LoopTypes, MaxDisruptions <= 1,
         NEW v \in Worker, Register(v), CallsAbout(v)
  PROVE  AllBack'
<1>1. /\ WorkersInv /\ LiveWorkers /\ CalmCalls /\ NobodyClears
      /\ up \in [Worker -> Life]
  BY DEF Calm, LeaderInv, RecordsInv, LoopTypes, LeaderTypeOK
<1>2. /\ up[v] = "starting" /\ up' = [up EXCEPT ![v] = "up"]
      /\ UNCHANGED <<step, calls, seen, is_running, clearing, disruptions>>
      /\ workers' = [w \in DOMAIN workers \cup {v} |->
           IF w = v THEN [age |-> 0, status |-> "alive", lstatus |-> "normal"]
                    ELSE workers[w]]
  BY DEF Register, RegisterWorker, loop_vars
<1>3. disruptions # 0 /\ \A u \in Worker : Touched(u) => u = v
  BY DEF OneTouched, Touched
<1>4. disruptions' = MaxDisruptions
  BY <1>2, <1>3, CountIsNatural
<1>5. \A w \in Worker : \A c \in calls'[w] : c.op # "dead"
  BY <1>1, <1>2 DEF CalmCalls, CalmCall
<1>6. NobodyClears'
  BY <1>1, <1>2 DEF NobodyClears
<1>7. ASSUME NEW u \in DOMAIN workers'
      PROVE  BackRecord(u)'
  <2>1. CASE u = v
    BY <1>1, <1>2, <2>1 DEF BackRecord
  <2>2. CASE u # v
    <3>1. u \in Worker /\ u \in DOMAIN workers /\ up[u] = "up" /\ up'[u] = up[u]
      BY <1>1, <1>2, <1>3, <2>2 DEF WorkersInv, Touched
    <3>. QED  BY <1>1, <1>2, <2>2, <3>1, LiveAreUp DEF BackRecord
  <2>. QED  BY <2>1, <2>2
<1>8. ASSUME NEW w \in Worker
      PROVE  BackLoop(w)'
  <2>1. LiveWorker(w) /\ up'[w] = IF w = v THEN "up" ELSE up[w]
    BY <1>1, <1>2 DEF LiveWorkers
  <2>. QED  BY <1>2, <2>1 DEF LiveWorker, BackLoop
<1>9. ASSUME NEW w \in Worker, up[w] = "up"
      PROVE  /\ w \in DOMAIN workers' /\ workers'[w] = workers[w]
             /\ workers'[w].status = "alive" /\ ~CallsAbout(w)' /\ ~Dying(w)'
  <2>1. w \in DOMAIN workers /\ workers[w].status = "alive" /\ w # v
    BY <1>1, <1>2, <1>9, LiveAreUp
  <2>2. ~CallsAbout(w)
    BY <1>3, <2>1 DEF Touched
  <2>. QED  BY <1>2, <2>1, <2>2 DEF CallsAbout, Dying, DeathCall
<1>10. ASSUME NEW w \in Worker
       PROVE  Standing(w)'
  <2>1. SUFFICES ASSUME Stands(w)'
                 PROVE  up[w] = "up"
    BY <1>9 DEF Standing
  <2>2. step[w] \notin {"stopped", "sleep"}
    BY <1>2, <2>1 DEF Stands
  <2>. QED  BY <1>1, <2>2 DEF LiveWorkers, LiveWorker
<1>11. ASSUME NEW w \in Worker
       PROVE  Mourning(w)'
  <2>1. SUFFICES ASSUME Mourns(w)
                 PROVE  up[w] = "up" /\ IsRecorded(w)
    BY <1>2, <1>9 DEF Mourning, Mourns, DeathCall, IsRecorded
  <2>2. PICK u \in Worker : \E c \in calls[w] : DeathCall(c, u)
    BY <2>1 DEF Mourns
  <2>3. DealsWith(w, u)
    BY <1>1, <2>2, WorkersAreNumbers DEF CalmCalls, CalmCall, DeathCall
  <2>4. Leads(w)
    BY <2>3 DEF DealsWith, Leads
  <2>. QED  BY <1>1, <2>4, LeadersAreUp
<1>. QED  BY <1>4, <1>5, <1>6, <1>7, <1>8, <1>10, <1>11 DEF AllBack

BackStep ==
  /\ AllBack /\ LeaderInv /\ LoopTypes /\ LeaderInv' /\ LoopTypes' /\ LeaderNext
  /\ Disruptions \subseteq {"crash"} /\ LeaderTimeout # 0 /\ Clearable = {}

LEMMA NothingDisruptsBack ==
  ASSUME BackStep, NEW kind
  PROVE  ~Disrupts(kind)
BY CountIsNatural DEF BackStep, AllBack, Disrupts

LEMMA BackExcludes ==
  ASSUME BackStep, NEW v \in Worker
  PROVE  /\ ~Crash(v) /\ ~CallFails(v) /\ ~RequestFails(v) /\ ~ReleaseLeadership(v)
         /\ ~Disable(v) /\ ~Close(v) /\ ~Exit(v) /\ ~CheckCandidacyFails(v)
         /\ \A t \in Topology : ~ClearStep(t)
<1>1. BackLoop(v) /\ Standing(v) /\ NobodyClears
  BY DEF BackStep, AllBack
<1>2. /\ ~Crash(v) /\ ~CallFails(v) /\ ~RequestFails(v) /\ ~ReleaseLeadership(v)
      /\ ~Disable(v)
  BY NothingDisruptsBack DEF Crash, CallFails, RequestFails, ReleaseLeadership, Disable
<1>3. ~Close(v) /\ ~Exit(v)
  BY <1>1, NothingDisruptsBack DEF Close, Exit, BackLoop
<1>4. ~CheckCandidacyFails(v)
  BY <1>1 DEF CheckCandidacyFails, CheckLeaderCandidacyFails, At, Standing, Stands
<1>5. \A t \in Topology : ~ClearStep(t)
  BY <1>1 DEF BackStep, NobodyClears, ClearStep, ClearReadsTopology,
     ClearReadsWorkers, ClearSetsStatus, ClearSendsMessage
<1>. QED  BY <1>2, <1>3, <1>4, <1>5

LEMMA BackLoopsAreUp ==
  ASSUME BackStep, NEW w \in Worker, LeaderStep(w)
  PROVE  up[w] = "up" /\ UNCHANGED <<up, is_running>>
<1>1. BackLoop(w)
  BY DEF BackStep, AllBack
<1>2. CASE RefreshStatuses(w)
  <2>1. up[w] # "starting"
    BY <1>2, NothingDisruptsBack DEF RefreshStatuses
  <2>. QED  BY <1>1, <1>2, <2>1 DEF RefreshStatuses, At, Loops, BackLoop
<1>3. CASE MakeCall(w)
  BY <1>1, <1>3 DEF MakeCall, Loops, BackLoop
<1>4. CASE \/ UnassignWaiting(w) \/ AnnounceCandidacy(w) \/ CheckCandidacy(w)
           \/ EndPass(w) \/ ConfirmLeadership(w) \/ AssignUnassigned(w) \/ Rebalance(w)
  BY <1>1, <1>4
  DEF UnassignWaiting, AnnounceCandidacy, CheckCandidacy, EndPass, ConfirmLeadership,
      AssignUnassigned, Rebalance, At, Loops, BackLoop
<1>. QED  BY <1>2, <1>3, <1>4, BackExcludes DEF LeaderStep

\* What a step does to the record of a worker: it remains that of a running
\* worker, an alive one turns unloaded only by a call about its death, and
\* who makes such calls remains the leader.
BackGoesOn(v) ==
  /\ v \in DOMAIN workers' =>
       /\ v \in DOMAIN workers \/ up'[v] = "up"
       /\ workers'[v].status \in {"alive", "unloaded"} /\ workers'[v].age \in {0, 1}
  /\ v \in DOMAIN workers /\ workers[v].status = "alive" /\ ~Dying(v) =>
       v \in DOMAIN workers' /\ workers'[v].status = "alive"
  /\ Mourns(v) => IsRecorded(v)'

LEMMA BackRecords ==
  ASSUME BackStep, NEW v \in DOMAIN workers
  PROVE  /\ v \in Worker /\ workers[v] \in WorkerRec /\ up[v] = "up"
         /\ workers[v].status \in {"alive", "unloaded"} /\ workers[v].age \in {0, 1}
         /\ v \notin DefunctWorkers /\ v \notin DefunctLeaders
<1>1. /\ v \in Worker /\ workers[v] \in WorkerRec /\ up[v] = "up"
      /\ workers[v].status \in {"alive", "unloaded"} /\ workers[v].age \in {0, 1}
  BY DEF BackStep, AllBack, BackRecord, LeaderInv, RecordsInv, WorkersInv
<1>2. LeaderTimeout >= 1 /\ WorkerTimeout >= 1 /\ LeaderTimeout \in Nat /\ WorkerTimeout \in Nat
  BY TimeoutsAreOrdered DEF BackStep
<1>3. ~(workers[v].age > WorkerTimeout) /\ ~(workers[v].age > LeaderTimeout)
  BY <1>1, <1>2
<1>. QED  BY <1>1, <1>3 DEF DefunctWorkers, DefunctLeaders

LEMMA MournersAreRecorded ==
  ASSUME BackStep, NEW v \in Worker, Mourns(v)
  PROVE  IsRecorded(v) /\ workers[v].status = "alive" /\ ~CallsAbout(v) /\ ~Dying(v)
BY DEF BackStep, AllBack, Mourning, CallsAbout, Dying, DeathCall

LEMMA SameRecordIsBack ==
  ASSUME BackStep, NEW v \in Worker,
         v \in DOMAIN workers' <=> v \in DOMAIN workers,
         v \in DOMAIN workers => workers'[v] = workers[v]
  PROVE  BackGoesOn(v)
BY BackRecords, MournersAreRecorded DEF BackGoesOn, IsRecorded

\* A record whose office alone changes, or whose age does.
LEMMA SameStatusIsBack ==
  ASSUME BackStep, NEW v \in Worker,
         v \in DOMAIN workers' <=> v \in DOMAIN workers,
         v \in DOMAIN workers => workers'[v].status = workers[v].status
                                 /\ workers'[v].age \in {0, 1},
         Mourns(v) => IsRecorded(v)'
  PROVE  BackGoesOn(v)
BY BackRecords DEF BackGoesOn

LEMMA ReadsAreBack ==
  ASSUME BackStep, NEW v \in Worker,
         \/ UNCHANGED workers
         \/ GetWorkerStatus \/ GetTopologyStatus \/ GetTopologiesForWorker
  PROVE  BackGoesOn(v)
<1>1. CASE UNCHANGED workers \/ GetTopologiesForWorker
  BY <1>1, SameRecordIsBack DEF GetTopologiesForWorker
<1>2. CASE GetWorkerStatus \/ GetTopologyStatus
  <2>1. workers' = [u \in DOMAIN workers |->
          IF u \in DefunctWorkers THEN [workers[u] EXCEPT !.status = "dead"]
                                  ELSE workers[u]]
    BY <1>2 DEF GetWorkerStatus, GetTopologyStatus, DisableDefunctWorkers
  <2>2. v \notin DefunctWorkers
    BY BackRecords DEF DefunctWorkers
  <2>. QED  BY <2>1, <2>2, SameRecordIsBack
<1>. QED  BY <1>1, <1>2

LEMMA PingsAreBack ==
  ASSUME BackStep, NEW v \in Worker, NEW n \in Worker, workers' = Pinged(n)
  PROVE  BackGoesOn(v)
<1>1. CASE v # n \/ v \notin DOMAIN workers
  BY <1>1, SameRecordIsBack DEF Pinged
<1>2. CASE v = n /\ v \in DOMAIN workers
  <2>1. workers'[v] = [workers[v] EXCEPT !.age = 0] /\ v \in DOMAIN workers'
    BY <1>2 DEF Pinged
  <2>2. /\ workers'[v].age = 0 /\ workers'[v].status = workers[v].status
        /\ workers'[v].lstatus = workers[v].lstatus
    BY <1>2, <2>1, BackRecords DEF WorkerRec
  <2>3. Mourns(v) => IsRecorded(v)'
    BY <2>1, <2>2, MournersAreRecorded DEF IsRecorded
  <2>. QED  BY <1>2, <2>1, <2>2, <2>3, SameStatusIsBack
<1>. QED  BY <1>1, <1>2

LEMMA TimeIsBack ==
  ASSUME BackStep, NEW v \in Worker, workers' = AgeWorkers,
         \A u \in DOMAIN workers : Pings(u) => workers[u].age = 0
  PROVE  BackGoesOn(v)
<1>1. CASE v \notin DOMAIN workers
  BY <1>1, SameRecordIsBack DEF AgeWorkers
<1>2. CASE v \in DOMAIN workers
  <2>. DEFINE age == Older(workers[v].age)
  <2>1. workers'[v] = [workers[v] EXCEPT !.age = age] /\ v \in DOMAIN workers'
    BY <1>2 DEF AgeWorkers
  <2>2. age \in {0, 1}
    <3>1. workers[v].age = 0
      BY <1>2, BackRecords DEF Pings
    <3>2. Older(0) \in {0, 1}
      BY TimeoutsAreOrdered DEF Older
    <3>. QED  BY <3>1, <3>2
  <2>. HIDE DEF age
  <2>3. /\ workers'[v].age = age /\ workers'[v].status = workers[v].status
        /\ workers'[v].lstatus = workers[v].lstatus
    BY <1>2, <2>1, BackRecords DEF WorkerRec
  <2>4. Mourns(v) => IsRecorded(v)'
    BY <2>1, <2>3, MournersAreRecorded DEF IsRecorded
  <2>. QED  BY <1>2, <2>1, <2>2, <2>3, <2>4, SameStatusIsBack
<1>. QED  BY <1>1, <1>2

\* Nobody wins an election while the leader has calls about a death to make.
LEMMA ElectionsAreBack ==
  ASSUME BackStep, NEW v \in Worker, NEW n \in Worker, calls[n] = {},
         AnnounceLeaderCandidacy(n) \/ CheckLeaderCandidacy(n)
  PROVE  BackGoesOn(v)
<1>. DEFINE ws == LeadersDisabled
<1>1. DOMAIN ws = DOMAIN workers /\ \A u \in DOMAIN workers : ws[u] = workers[u]
  BY BackRecords DEF LeadersDisabled
<1>2. Mourns(v) => v \in OtherLeaders(n, ws) /\ v # n
  <2>1. Mourns(v) => v # n
    BY DEF Mourns
  <2>. HIDE DEF ws
  <2>. QED  BY <1>1, <2>1, MournersAreRecorded DEF OtherLeaders, Leaders, IsRecorded
<1>3. \A u \in DOMAIN workers : workers[u] \in WorkerRec
  BY BackRecords
<1>. HIDE DEF ws
<1>4. CASE AnnounceLeaderCandidacy(n)
  <2>. DEFINE announced == IF MayAnnounce(n, ws) THEN {n} \cap DOMAIN ws ELSE {}
  <2>1. workers' = [u \in DOMAIN ws |->
          IF u \in announced THEN [ws[u] EXCEPT !.lstatus = "candidate"] ELSE ws[u]]
    BY <1>4 DEF AnnounceLeaderCandidacy, ws
  <2>2. Mourns(v) => announced = {}
    BY <1>2 DEF MayAnnounce
  <2>. HIDE DEF announced
  <2>3. DOMAIN workers' = DOMAIN workers
    BY <1>1, <2>1
  <2>4. v \in DOMAIN workers =>
          workers'[v].status = workers[v].status /\ workers'[v].age = workers[v].age
    BY <1>1, <1>3, <2>1 DEF WorkerRec
  <2>5. Mourns(v) => IsRecorded(v)'
    BY <1>1, <2>1, <2>2, MournersAreRecorded DEF IsRecorded
  <2>. QED  BY <2>3, <2>4, <2>5, BackRecords, SameStatusIsBack
<1>5. CASE CheckLeaderCandidacy(n)
  <2>. DEFINE ls(u) == LStatusAfterCheck(n, ws, u)
  <2>1. workers' = [u \in DOMAIN ws |-> [ws[u] EXCEPT !.lstatus = ls(u)]]
    BY <1>5 DEF CheckLeaderCandidacy, ws
  <2>2. Mourns(v) => ls(v) = ws[v].lstatus
    BY <1>2 DEF Elects, LStatusAfterCheck
  <2>. HIDE DEF ls
  <2>3. v \in DOMAIN workers => /\ v \in DOMAIN workers'
                                /\ workers'[v].status = workers[v].status
                                /\ workers'[v].age = workers[v].age
                                /\ workers'[v].lstatus = ls(v)
    BY <1>1, <1>3, <2>1 DEF WorkerRec
  <2>4. Mourns(v) => IsRecorded(v)'
    BY <1>1, <2>2, <2>3, MournersAreRecorded DEF IsRecorded
  <2>5. DOMAIN workers' = DOMAIN workers
    BY <1>1, <2>1
  <2>. QED  BY <2>3, <2>4, <2>5, BackRecords, SameStatusIsBack
<1>. QED  BY <1>4, <1>5

LEMMA EnabledAreBack ==
  ASSUME BackStep, NEW v \in Worker, NEW n \in Worker, SetWorkerStatus(n, "alive")
  PROVE  BackGoesOn(v)
<1>1. CASE v # n \/ v \notin DOMAIN workers
  BY <1>1, SameRecordIsBack DEF SetWorkerStatus
<1>2. CASE v = n /\ v \in DOMAIN workers
  <2>1. workers'[v] = [workers[v] EXCEPT !.status = "alive"] /\ v \in DOMAIN workers'
    BY <1>2 DEF SetWorkerStatus
  <2>2. /\ workers'[v].age = workers[v].age /\ workers'[v].status = "alive"
        /\ workers'[v].lstatus = workers[v].lstatus
    BY <1>2, <2>1, BackRecords DEF WorkerRec
  <2>3. Mourns(v) => IsRecorded(v)'
    BY <2>1, <2>2, MournersAreRecorded DEF IsRecorded
  <2>. QED  BY <1>2, <2>1, <2>2, <2>3, BackRecords DEF BackGoesOn
<1>. QED  BY <1>1, <1>2

\* Who registers had no record, and so no call about a death to make.
LEMMA RegisteredAreBack ==
  ASSUME BackStep, NEW v \in Worker, NEW n \in Worker, RegisterWorker(n),
         n \notin DOMAIN workers, up'[n] = "up"
  PROVE  BackGoesOn(v)
<1>1. workers' = [w \in DOMAIN workers \cup {n} |->
       IF w = n THEN [age |-> 0, status |-> "alive", lstatus |-> "normal"]
                ELSE workers[w]]
  BY DEF RegisterWorker
<1>2. CASE v # n
  BY <1>1, <1>2, SameRecordIsBack
<1>3. CASE v = n
  <2>1. ~Mourns(v)
    BY <1>3, MournersAreRecorded DEF IsRecorded
  <2>. QED  BY <1>1, <1>3, <2>1 DEF BackGoesOn
<1>. QED  BY <1>2, <1>3

LEMMA CallsAreBack ==
  ASSUME BackStep, NEW w \in Worker, NEW c \in calls[w], Perform(c), NEW v \in Worker
  PROVE  BackGoesOn(v)
<1>1. c.op \in Op /\ c.op # "dead"
  BY DEF BackStep, AllBack, LeaderInv, LoopsInv, GoodCall
<1>2. CASE c.op \in {"list", "unassign", "assign", "start", "stop"}
  <2>1. UNCHANGED workers
    BY <1>2 DEF Perform, GetTopologiesForWorker, SetTopologyStatus, AssignTopology,
       SendMessageToWorker
  <2>. QED  BY <2>1, ReadsAreBack
<1>3. CASE c.op \in {"normal", "unloaded"} /\ (v # c.worker \/ v \notin DOMAIN workers)
  BY <1>3, SameRecordIsBack DEF Perform, SetWorkerStatus, SetWorkerLStatus
<1>4. CASE c.op = "normal" /\ v = c.worker /\ v \in DOMAIN workers
  <2>1. workers'[v] = [workers[v] EXCEPT !.lstatus = "normal"] /\ v \in DOMAIN workers'
    BY <1>4 DEF Perform, SetWorkerLStatus
  <2>2. workers'[v].status = workers[v].status /\ workers'[v].age = workers[v].age
    BY <1>4, <2>1, BackRecords DEF WorkerRec
  <2>3. ~Mourns(v)
    BY <1>4, MournersAreRecorded DEF CallsAbout
  <2>. QED  BY <1>4, <2>1, <2>2, <2>3, BackRecords, SameStatusIsBack
<1>5. CASE c.op = "unloaded" /\ v = c.worker /\ v \in DOMAIN workers
  <2>1. workers'[v] = [workers[v] EXCEPT !.status = "unloaded"] /\ v \in DOMAIN workers'
    BY <1>5 DEF Perform, SetWorkerStatus
  <2>2. workers'[v].status = "unloaded" /\ workers'[v].age = workers[v].age
    BY <1>5, <2>1, BackRecords DEF WorkerRec
  <2>3. Dying(v)
    BY <1>5 DEF Dying, DeathCall
  <2>4. ~Mourns(v)
    BY <2>3, MournersAreRecorded
  <2>. QED  BY <1>5, <2>1, <2>2, <2>3, <2>4, BackRecords DEF BackGoesOn
<1>. QED  BY <1>1, <1>2, <1>3, <1>4, <1>5 DEF Op

LEMMA BackRecordsStep ==
  ASSUME BackStep, NEW v \in Worker
  PROVE  BackGoesOn(v)
<1>0. LeaderNext /\ up \in [Worker -> Life]
  BY DEF BackStep, LoopTypes, LeaderTypeOK
<1>1. ASSUME NEW n \in Worker,
             \/ RefreshStatuses(n) \/ UnassignWaiting(n) \/ ConfirmLeadership(n)
             \/ AssignUnassigned(n) \/ Rebalance(n) \/ RebalanceDue(n) \/ EndPass(n)
      PROVE  BackGoesOn(v)
  <2>1. GetWorkerStatus \/ GetTopologyStatus \/ UNCHANGED workers
    BY <1>1 DEF RefreshStatuses, UnassignWaiting, ConfirmLeadership,
       AssignUnassigned, Rebalance, RebalanceDue, EndPass, storage_vars
  <2>. QED  BY <2>1, ReadsAreBack
<1>2. ASSUME NEW n \in Worker, AnnounceCandidacy(n) \/ CheckCandidacy(n)
      PROVE  BackGoesOn(v)
  <2>1. calls[n] = {} /\ (AnnounceLeaderCandidacy(n) \/ CheckLeaderCandidacy(n))
    BY <1>2 DEF AnnounceCandidacy, CheckCandidacy, At
  <2>. QED  BY <2>1, ElectionsAreBack
<1>3. ASSUME NEW n \in Worker, MakeCall(n)
      PROVE  BackGoesOn(v)
  <2>1. PICK c \in calls[n] : Perform(c)
    BY <1>3 DEF MakeCall
  <2>. QED  BY <2>1, CallsAreBack
<1>4. ASSUME NEW n \in Worker, WorkerStep(n)
      PROVE  BackGoesOn(v)
  <2>1. CASE Start(n)
    BY <2>1, ReadsAreBack DEF Start, storage_vars
  <2>2. CASE Register(n)
    <3>1. RegisterWorker(n) /\ up[n] = "starting" /\ up'[n] = "up"
      BY <1>0, <2>2 DEF Register
    <3>2. n \notin DOMAIN workers
      BY <3>1, BackRecords
    <3>. QED  BY <3>1, <3>2, RegisteredAreBack
  <2>3. CASE Ping(n) \/ ReadMessages(n)
    <3>1. workers' = Pinged(n)
      BY <2>3 DEF Ping, PingWorker, ReadMessages, GetMessage, GetNoMessage
    <3>. QED  BY <3>1, PingsAreBack
  <2>4. CASE Recover(n)
    <3>1. BackLoop(n) /\ up'[n] = up[n]
      BY <2>4 DEF BackStep, AllBack, Recover, leader_vars
    <3>2. up'[n] = "up"
      BY <2>4, <3>1 DEF Recover, Pings, BackLoop
    <3>3. \/ SetWorkerStatus(n, "alive")
          \/ n \notin DOMAIN workers /\ RegisterWorker(n)
      BY <2>4 DEF Recover
    <3>. QED  BY <3>2, <3>3, EnabledAreBack, RegisteredAreBack
  <2>. QED  BY <1>4, <2>1, <2>2, <2>3, <2>4, BackExcludes DEF WorkerStep
<1>5. ASSUME NEW n \in Worker, Disruption(n)
      PROVE  BackGoesOn(v)
  <2>1. CASE Enable(n)
    BY <2>1, EnabledAreBack DEF Enable
  <2>2. CASE Delete(n)
    <3>1. /\ workers[n].status = "unloaded"
          /\ workers' = [w \in DOMAIN workers \ {n} |-> workers[w]]
      BY <2>2 DEF Delete, DeleteWorker
    <3>2. CASE v # n
      BY <3>1, <3>2, SameRecordIsBack
    <3>3. CASE v = n
      <4>1. ~Mourns(v)
        BY <3>1, <3>3, MournersAreRecorded
      <4>. QED  BY <3>1, <3>3, <4>1 DEF BackGoesOn
    <3>. QED  BY <3>2, <3>3
  <2>. QED  BY <1>5, <2>1, <2>2, BackExcludes DEF Disruption
<1>6. ASSUME NEW n \in Worker, NEW t \in Topology, NEW status \in Reported,
             Report(n, t, status)
      PROVE  BackGoesOn(v)
  BY <1>6, ReadsAreBack DEF Report, SetTopologyStatus
<1>7. ASSUME NEW t \in Topology, ClearStep(t) \/ Client(t)
      PROVE  BackGoesOn(v)
  <2>1. Client(t)
    BY <1>7, BackExcludes
  <2>2. UNCHANGED workers
    BY <2>1 DEF Client, RegisterTopology, EnableTopology, DisableTopology, SetEnabled
  <2>. QED  BY <2>2, ReadsAreBack
<1>8. CASE TimePasses
  <2>1. workers' = AgeWorkers
        /\ \A u \in DOMAIN workers : Pings(u) => workers[u].age = 0
    BY <1>8, NothingDisruptsBack DEF TimePasses, Tick
  <2>. QED  BY <2>1, TimeIsBack
<1>. QED  BY <1>0, <1>1, <1>2, <1>3, <1>4, <1>5, <1>6, <1>7, <1>8, BackExcludes
  DEF LeaderNext, LeaderStep

\* What a step leaves as it is of the loop of another worker.
LEMMA BackOthers ==
  ASSUME BackStep, NEW w \in Worker,
         ~LeaderStep(w), ~RebalanceDue(w), ~WorkerStep(w), ~Disruption(w)
  PROVE  /\ up'[w] = up[w] /\ is_running'[w] = is_running[w]
         /\ calls'[w] = calls[w] /\ step'[w] = step[w] /\ seen'[w] = seen[w]
<1>1. LeaderNext /\ LeaderInv /\ LeaderTypeOK
  BY DEF BackStep, LoopTypes
<1>2. ASSUME NEW v \in Worker,
             LeaderStep(v) \/ RebalanceDue(v) \/ WorkerStep(v) \/ Disruption(v)
      PROVE  /\ up'[w] = up[w] /\ is_running'[w] = is_running[w]
             /\ calls'[w] = calls[w] /\ step'[w] = step[w] /\ seen'[w] = seen[w]
  BY <1>1, <1>2, OtherLoops, OthersHaveSeen
<1>3. ASSUME \/ \E v \in Worker, t \in Topology, status \in Reported : Report(v, t, status)
             \/ \E t \in Topology : Client(t)
             \/ TimePasses
      PROVE  UNCHANGED <<up, is_running, calls, step, seen>>
  BY <1>3 DEF Report, Client, TimePasses, leader_vars, loop_vars
<1>. QED  BY <1>1, <1>2, <1>3, BackExcludes DEF LeaderNext

\* These leave the loops as they are.
LEMMA BackUnlooped ==
  ASSUME BackStep, NEW w \in Worker,
         RebalanceDue(w) \/ Register(w) \/ Ping(w) \/ Recover(w) \/ ReadMessages(w)
           \/ Enable(w) \/ Delete(w)
  PROVE  UNCHANGED <<is_running, calls, step, seen>>
BY DEF RebalanceDue, Register, Ping, Recover, ReadMessages, Enable, Delete,
   leader_vars, loop_vars

LEMMA NoneIsIdle ==
  ASSUME BackStep, NEW v \in DOMAIN workers'
  PROVE  ~Idle(v)' /\ v \in Worker /\ workers'[v].status \in {"alive", "unloaded"}
<1>1. v \in Worker
  BY DEF BackStep, LeaderInv, RecordsInv, WorkersInv
<1>2. workers'[v].status \in {"alive", "unloaded"} /\ workers'[v].age \in {0, 1}
  BY <1>1, BackRecordsStep DEF BackGoesOn
<1>3. IdleInterval >= 1 /\ IdleInterval \in Nat
  BY TimeoutsAreOrdered, IntervalsAreOrdered DEF BackStep
<1>4. ~(workers'[v].age > IdleInterval)
  BY <1>2, <1>3
<1>. QED  BY <1>1, <1>2, <1>4 DEF Idle

\* No death is dealt with that was not before.
LEMMA NewBackCalls ==
  ASSUME BackStep, NEW w \in Worker, NEW d \in calls'[w]
  PROVE  /\ d.op # "dead"
         /\ \A v \in Worker : DeathCall(d, v) => \E c \in calls[w] : DeathCall(c, v)
<1>1. /\ calls \in [Worker -> SUBSET Call]
      /\ BackLoop(w) /\ \A c \in calls[w] : c.op # "dead"
  BY DEF BackStep, AllBack, LoopTypes, LeaderTypeOK
<1>2. CASE d \in calls[w]
  BY <1>1, <1>2
<1>3. CASE MakeCall(w)
  <2>1. PICK c \in calls[w] :
          calls' = [calls EXCEPT ![w] = (@ \ {c}) \cup
            IF c.op = "list"
            THEN HandleDeadWorker(c.worker, TopologiesOf(c.worker)', topologies')
            ELSE {}]
    BY <1>3 DEF MakeCall
  <2>2. \/ d \in calls[w]
        \/ /\ c.op = "list"
           /\ d \in HandleDeadWorker(c.worker, TopologiesOf(c.worker)', topologies')
    BY <1>1, <2>1
  <2>3. d \in calls[w] \/ (c.op = "list" /\ d.worker = c.worker
                           /\ d.op \in {"unassign", "unloaded"})
    BY <2>2 DEF HandleDeadWorker, ACall
  <2>. QED  BY <1>2, <2>3 DEF DeathCall
<1>4. CASE RefreshStatuses(w)
  <2>1. calls'[w] = DefunctCalls'
    BY <1>1, <1>4 DEF RefreshStatuses
  <2>2. d.op = "normal"
    BY <2>1, NoneIsIdle DEF DefunctCalls, ACall
  <2>. QED  BY <2>2 DEF DeathCall
<1>5. CASE UnassignWaiting(w)
  <2>1. \E T : calls'[w] = {ACall("unassign", NoWorker, {t}) : t \in T}
    BY <1>1, <1>5 DEF UnassignWaiting
  <2>2. d.op = "unassign" /\ d.worker = NoWorker
    BY <2>1 DEF ACall
  <2>. QED  BY <2>2, WorkersAreNumbers DEF DeathCall
<1>6. CASE ConfirmLeadership(w)
  <2>1. calls'[w] = CASE IsRecorded(w)' /\ Alive(w)' ->
                            {ACall("list", v, {}) : v \in DeadWorkers'}
                      [] IsRecorded(w)' /\ ~(IsRecorded(w)' /\ Alive(w)') -> Release(w)
                      [] OTHER -> {}
    BY <1>1, <1>6 DEF ConfirmLeadership
  <2>2. DeadWorkers' = {}
    BY NoneIsIdle DEF DeadWorkers
  <2>3. d \in Release(w)
    BY <2>1, <2>2
  <2>. QED  BY <2>3 DEF Release, ACall, DeathCall
<1>7. CASE AssignUnassigned(w)
  <2>. DEFINE T == {t \in DOMAIN topologies' : ToAssign(t)'}
  <2>1. PICK target \in [T -> seen[w].alive] :
          calls' = [calls EXCEPT ![w] =
             {ACall("assign", target[t], {t}) : t \in T} \cup
             {ACall("start", v, {t \in T : target[t] = v}) :
                v \in {target[t] : t \in T}}]
    BY <1>7 DEF AssignUnassigned
  <2>. HIDE DEF T
  <2>2. d.op \in {"assign", "start"}
    BY <1>1, <2>1 DEF ACall
  <2>. QED  BY <2>2 DEF DeathCall
<1>8. CASE Rebalance(w)
  <2>1. PICK T \in SUBSET DOMAIN seen[w].placed :
          calls' = [calls EXCEPT ![w] =
            {ACall("stop", v, {t \in T : seen[w].placed[t] = v}) :
               v \in {seen[w].placed[t] : t \in T}}]
    BY <1>8 DEF Rebalance
  <2>2. d.op = "stop"
    BY <1>1, <2>1 DEF ACall
  <2>. QED  BY <2>2 DEF DeathCall
<1>9. CASE AnnounceCandidacy(w) \/ CheckCandidacy(w) \/ EndPass(w) \/ Start(w)
  <2>1. UNCHANGED calls
    BY <1>9 DEF AnnounceCandidacy, CheckCandidacy, EndPass, Start
  <2>. QED  BY <1>2, <2>1
<1>10. CASE RebalanceDue(w) \/ Register(w) \/ Ping(w) \/ Recover(w) \/ ReadMessages(w)
           \/ Enable(w) \/ Delete(w)
  BY <1>2, <1>10, BackUnlooped
<1>11. CASE ~LeaderStep(w) /\ ~RebalanceDue(w) /\ ~WorkerStep(w) /\ ~Disruption(w)
  BY <1>2, <1>11, BackOthers
<1>. QED  BY <1>3, <1>4, <1>5, <1>6, <1>7, <1>8, <1>9, <1>10, <1>11, BackExcludes
  DEF LeaderStep, WorkerStep, Disruption

LEMMA DeathsAreOld ==
  ASSUME BackStep, NEW v \in Worker
  PROVE  (Dying(v)' => Dying(v)) /\ (Mourns(v)' => Mourns(v))
BY NewBackCalls DEF Dying, Mourns

LEMMA MourningStep ==
  ASSUME BackStep, NEW w \in Worker
  PROVE  Mourning(w)'
<1>. SUFFICES ASSUME Mourns(w)'
              PROVE  IsRecorded(w)' /\ workers'[w].status = "alive" /\ ~CallsAbout(w)'
  BY DEF Mourning
<1>1. Mourns(w) /\ BackGoesOn(w)
  BY DeathsAreOld, BackRecordsStep
<1>2. IsRecorded(w) /\ workers[w].status = "alive" /\ ~CallsAbout(w) /\ ~Dying(w)
  BY <1>1, MournersAreRecorded
<1>3. IsRecorded(w)' /\ w \in DOMAIN workers' /\ workers'[w].status = "alive"
  BY <1>1, <1>2 DEF BackGoesOn, IsRecorded
<1>4. ASSUME NEW u \in Worker, NEW d \in calls'[u], d.worker = w,
             d.op \in {"normal", "list", "unassign", "unloaded"}
      PROVE  FALSE
  <2>1. CASE d.op = "normal"
    <3>1. d \notin calls[u]
      BY <1>2, <1>4, <2>1 DEF CallsAbout
    <3>. QED  BY <1>3, <1>4, <2>1, <3>1, NewReleases, NoneIsIdle DEF BackStep, LoopTypes
  <2>2. CASE DeathCall(d, w)
    BY <1>2, <2>2, NewBackCalls DEF Dying
  <2>. QED  BY <1>4, <2>1, <2>2 DEF DeathCall
<1>. QED  BY <1>3, <1>4 DEF CallsAbout

LEMMA StandingStep ==
  ASSUME BackStep, NEW w \in Worker
  PROVE  Standing(w)'
<1>. SUFFICES ASSUME Stands(w)'
              PROVE  w \in DOMAIN workers' /\ workers'[w].status = "alive" /\ ~Dying(w)'
  BY DEF Standing
<1>1. /\ step \in [Worker -> Step] /\ seen = [u \in Worker |-> seen[u]]
      /\ Standing(w) /\ BackLoop(w)
  BY DEF BackStep, AllBack, LoopTypes, LeaderTypeOK, LeaderInv, LoopsInv
<1>2. CASE Stands(w)
  <2>1. w \in DOMAIN workers /\ workers[w].status = "alive" /\ ~Dying(w)
    BY <1>1, <1>2 DEF Standing
  <2>. QED  BY <2>1, BackRecordsStep, DeathsAreOld DEF BackGoesOn
<1>3. CASE RefreshStatuses(w)
  <2>1. /\ step'[w] = "defunct"
        /\ seen' = [seen EXCEPT ![w] =
             [Unseen EXCEPT !.announce = ~is_leader[w] /\ (Vacant /\ Alive(w))',
                            !.gone = Gone']]
    BY <1>1, <1>3 DEF RefreshStatuses
  <2>2. seen'[w].announce = (~is_leader[w] /\ (Vacant /\ Alive(w))')
    BY <1>1, <2>1 DEF Unseen
  <2>3. Vacant' /\ Alive(w)'
    BY <2>1, <2>2 DEF Stands
  <2>4. w \in DOMAIN workers' /\ workers'[w].status = "alive"
    BY <2>3 DEF Alive, AliveWorkers
  <2>5. ASSUME NEW u \in Worker, NEW c \in calls'[u], DeathCall(c, w)
        PROVE  FALSE
    <3>1. IsRecorded(u)' /\ workers'[u].status = "alive"
      BY <2>5, MourningStep DEF Mourning, Mourns
    <3>2. ~Disabled(u)'
      BY <3>1, NoneIsIdle DEF Disabled, IsRecorded
    <3>. QED  BY <2>3, <3>1, <3>2 DEF Vacant, IsRecorded
  <2>. QED  BY <2>4, <2>5 DEF Dying
<1>4. CASE MakeCall(w) \/ UnassignWaiting(w) \/ AnnounceCandidacy(w)
  <2>1. Stands(w)
    BY <1>1, <1>4 DEF MakeCall, UnassignWaiting, AnnounceCandidacy, At, Stands
  <2>. QED  BY <1>2, <2>1
<1>5. CASE CheckCandidacy(w) \/ EndPass(w) \/ ConfirmLeadership(w)
           \/ AssignUnassigned(w) \/ Rebalance(w) \/ Start(w)
  <2>1. \E x \in {"elected", "end", "sleep", "stopped", "dead", "assign"} :
          step' = [step EXCEPT ![w] = x]
    <3>1. CASE CheckCandidacy(w)
      <4>1. step' = [step EXCEPT ![w] = IF is_leader'[w] THEN "elected" ELSE "end"]
        BY <3>1 DEF CheckCandidacy
      <4>. QED  BY <4>1
    <3>2. CASE EndPass(w)
      <4>1. step' = [step EXCEPT ![w] = IF is_running[w] THEN "sleep" ELSE "stopped"]
        BY <3>2 DEF EndPass
      <4>. QED  BY <4>1
    <3>3. CASE ConfirmLeadership(w)
      <4>1. step' = [step EXCEPT ![w] = IF IsRecorded(w)' /\ Alive(w)' THEN "dead" ELSE "end"]
        BY <3>3 DEF ConfirmLeadership
      <4>. QED  BY <4>1
    <3>. QED  BY <1>5, <3>1, <3>2, <3>3 DEF AssignUnassigned, Rebalance, Start
  <2>. QED  BY <1>1, <2>1 DEF Stands
<1>6. CASE RebalanceDue(w) \/ Register(w) \/ Ping(w) \/ Recover(w) \/ ReadMessages(w)
           \/ Enable(w) \/ Delete(w)
  BY <1>2, <1>6, BackUnlooped DEF Stands
<1>7. CASE ~LeaderStep(w) /\ ~RebalanceDue(w) /\ ~WorkerStep(w) /\ ~Disruption(w)
  BY <1>2, <1>7, BackOthers DEF Stands
<1>. QED  BY <1>3, <1>4, <1>5, <1>6, <1>7, BackExcludes
  DEF LeaderStep, WorkerStep, Disruption

LEMMA BackLoopStep ==
  ASSUME BackStep, NEW w \in Worker
  PROVE  BackLoop(w)'
<1>1. /\ BackLoop(w) /\ up \in [Worker -> Life] /\ step \in [Worker -> Step]
      /\ is_running \in [Worker -> BOOLEAN]
  BY DEF BackStep, AllBack, LoopTypes, LeaderTypeOK
<1>2. CASE LeaderStep(w)
  <2>1. up[w] = "up" /\ UNCHANGED <<up, is_running>>
    BY <1>2, BackLoopsAreUp
  <2>2. is_running[w] /\ step[w] # "stopped"
    BY <1>1, <2>1 DEF BackLoop
  <2>3. step'[w] # "stopped"
    <3>1. CASE MakeCall(w)
      BY <2>2, <3>1 DEF MakeCall
    <3>2. CASE EndPass(w)
      <4>1. step' = [step EXCEPT ![w] = IF is_running[w] THEN "sleep" ELSE "stopped"]
        BY <3>2 DEF EndPass
      <4>. QED  BY <1>1, <2>2, <4>1
    <3>3. CASE CheckCandidacy(w)
      <4>1. step' = [step EXCEPT ![w] = IF is_leader'[w] THEN "elected" ELSE "end"]
        BY <3>3 DEF CheckCandidacy
      <4>. QED  BY <1>1, <4>1
    <3>4. CASE ConfirmLeadership(w)
      <4>1. step' = [step EXCEPT ![w] = IF IsRecorded(w)' /\ Alive(w)' THEN "dead" ELSE "end"]
        BY <3>4 DEF ConfirmLeadership
      <4>. QED  BY <1>1, <4>1
    <3>5. CASE RefreshStatuses(w) \/ UnassignWaiting(w) \/ AnnounceCandidacy(w)
               \/ AssignUnassigned(w) \/ Rebalance(w)
      <4>1. \E x \in {"defunct", "waiting", "announced", "assign", "end"} :
              step' = [step EXCEPT ![w] = x]
        BY <3>5 DEF RefreshStatuses, UnassignWaiting, AnnounceCandidacy,
           AssignUnassigned, Rebalance
      <4>. QED  BY <1>1, <4>1
    <3>. QED  BY <1>2, <3>1, <3>2, <3>3, <3>4, <3>5, BackExcludes DEF LeaderStep
  <2>. QED  BY <2>1, <2>2, <2>3 DEF BackLoop
<1>3. CASE Start(w)
  <2>1. /\ up[w] = "down" /\ up'[w] = "starting" /\ step'[w] = "sleep"
        /\ is_running'[w] /\ UNCHANGED calls
    BY <1>1, <1>3, Zenon DEF Start
  <2>. QED  BY <1>1, <2>1 DEF BackLoop
<1>4. CASE RebalanceDue(w) \/ Register(w) \/ Ping(w) \/ Recover(w) \/ ReadMessages(w)
           \/ Enable(w) \/ Delete(w)
  <2>1. UNCHANGED <<is_running, calls, step>>
    BY <1>4, BackUnlooped
  <2>2. up'[w] = up[w] \/ (up[w] = "starting" /\ up'[w] = "up")
    BY <1>1, <1>4 DEF RebalanceDue, Register, Ping, Recover, ReadMessages, Enable,
       Delete, leader_vars
  <2>. QED  BY <1>1, <2>1, <2>2 DEF BackLoop
<1>5. CASE ~LeaderStep(w) /\ ~RebalanceDue(w) /\ ~WorkerStep(w) /\ ~Disruption(w)
  BY <1>1, <1>5, BackOthers DEF BackLoop
<1>. QED  BY <1>2, <1>3, <1>4, <1>5, BackExcludes DEF WorkerStep, Disruption

LEMMA AllBackStep ==
  ASSUME BackStep
  PROVE  AllBack'
<1>1. disruptions' = MaxDisruptions
  BY NothingDisruptsBack, DisruptionsGrow DEF BackStep, AllBack
<1>2. NobodyClears'
  BY ClearingStep DEF BackStep, AllBack
<1>3. ASSUME NEW v \in DOMAIN workers'
      PROVE  BackRecord(v)'
  <2>1. v \in Worker /\ BackGoesOn(v)
    BY NoneIsIdle, BackRecordsStep
  <2>2. up'[v] = "up"
    <3>1. SUFFICES ASSUME v \in DOMAIN workers
                   PROVE  up'[v] = "up"
      BY <2>1 DEF BackGoesOn
    <3>2. up[v] = "up" /\ up \in [Worker -> Life]
      BY <3>1, BackRecords DEF BackStep, LoopTypes, LeaderTypeOK
    <3>3. CASE LeaderStep(v)
      BY <2>1, <3>2, <3>3, BackLoopsAreUp
    <3>4. CASE RebalanceDue(v) \/ Register(v) \/ Ping(v) \/ Recover(v)
               \/ ReadMessages(v) \/ Enable(v) \/ Delete(v) \/ Start(v)
      BY <3>2, <3>4 DEF RebalanceDue, Register, Ping, Recover, ReadMessages, Enable,
         Delete, Start, leader_vars
    <3>5. CASE ~LeaderStep(v) /\ ~RebalanceDue(v) /\ ~WorkerStep(v) /\ ~Disruption(v)
      BY <2>1, <3>2, <3>5, BackOthers
    <3>. QED  BY <2>1, <3>3, <3>4, <3>5, BackExcludes DEF WorkerStep, Disruption
  <2>. QED  BY <2>1, <2>2 DEF BackRecord, BackGoesOn
<1>. QED  BY <1>1, <1>2, <1>3, BackLoopStep, StandingStep, MourningStep, NewBackCalls
  DEF AllBack

LEMMA AllBackFrame ==
  ASSUME AllBack, UNCHANGED vars
  PROVE  AllBack'
<1>1. UNCHANGED <<workers, up, is_running, step, calls, seen, clearing, disruptions>>
  BY DEF vars, storage_vars, leader_vars, loop_vars
<1>. QED  BY <1>1 DEF AllBack, BackLoop, BackRecord, Standing, Stands, Mourning,
  Mourns, Dying, DeathCall, CallsAbout, IsRecorded, NobodyClears

LEMMA OneTouchedFrame ==
  ASSUME OneTouched, UNCHANGED vars
  PROVE  OneTouched'
<1>1. UNCHANGED <<workers, up, calls, disruptions>>
  BY DEF vars, storage_vars, leader_vars, loop_vars
<1>. QED  BY <1>1 DEF OneTouched, Touched, CallsAbout

\* For any number of workers and topologies: when a worker crashes, it is not
\* pronounced unloaded before all that it ran was taken from it
\* (handleDeadWorker), whether it stays away or comes back before, between or
\* after the calls about its death: only the recorded leader makes them, it
\* asks for the topologies of a dead worker before and pronounces it unloaded
\* after they were taken from it, and assigns topologies only when that is
\* done; if the worker came back meanwhile, it runs what it has and recovers.
THEOREM UnloadedAreEmpty ==
  ASSUME Disruptions \subseteq {"crash"}, MaxDisruptions <= 1,
         Clearable = {}, LeaderTimeout # 0
  PROVE  LeaderSpec => []UnloadedIsEmpty
<1>1. LeaderInit => CrashIsHandled
  BY CalmInit DEF LeaderInit, StorageInit, Nothing, OneTouched, Touched, CallsAbout,
     CrashIsHandled
<1>2. /\ LeaderInv /\ LoopTypes /\ LeaderInv' /\ LoopTypes'
      /\ CrashIsHandled /\ [LeaderNext]_vars
      => CrashIsHandled'
  <2>. SUFFICES ASSUME LeaderInv, LoopTypes, LeaderInv', LoopTypes', CrashIsHandled,
                       [LeaderNext]_vars
                PROVE  CrashIsHandled'
    OBVIOUS
  <2>1. CASE UNCHANGED vars
    BY <2>1, CalmFrame, OneTouchedFrame, AllBackFrame DEF CrashIsHandled
  <2>2. CASE LeaderNext /\ AllBack
    BY <2>2, AllBackStep DEF BackStep, CrashIsHandled
  <2>3. ASSUME Calm, OneTouched, NEW v \in Worker, Register(v), CallsAbout(v)
        PROVE  CrashIsHandled'
    BY <2>3, ReturnBringsAllBack DEF CrashIsHandled
  <2>4. CASE /\ LeaderNext /\ Calm /\ OneTouched
             /\ \A v \in Worker : Register(v) => ~CallsAbout(v)
    <3>1. CalmStep
      BY <2>4 DEF CalmStep
    <3>2. LiveWorkers' /\ Statuses' /\ CalmCalls'
      BY <3>1, LiveWorkersStep, StatusesStep, CalmCallsStep DEF LiveWorkers, CalmCalls
    <3>3. SeenCalm' /\ Emptied' /\ NobodyClears'
      BY <3>1, SeenCalmStep, EmptiedStep, ClearingStep DEF SeenCalm, CalmStep, Calm
    <3>4. OneTouched'
      BY <2>4, <3>1, <3>2, OneTouchedStep
    <3>. QED  BY <3>2, <3>3, <3>4 DEF Calm, CrashIsHandled
  <2>. QED  BY <2>1, <2>2, <2>3, <2>4 DEF CrashIsHandled
<1>3. CrashIsHandled => UnloadedIsEmpty
  <2>1. Calm => UnloadedIsEmpty
    BY DEF Calm, Emptied, Unloaded, GivenUp, UnloadedIsEmpty
  <2>2. AllBack => UnloadedIsEmpty
    BY DEF AllBack, BackRecord, UnloadedIsEmpty
  <2>. QED  BY <2>1, <2>2 DEF CrashIsHandled
<1>. QED  BY <1>1, <1>2, <1>3, LeaderInvariant, LoopTypesInvariant, PTL DEF LeaderSpec
=============================================================================
