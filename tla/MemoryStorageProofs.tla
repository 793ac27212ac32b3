------------------------ MODULE MemoryStorageProofs ------------------------
(***************************************************************************)
(* Proofs about MemoryStorage, for every number of workers, topologies and *)
(* messages and every choice of the intervals.  The invariant has a part   *)
(* for each piece of state, because nearly every method changes only one.  *)
(***************************************************************************)
EXTENDS MemoryStorage, SequenceTheorems, Recursion

WorkersInv ==
  /\ DOMAIN workers \subseteq Worker
  /\ \A w \in DOMAIN workers : workers[w] \in WorkerRec
  /\ DOMAIN workers_history \subseteq Worker
  /\ \A w \in DOMAIN workers :
       /\ w \in DOMAIN workers_history
       /\ workers_history[w] = WorkerEntry(workers[w])
  /\ AtMostOneLeader

TopologiesInv ==
  /\ DOMAIN topologies \subseteq Topology
  /\ \A t \in DOMAIN topologies : topologies[t] \in TopologyRec
  /\ DOMAIN topologies_history \subseteq Topology
  /\ \A t \in DOMAIN topologies :
       /\ t \in DOMAIN topologies_history
       /\ topologies_history[t] = TopologyEntry(topologies[t])
  /\ ActiveHasWorker

MessagesInv ==
  /\ messages \in [Addressee -> Seq(MessageRec)]
  /\ MessagesHaveAddressee

StorageInv == WorkersInv /\ TopologiesInv /\ MessagesInv

LEMMA StorageInvImplies ==
  StorageInv => /\ TypeOK
                /\ AtMostOneLeader
                /\ HistoryIsCurrent
                /\ ActiveHasWorker
                /\ MessagesHaveAddressee
BY DEF StorageInv, WorkersInv, TopologiesInv, MessagesInv, TypeOK,
       HistoryIsCurrent

LEMMA InitInv == StorageInit => StorageInv
BY DEF StorageInit, Nothing, StorageInv, WorkersInv, TopologiesInv,
       MessagesInv, Addressee, AtMostOneLeader, ActiveHasWorker, MessagesHaveAddressee

---------------------------------------------------------------------------
(* What a method leaves alone stays good.                                  *)

LEMMA WorkersFrame ==
  ASSUME WorkersInv, UNCHANGED <<workers, workers_history>>
  PROVE  WorkersInv'
BY DEF WorkersInv, AtMostOneLeader, WorkerEntry

LEMMA TopologiesFrame ==
  ASSUME TopologiesInv, UNCHANGED <<topologies, topologies_history>>
  PROVE  TopologiesInv'
BY DEF TopologiesInv, ActiveHasWorker, TopologyEntry

LEMMA MessagesFrame ==
  ASSUME MessagesInv, UNCHANGED messages
  PROVE  MessagesInv'
BY DEF MessagesInv, MessagesHaveAddressee

LEMMA OlderIsAge == \A a \in Age : Older(a) \in Age
BY TimeoutsAreOrdered DEF Age, Older

LEMMA AgeZero == 0 \in Age
BY TimeoutsAreOrdered DEF Age

---------------------------------------------------------------------------
(* A change of the worker records is good when it keeps their shape, tells *)
(* the history of every visible change and does not make a second leader.  *)

LEMMA WorkersChange ==
  ASSUME WorkersInv,
         NEW W \in SUBSET Worker,
         W \subseteq DOMAIN workers',
         DOMAIN workers' \subseteq DOMAIN workers \cup W,
         \A w \in DOMAIN workers' : workers'[w] \in WorkerRec,
         \A w \in DOMAIN workers' \ W :
           WorkerEntry(workers'[w]) = WorkerEntry(workers[w]),
         NotifyWorkerHistory(W),
         AtMostOneLeader'
  PROVE  WorkersInv'
BY DEF WorkersInv, NotifyWorkerHistory, WorkerEntry

LEMMA DisableDefunctWorkersStep ==
  ASSUME WorkersInv, DisableDefunctWorkers
  PROVE  WorkersInv'
<1>1. DefunctWorkers \in SUBSET Worker /\ DOMAIN workers' = DOMAIN workers
  BY DEF DisableDefunctWorkers, DefunctWorkers, WorkersInv
<1>2. \A w \in DOMAIN workers :
        /\ workers'[w] \in WorkerRec
        /\ workers'[w].lstatus = workers[w].lstatus
  BY DEF DisableDefunctWorkers, WorkersInv, WorkerRec, WorkerStatus
<1>3. AtMostOneLeader'
  BY <1>1, <1>2 DEF WorkersInv, AtMostOneLeader
<1>4. \A w \in DOMAIN workers' \ DefunctWorkers : workers'[w] = workers[w]
  BY <1>1 DEF DisableDefunctWorkers
<1>5. DefunctWorkers \subseteq DOMAIN workers'
  BY <1>1 DEF DefunctWorkers
<1> QED
  BY <1>1, <1>2, <1>3, <1>4, <1>5, WorkersChange DEF DisableDefunctWorkers

LEMMA PingedStep ==
  ASSUME WorkersInv, NEW n \in Worker,
         workers' = Pinged(n), UNCHANGED workers_history
  PROVE  WorkersInv'
<1>1. DOMAIN workers' = DOMAIN workers
  BY DEF Pinged
<1>2. \A w \in DOMAIN workers :
        /\ workers'[w] \in WorkerRec
        /\ workers'[w].lstatus = workers[w].lstatus
        /\ workers'[w].status = workers[w].status
  BY AgeZero DEF Pinged, WorkersInv, WorkerRec
<1> QED
  BY <1>1, <1>2 DEF WorkersInv, AtMostOneLeader, WorkerEntry

LEMMA RegisterWorkerStep ==
  ASSUME WorkersInv, NEW n \in Worker, RegisterWorker(n)
  PROVE  WorkersInv'
<1>1. DOMAIN workers' = DOMAIN workers \cup {n}
  BY DEF RegisterWorker
<1>2. \A w \in DOMAIN workers' : workers'[w] \in WorkerRec
  BY AgeZero DEF RegisterWorker, WorkersInv, WorkerRec, WorkerStatus,
                 WorkerLStatus
<1>3. \A w \in DOMAIN workers' \ {n} : w \in DOMAIN workers /\ workers'[w] = workers[w]
  BY DEF RegisterWorker
<1>4. workers'[n].lstatus # "leader"
  BY DEF RegisterWorker
<1>5. AtMostOneLeader'
  BY <1>3, <1>4 DEF WorkersInv, AtMostOneLeader
<1> QED
  BY <1>1, <1>2, <1>3, <1>5, WorkersChange DEF RegisterWorker, WorkersInv

LEMMA LeadersDisabledOK ==
  ASSUME WorkersInv
  PROVE  /\ DOMAIN LeadersDisabled = DOMAIN workers
         /\ DefunctLeaders \in SUBSET Worker
         /\ DefunctLeaders \subseteq DOMAIN workers
         /\ \A w \in DOMAIN workers :
              /\ LeadersDisabled[w] \in WorkerRec
              /\ w \notin DefunctLeaders => LeadersDisabled[w] = workers[w]
              /\ LeadersDisabled[w].status = workers[w].status
              /\ LeadersDisabled[w].lstatus = "leader" =>
                   workers[w].lstatus = "leader"
BY DEF LeadersDisabled, DefunctLeaders, WorkersInv, WorkerRec, WorkerLStatus

LEMMA AnnounceStep ==
  ASSUME WorkersInv, NEW n \in Worker, AnnounceLeaderCandidacy(n)
  PROVE  WorkersInv'
<1> DEFINE ws == LeadersDisabled
           announced == IF MayAnnounce(n, ws) THEN {n} \cap DOMAIN ws ELSE {}
           W == DefunctLeaders \cup announced
<1> USE LeadersDisabledOK
<1>1. workers' = [w \in DOMAIN ws |->
                    IF w \in announced THEN [ws[w] EXCEPT !.lstatus = "candidate"]
                                       ELSE ws[w]]
      /\ NotifyWorkerHistory(W)
  BY DEF AnnounceLeaderCandidacy
<1> HIDE DEF ws
<1>2. DOMAIN workers' = DOMAIN workers /\ W \in SUBSET Worker /\ W \subseteq DOMAIN workers
  BY <1>1 DEF WorkersInv, ws
<1>3. \A w \in DOMAIN workers :
        /\ workers'[w] \in WorkerRec
        /\ workers'[w].lstatus = "leader" => workers[w].lstatus = "leader"
        /\ w \notin W => workers'[w] = workers[w]
  BY <1>1 DEF ws, WorkerRec, WorkerLStatus
<1>4. AtMostOneLeader'
  BY <1>2, <1>3 DEF WorkersInv, AtMostOneLeader
<1> QED
  BY <1>1, <1>2, <1>3, <1>4, WorkersChange

LEMMA CheckStep ==
  ASSUME WorkersInv, NEW n \in Worker, CheckLeaderCandidacy(n)
  PROVE  WorkersInv'
<1> DEFINE ws == LeadersDisabled
           W == DefunctLeaders \cup
                  (IF Elects(n, ws) THEN Deposed(n, ws) \cup {n}
                   ELSE IF ws[n].lstatus = "leader" THEN {} ELSE {n})
<1> USE LeadersDisabledOK
<1>1. /\ n \in DOMAIN workers
      /\ workers' = [w \in DOMAIN ws |->
                       [ws[w] EXCEPT !.lstatus = LStatusAfterCheck(n, ws, w)]]
      /\ NotifyWorkerHistory(W)
  BY DEF CheckLeaderCandidacy
<1> HIDE DEF ws
<1>2. DOMAIN ws = DOMAIN workers
  BY DEF ws
<1>3. DOMAIN workers' = DOMAIN workers /\ W \in SUBSET Worker /\ W \subseteq DOMAIN workers
  BY <1>1, <1>2 DEF WorkersInv, ws, Deposed
<1>4. \A w \in DOMAIN workers :
        /\ ws[w] \in WorkerRec
        /\ LStatusAfterCheck(n, ws, w) \in WorkerLStatus
  BY DEF ws, LStatusAfterCheck, WorkerRec, WorkerLStatus
<1>5. \A w \in DOMAIN workers :
        /\ workers'[w] \in WorkerRec
        /\ workers'[w].lstatus = LStatusAfterCheck(n, ws, w)
        /\ workers'[w].status = ws[w].status
  BY <1>1, <1>2, <1>4 DEF WorkerRec
<1>6. \A w \in DOMAIN workers \ W : LStatusAfterCheck(n, ws, w) = workers[w].lstatus
  BY <1>1, <1>2 DEF ws, LStatusAfterCheck, WorkerRec
<1>7. \A w \in DOMAIN workers \ W : WorkerEntry(workers'[w]) = WorkerEntry(workers[w])
  BY <1>5, <1>6 DEF WorkerEntry, ws
<1>8. AtMostOneLeader'
  <2>1. CASE Elects(n, ws)
    \* The others that said leader are gone or made normal.
    <3>1. \A w \in DOMAIN workers : w # n => LStatusAfterCheck(n, ws, w) # "leader"
      BY <2>1, <1>2 DEF LStatusAfterCheck, Elects, OtherLeaders, Leaders
    <3> QED
      BY <3>1, <1>3, <1>5 DEF AtMostOneLeader
  <2>2. CASE ~Elects(n, ws)
    \* Nobody becomes leader who was not.
    <3>1. \A w \in DOMAIN workers :
            LStatusAfterCheck(n, ws, w) = "leader" => workers[w].lstatus = "leader"
      BY <2>2, <1>2 DEF LStatusAfterCheck, ws
    <3> QED
      BY <3>1, <1>3, <1>5 DEF AtMostOneLeader, WorkersInv
  <2> QED
    BY <2>1, <2>2
<1> QED
  BY <1>3, <1>1, <1>5, <1>7, <1>8, WorkersChange

LEMMA CheckFailsStep ==
  ASSUME WorkersInv, NEW n \in Worker, CheckLeaderCandidacyFails(n)
  PROVE  WorkersInv'
<1> USE LeadersDisabledOK
<1>1. AtMostOneLeader'
  BY DEF CheckLeaderCandidacyFails, WorkersInv, AtMostOneLeader
<1> QED
  BY <1>1, WorkersChange DEF CheckLeaderCandidacyFails

LEMMA SetWorkerStatusStep ==
  ASSUME WorkersInv, NEW n \in Worker, NEW status \in WorkerStatus,
         SetWorkerStatus(n, status)
  PROVE  WorkersInv'
<1>1. DOMAIN workers' = DOMAIN workers
  BY DEF SetWorkerStatus
<1>2. \A w \in DOMAIN workers :
        /\ workers'[w] \in WorkerRec
        /\ workers'[w].lstatus = workers[w].lstatus
        /\ w # n => workers'[w] = workers[w]
  BY DEF SetWorkerStatus, WorkersInv, WorkerRec
<1>3. AtMostOneLeader'
  BY <1>1, <1>2 DEF WorkersInv, AtMostOneLeader
<1>4. \A w \in DOMAIN workers' \ ({n} \cap DOMAIN workers) : workers'[w] = workers[w]
  BY <1>1, <1>2
<1> QED
  BY <1>1, <1>2, <1>3, <1>4, WorkersChange DEF SetWorkerStatus

LEMMA SetWorkerLStatusStep ==
  ASSUME WorkersInv, NEW n \in Worker, SetWorkerLStatus(n, "normal")
  PROVE  WorkersInv'
<1>1. DOMAIN workers' = DOMAIN workers
  BY DEF SetWorkerLStatus
<1>2. \A w \in DOMAIN workers :
        /\ workers'[w] \in WorkerRec
        /\ workers'[w].lstatus = "leader" => workers[w].lstatus = "leader"
        /\ w # n => workers'[w] = workers[w]
  BY DEF SetWorkerLStatus, WorkersInv, WorkerRec, WorkerLStatus
<1>3. AtMostOneLeader'
  BY <1>1, <1>2 DEF WorkersInv, AtMostOneLeader
<1>4. \A w \in DOMAIN workers' \ ({n} \cap DOMAIN workers) : workers'[w] = workers[w]
  BY <1>1, <1>2
<1> QED
  BY <1>1, <1>2, <1>3, <1>4, WorkersChange DEF SetWorkerLStatus

LEMMA DeleteWorkerStep ==
  ASSUME WorkersInv, NEW n \in Worker, DeleteWorker(n)
  PROVE  WorkersInv'
BY DEF DeleteWorker, WorkersInv, AtMostOneLeader, WorkerEntry

LEMMA AgeWorkersStep ==
  ASSUME WorkersInv, workers' = AgeWorkers, UNCHANGED workers_history
  PROVE  WorkersInv'
<1>1. DOMAIN workers' = DOMAIN workers
  BY DEF AgeWorkers
<1>2. \A w \in DOMAIN workers :
        /\ workers'[w] \in WorkerRec
        /\ workers'[w].lstatus = workers[w].lstatus
        /\ workers'[w].status = workers[w].status
  BY OlderIsAge DEF AgeWorkers, WorkersInv, WorkerRec
<1> QED
  BY <1>1, <1>2 DEF WorkersInv, AtMostOneLeader, WorkerEntry

---------------------------------------------------------------------------
(* Likewise for the topology records, of which those that wait or run must *)
(* keep a worker.                                                          *)

LEMMA TopologiesChange ==
  ASSUME TopologiesInv,
         NEW T \in SUBSET Topology,
         T \subseteq DOMAIN topologies',
         DOMAIN topologies' \subseteq DOMAIN topologies \cup T,
         \A t \in DOMAIN topologies' : topologies'[t] \in TopologyRec,
         \A t \in DOMAIN topologies' \ T :
           TopologyEntry(topologies'[t]) = TopologyEntry(topologies[t]),
         NotifyTopologyHistory(T),
         ActiveHasWorker'
  PROVE  TopologiesInv'
BY DEF TopologiesInv, NotifyTopologyHistory, TopologyEntry

LEMMA UnassignWaitingTopologiesStep ==
  ASSUME TopologiesInv, UnassignWaitingTopologies
  PROVE  TopologiesInv'
<1> DEFINE T == {t \in DOMAIN topologies : WaitingTooLong(t) \/ OnDeadWorker(t)}
<1>1. /\ topologies' = [t \in DOMAIN topologies |->
           IF t \in T THEN [topologies[t] EXCEPT !.status = "unassigned",
                                                 !.worker = NoWorker]
                      ELSE topologies[t]]
      /\ NotifyTopologyHistory(T)
  BY DEF UnassignWaitingTopologies
<1>2. T \in SUBSET Topology /\ T \subseteq DOMAIN topologies
  BY DEF TopologiesInv
<1> HIDE DEF T
<1>3. DOMAIN topologies' = DOMAIN topologies
  BY <1>1
<1>4. \A t \in DOMAIN topologies :
        /\ topologies'[t] \in TopologyRec
        /\ t \notin T => topologies'[t] = topologies[t]
        /\ t \in T => topologies'[t].status = "unassigned"
  BY <1>1 DEF TopologiesInv, TopologyRec, TopologyStatus
<1>5. ActiveHasWorker'
  BY <1>3, <1>4 DEF ActiveHasWorker, TopologiesInv
<1> QED
  BY <1>1, <1>2, <1>3, <1>4, <1>5, TopologiesChange

\* A change of one registered topology.
LEMMA WithTopologyStep ==
  ASSUME TopologiesInv,
         NEW t \in DOMAIN topologies, NEW rec \in TopologyRec,
         rec.status \in {"waiting", "running"} => rec.worker # NoWorker,
         topologies' = WithTopology(t, rec),
         NotifyTopologyHistory({t})
  PROVE  TopologiesInv'
<1>1. /\ DOMAIN topologies' = DOMAIN topologies
      /\ \A u \in DOMAIN topologies :
           topologies'[u] = IF u = t THEN rec ELSE topologies[u]
  BY DEF WithTopology
<1>2. ActiveHasWorker'
  BY <1>1 DEF ActiveHasWorker, TopologiesInv
<1>3. {t} \in SUBSET Topology
  BY DEF TopologiesInv
<1> QED
  BY <1>1, <1>2, <1>3, TopologiesChange DEF TopologiesInv

LEMMA RegisterTopologyStep ==
  ASSUME TopologiesInv, NEW t \in Topology, RegisterTopology(t)
  PROVE  TopologiesInv'
<1>1. DOMAIN topologies' = DOMAIN topologies \cup {t}
  BY DEF RegisterTopology
<1>2. \A u \in DOMAIN topologies' : u # t =>
        u \in DOMAIN topologies /\ topologies'[u] = topologies[u]
  BY DEF RegisterTopology
<1>3. /\ topologies'[t] \in TopologyRec
      /\ topologies'[t].status \in {"waiting", "running"} =>
           topologies'[t].worker # NoWorker
  <2>1. CASE t \in DOMAIN topologies
    <3>1. topologies'[t] = [topologies[t] EXCEPT !.age = 0]
      BY <2>1 DEF RegisterTopology
    <3> QED
      BY <2>1, <3>1, AgeZero DEF TopologiesInv, ActiveHasWorker, TopologyRec
  <2>2. CASE t \notin DOMAIN topologies
    <3>1. topologies'[t] = [age |-> 0, status |-> "unassigned",
                            worker |-> NoWorker, enabled |-> FALSE]
      BY <2>2 DEF RegisterTopology
    <3> QED
      BY <3>1, AgeZero DEF TopologyRec, TopologyStatus
  <2> QED
    BY <2>1, <2>2
<1>4. ActiveHasWorker'
  BY <1>2, <1>3 DEF ActiveHasWorker, TopologiesInv
<1>5. \A u \in DOMAIN topologies' : topologies'[u] \in TopologyRec
  BY <1>2, <1>3 DEF TopologiesInv
<1> QED
  BY <1>1, <1>2, <1>4, <1>5, TopologiesChange DEF RegisterTopology

LEMMA AssignTopologyStep ==
  ASSUME TopologiesInv, NEW t \in Topology, NEW w \in Worker,
         AssignTopology(t, w)
  PROVE  TopologiesInv'
<1> DEFINE rec == [topologies[t] EXCEPT !.worker = w, !.status = "waiting",
                                        !.age = 0]
<1>1. CASE t \in DOMAIN topologies
  <2>1. rec \in TopologyRec /\ rec.worker # NoWorker
    BY <1>1, AgeZero, WorkersAreNumbers
    DEF TopologiesInv, TopologyRec, TopologyStatus
  <2>2. topologies' = WithTopology(t, rec) /\ NotifyTopologyHistory({t})
    BY <1>1 DEF AssignTopology
  <2> HIDE DEF rec
  <2> QED
    BY <1>1, <2>1, <2>2, WithTopologyStep
<1>2. CASE t \notin DOMAIN topologies
  <2>1. topologies' = [u \in DOMAIN topologies |-> topologies[u]]
        /\ NotifyTopologyHistory({})
    BY <1>2 DEF AssignTopology, WithTopology
  <2> QED
    BY <2>1, TopologiesChange DEF TopologiesInv, ActiveHasWorker
<1> QED
  BY <1>1, <1>2

LEMMA SetTopologyStatusStep ==
  ASSUME TopologiesInv, NEW t \in Topology, NEW w \in Worker \cup {NoWorker},
         NEW status \in TopologyStatus \ {"waiting"},
         w = NoWorker => status # "running",
         SetTopologyStatus(t, w, status)
  PROVE  TopologiesInv'
<1> DEFINE rec == [topologies[t] EXCEPT !.status = status, !.age = 0]
<1>1. CASE Accepted(t, w)
  <2>1. t \in DOMAIN topologies
    BY <1>1 DEF Accepted
  <2>2. rec \in TopologyRec
    BY <2>1, AgeZero DEF TopologiesInv, TopologyRec
  <2>3. rec.status \in {"waiting", "running"} => rec.worker # NoWorker
    BY <1>1, <2>1 DEF Accepted, TopologiesInv, TopologyRec
  <2>4. topologies' = WithTopology(t, rec) /\ NotifyTopologyHistory({t})
    BY <1>1 DEF SetTopologyStatus
  <2> HIDE DEF rec
  <2> QED
    BY <2>1, <2>2, <2>3, <2>4, WithTopologyStep
<1>2. CASE ~Accepted(t, w)
  <2>1. topologies' = topologies /\ NotifyTopologyHistory({})
    BY <1>2 DEF SetTopologyStatus
  <2> QED
    BY <2>1, TopologiesChange DEF TopologiesInv, ActiveHasWorker
<1> QED
  BY <1>1, <1>2

LEMMA SetEnabledStep ==
  ASSUME TopologiesInv, NEW t \in Topology, NEW enabled \in BOOLEAN,
         topologies' = WithTopology(t, [topologies[t] EXCEPT !.enabled = enabled]),
         NotifyTopologyHistory({t} \cap DOMAIN topologies)
  PROVE  TopologiesInv'
<1> DEFINE rec == [topologies[t] EXCEPT !.enabled = enabled]
<1>1. CASE t \in DOMAIN topologies
  <2>1. rec \in TopologyRec
    BY <1>1 DEF TopologiesInv, TopologyRec
  <2>2. rec.status \in {"waiting", "running"} => rec.worker # NoWorker
    BY <1>1 DEF TopologiesInv, ActiveHasWorker, TopologyRec
  <2>3. topologies' = WithTopology(t, rec) /\ NotifyTopologyHistory({t})
    BY <1>1
  <2> HIDE DEF rec
  <2> QED
    BY <1>1, <2>1, <2>2, <2>3, WithTopologyStep
<1>2. CASE t \notin DOMAIN topologies
  <2>1. topologies' = [u \in DOMAIN topologies |-> topologies[u]]
        /\ NotifyTopologyHistory({})
    BY <1>2 DEF WithTopology
  <2> QED
    BY <2>1, TopologiesChange DEF TopologiesInv, ActiveHasWorker
<1> QED
  BY <1>1, <1>2

LEMMA DeleteTopologyStep ==
  ASSUME TopologiesInv, NEW t \in Topology, DeleteTopology(t)
  PROVE  TopologiesInv'
BY DEF DeleteTopology, TopologiesInv, ActiveHasWorker, TopologyEntry

LEMMA AgeTopologiesStep ==
  ASSUME TopologiesInv, topologies' = AgeTopologies,
         UNCHANGED topologies_history
  PROVE  TopologiesInv'
<1>1. DOMAIN topologies' = DOMAIN topologies
  BY DEF AgeTopologies
<1>2. \A t \in DOMAIN topologies :
        /\ topologies'[t] \in TopologyRec
        /\ topologies'[t].status = topologies[t].status
        /\ topologies'[t].worker = topologies[t].worker
        /\ topologies'[t].enabled = topologies[t].enabled
  BY OlderIsAge DEF AgeTopologies, TopologiesInv, TopologyRec
<1> QED
  BY <1>1, <1>2 DEF TopologiesInv, ActiveHasWorker, TopologyEntry

---------------------------------------------------------------------------
(* The queue: messages keep their shape and have an addressee.             *)

LEMMA QueuedStep ==
  ASSUME MessagesInv, NEW w \in Worker, NEW m \in MessageRec,
         messages' = Queued(w, m)
  PROVE  MessagesInv'
BY WorkersAreNumbers
DEF Queued, MessagesInv, MessagesHaveAddressee, Addressee

LEMMA WithoutMessageOK ==
  ASSUME NEW q \in Seq(MessageRec), NEW i \in DOMAIN q
  PROVE  WithoutMessage(q, i) \in Seq(MessageRec)
<1>1. /\ DOMAIN q = 1 .. Len(q)
      /\ Len(q) - 1 \in Nat
      /\ \A j \in DOMAIN q : q[j] \in MessageRec
  OBVIOUS
<1>2. \A j \in 1 .. Len(q) - 1 : (IF j < i THEN j ELSE j + 1) \in DOMAIN q
  BY <1>1
<1> QED
  BY <1>1, <1>2 DEF WithoutMessage

LEMMA GetMessageStep ==
  ASSUME MessagesInv, NEW n \in Worker, GetMessage(n)
  PROVE  MessagesInv'
<1>1. PICK i \in Deliverable(n) :
        messages' = [messages EXCEPT ![n] = WithoutMessage(@, i)]
  BY DEF GetMessage
<1>2. messages[n] \in Seq(MessageRec) /\ i \in DOMAIN messages[n]
  BY DEF MessagesInv, Addressee, Deliverable
<1>3. WithoutMessage(messages[n], i) \in Seq(MessageRec)
  BY <1>2, WithoutMessageOK
<1> QED
  BY <1>1, <1>3, WorkersAreNumbers
  DEF MessagesInv, MessagesHaveAddressee, Addressee

LEMMA EmptyQueuesStep ==
  ASSUME MessagesInv, NEW n \in Worker, GetMessages(n) \/ GetNoMessage(n)
  PROVE  MessagesInv'
BY WorkersAreNumbers
DEF GetMessages, GetNoMessage, MessagesInv, MessagesHaveAddressee, Addressee

LEMMA AgeMessagesStep ==
  ASSUME MessagesInv, messages' = AgeMessages
  PROVE  MessagesInv'
<1>1. ASSUME NEW w \in Addressee PROVE messages'[w] \in Seq(MessageRec)
  <2> DEFINE q == messages[w]
  <2>1. /\ DOMAIN q = 1 .. Len(q)
        /\ Len(q) \in Nat
        /\ \A i \in DOMAIN q : q[i] \in MessageRec
    BY DEF MessagesInv
  <2>2. messages'[w] = [i \in DOMAIN q |-> [q[i] EXCEPT !.age = Older(@)]]
    BY DEF AgeMessages
  <2>3. \A i \in DOMAIN q : [q[i] EXCEPT !.age = Older(@)] \in MessageRec
    BY <2>1, OlderIsAge DEF MessageRec
  <2> QED
    BY <2>1, <2>2, <2>3
<1>2. messages' \in [Addressee -> Seq(MessageRec)]
  BY <1>1 DEF AgeMessages
<1>3. messages'[NoWorker] = << >>
  BY DEF AgeMessages, MessagesInv, MessagesHaveAddressee, Addressee
<1> QED
  BY <1>2, <1>3 DEF MessagesInv, MessagesHaveAddressee

---------------------------------------------------------------------------
(* Every step of the storage preserves the invariant.                      *)

LEMMA WorkerCallStep ==
  ASSUME StorageInv, WorkerCall
  PROVE  StorageInv'
<1> USE DEF StorageInv
<1> PICK n \in Worker :
      \/ RegisterWorker(n)
      \/ PingWorker(n)
      \/ AnnounceLeaderCandidacy(n)
      \/ CheckLeaderCandidacy(n)
      \/ CheckLeaderCandidacyFails(n)
      \/ \E status \in WorkerStatus : SetWorkerStatus(n, status)
      \/ SetWorkerLStatus(n, "normal")
      \/ DeleteWorker(n)
  BY DEF WorkerCall
<1>1. UNCHANGED <<topologies, messages, topologies_history>>
  BY DEF RegisterWorker, PingWorker, AnnounceLeaderCandidacy,
         CheckLeaderCandidacy, CheckLeaderCandidacyFails, SetWorkerStatus,
         SetWorkerLStatus, DeleteWorker
<1>2. TopologiesInv' /\ MessagesInv'
  BY <1>1, TopologiesFrame, MessagesFrame
<1>3. CASE PingWorker(n)
  BY <1>2, <1>3, PingedStep DEF PingWorker
<1>4. CASE \E status \in WorkerStatus : SetWorkerStatus(n, status)
  BY <1>2, <1>4, SetWorkerStatusStep
<1> QED
  BY <1>2, <1>3, <1>4, RegisterWorkerStep, AnnounceStep, CheckStep,
     CheckFailsStep, SetWorkerLStatusStep, DeleteWorkerStep

LEMMA MessageCallStep ==
  ASSUME StorageInv, MessageCall
  PROVE  StorageInv'
<1> USE DEF StorageInv
<1> PICK n \in Worker :
      \/ \E m \in Sends : SendMessageToWorker(n, m)
      \/ GetMessages(n)
      \/ GetMessage(n)
      \/ GetNoMessage(n)
  BY DEF MessageCall
<1>1. UNCHANGED <<topologies, workers_history, topologies_history>>
  BY DEF SendMessageToWorker, GetMessages, GetMessage, GetNoMessage
<1>2. TopologiesInv'
  BY <1>1, TopologiesFrame
<1>3. CASE \E m \in Sends : SendMessageToWorker(n, m)
  <2>1. UNCHANGED workers
    BY <1>3 DEF SendMessageToWorker
  <2>2. MessagesInv'
    BY <1>3, QueuedStep, SendsAreMessages DEF SendMessageToWorker
  <2> QED
    BY <1>1, <1>2, <2>1, <2>2, WorkersFrame
<1>4. CASE GetMessages(n) \/ GetMessage(n) \/ GetNoMessage(n)
  <2>1. WorkersInv'
    BY <1>1, <1>4, PingedStep DEF GetMessages, GetMessage, GetNoMessage
  <2>2. MessagesInv'
    BY <1>4, GetMessageStep, EmptyQueuesStep
  <2> QED
    BY <1>2, <2>1, <2>2
<1> QED
  BY <1>3, <1>4

LEMMA StopTopologyStep ==
  ASSUME StorageInv, NEW t \in Topology,
         NEW cmd \in {"stop_topology", "kill_topology"}, StopTopology(t, cmd)
  PROVE  StorageInv'
<1> USE DEF StorageInv
<1> DEFINE w == topologies[t].worker
           m == Message(cmd, {t}, WorkerTimeout)
<1>1. w \in Worker
  BY DEF StopTopology, TopologiesInv, TopologyRec, ActiveHasWorker
<1>2. m \in MessageRec
  BY AgeZero, TimeoutsAreOrdered
  DEF Message, MessageRec, LeaderMessages, Age
<1>3. messages' = Queued(w, m)
  BY DEF StopTopology
<1> HIDE DEF w, m
<1>4. MessagesInv'
  BY <1>1, <1>2, <1>3, QueuedStep
<1>5. TopologiesInv'
  BY SetEnabledStep DEF StopTopology, SetEnabled
<1>6. WorkersInv'
  BY WorkersFrame DEF StopTopology, SetEnabled
<1> QED
  BY <1>4, <1>5, <1>6

LEMMA TopologyCallStep ==
  ASSUME StorageInv, TopologyCall
  PROVE  StorageInv'
<1> USE DEF StorageInv
<1>1. PICK t \in Topology :
        \/ RegisterTopology(t)
        \/ EnableTopology(t)
        \/ DisableTopology(t)
        \/ DeleteTopology(t)
        \/ StopTopology(t, "stop_topology")
        \/ StopTopology(t, "kill_topology")
        \/ \E status \in {"unassigned", "error"} :
             SetTopologyStatus(t, NoWorker, status)
        \/ \E w \in Worker :
             \/ AssignTopology(t, w)
             \/ \E status \in {"unassigned", "running", "error"} :
                  SetTopologyStatus(t, w, status)
  BY DEF TopologyCall
<1>2. CASE StopTopology(t, "stop_topology") \/ StopTopology(t, "kill_topology")
  BY <1>2, StopTopologyStep
<1>3. CASE EnableTopology(t) \/ DisableTopology(t)
  BY <1>3, SetEnabledStep, WorkersFrame, MessagesFrame
  DEF EnableTopology, DisableTopology, SetEnabled
<1>4. CASE RegisterTopology(t)
  BY <1>4, RegisterTopologyStep, WorkersFrame, MessagesFrame
  DEF RegisterTopology
<1>5. CASE DeleteTopology(t)
  BY <1>5, DeleteTopologyStep, WorkersFrame, MessagesFrame
  DEF DeleteTopology
<1>6. ASSUME NEW w \in Worker, AssignTopology(t, w)
      PROVE  StorageInv'
  BY <1>6, AssignTopologyStep, WorkersFrame, MessagesFrame
  DEF AssignTopology
<1>7. ASSUME NEW w \in Worker \cup {NoWorker},
             NEW status \in {"unassigned", "running", "error"},
             w = NoWorker => status # "running",
             SetTopologyStatus(t, w, status)
      PROVE  StorageInv'
  <2>1. status \in TopologyStatus \ {"waiting"}
    BY DEF TopologyStatus
  <2> QED
    BY <1>7, <2>1, SetTopologyStatusStep, WorkersFrame, MessagesFrame
    DEF SetTopologyStatus
<1>8. CASE \E status \in {"unassigned", "error"} :
             SetTopologyStatus(t, NoWorker, status)
  BY <1>7, <1>8
<1>9. CASE \E w \in Worker, status \in {"unassigned", "running", "error"} :
             SetTopologyStatus(t, w, status)
  BY <1>7, <1>9, WorkersAreNumbers
<1> QED
  BY <1>1, <1>2, <1>3, <1>4, <1>5, <1>6, <1>8, <1>9

LEMMA ReadCallStep ==
  ASSUME StorageInv, ReadCall
  PROVE  StorageInv'
<1> USE DEF StorageInv
<1>1. MessagesInv'
  BY MessagesFrame
  DEF ReadCall, GetWorkerStatus, GetTopologyStatus, GetTopologiesForWorker
<1>2. CASE GetWorkerStatus
  BY <1>1, <1>2, DisableDefunctWorkersStep, TopologiesFrame
  DEF GetWorkerStatus
<1>3. CASE GetTopologyStatus
  BY <1>1, <1>3, DisableDefunctWorkersStep, UnassignWaitingTopologiesStep
  DEF GetTopologyStatus
<1>4. CASE GetTopologiesForWorker
  BY <1>1, <1>4, UnassignWaitingTopologiesStep, WorkersFrame
  DEF GetTopologiesForWorker
<1> QED
  BY <1>2, <1>3, <1>4 DEF ReadCall

LEMMA TickStep ==
  ASSUME StorageInv, Tick
  PROVE  StorageInv'
BY AgeWorkersStep, AgeTopologiesStep, AgeMessagesStep DEF StorageInv, Tick

LEMMA StorageStep == StorageInv /\ [StorageNext]_storage_vars => StorageInv'
<1>1. StorageInv /\ UNCHANGED storage_vars => StorageInv'
  BY WorkersFrame, TopologiesFrame, MessagesFrame
  DEF StorageInv, storage_vars
<1> QED
  BY <1>1, WorkerCallStep, MessageCallStep, TopologyCallStep, ReadCallStep,
     TickStep
  DEF StorageNext

---------------------------------------------------------------------------
(* Who is leader after a step was leader before it or has been elected,    *)
(* and no election succeeds against a leader whose pings are in time.      *)

LEMMA KeepsOffice ==
  ASSUME StorageInv, StorageNext,
         NEW v \in DOMAIN workers \cap DOMAIN workers',
         NEW w \in DOMAIN workers \cap DOMAIN workers',
         v # w, workers[w].lstatus = "leader", workers[w].age <= LeaderTimeout
  PROVE  workers'[v].lstatus # "leader"
<1>1. workers[v].lstatus # "leader"
  BY DEF StorageInv, WorkersInv, AtMostOneLeader
<1>2. CASE \E n \in Worker : CheckLeaderCandidacy(n)
  <2> PICK n \in Worker : CheckLeaderCandidacy(n)
    BY <1>2
  <2> DEFINE ws == LeadersDisabled
  <2>1. w \notin DefunctLeaders
    BY TimeoutsAreOrdered
    DEF DefunctLeaders, StorageInv, WorkersInv, WorkerRec, Age
  <2>2. ws[w].lstatus = "leader" /\ w \in DOMAIN ws
    BY <2>1, LeadersDisabledOK DEF StorageInv
  <2>3. ws[v].lstatus # "leader" /\ v \in DOMAIN ws
    BY <1>1, LeadersDisabledOK DEF StorageInv
  <2>4. workers'[v].lstatus = LStatusAfterCheck(n, ws, v)
    <3>1. workers'[v] = [ws[v] EXCEPT !.lstatus = LStatusAfterCheck(n, ws, v)]
      BY <2>3 DEF CheckLeaderCandidacy
    <3>2. ws[v] \in WorkerRec
      BY LeadersDisabledOK DEF StorageInv
    <3> QED
      BY <3>1, <3>2 DEF WorkerRec
  <2> HIDE DEF ws
  <2>5. ~Elects(n, ws)
    BY <2>2 DEF Elects, OtherLeaders, Leaders
  <2> QED
    BY <2>3, <2>4, <2>5 DEF LStatusAfterCheck
<1>3. CASE WorkerCall /\ ~\E n \in Worker : CheckLeaderCandidacy(n)
  <2> PICK n \in Worker :
        \/ RegisterWorker(n)
        \/ PingWorker(n)
        \/ AnnounceLeaderCandidacy(n)
        \/ CheckLeaderCandidacyFails(n)
        \/ \E status \in WorkerStatus : SetWorkerStatus(n, status)
        \/ SetWorkerLStatus(n, "normal")
        \/ DeleteWorker(n)
    BY <1>3 DEF WorkerCall
  <2> USE <1>1 DEF StorageInv, WorkersInv, WorkerRec
  <2>1. CASE RegisterWorker(n)
    BY <2>1 DEF RegisterWorker
  <2>2. CASE PingWorker(n)
    BY <2>2 DEF PingWorker, Pinged
  <2>3. CASE AnnounceLeaderCandidacy(n)
    <3>1. LeadersDisabled[v].lstatus # "leader" /\ v \in DOMAIN LeadersDisabled
          /\ LeadersDisabled[v] \in WorkerRec
      BY LeadersDisabledOK
    <3> QED
      BY <2>3, <3>1 DEF AnnounceLeaderCandidacy
  <2>4. CASE CheckLeaderCandidacyFails(n)
    BY <2>4, LeadersDisabledOK DEF CheckLeaderCandidacyFails
  <2>5. CASE \E status \in WorkerStatus : SetWorkerStatus(n, status)
    BY <2>5 DEF SetWorkerStatus
  <2>6. CASE SetWorkerLStatus(n, "normal")
    BY <2>6 DEF SetWorkerLStatus
  <2>7. CASE DeleteWorker(n)
    BY <2>7 DEF DeleteWorker
  <2> QED
    BY <2>1, <2>2, <2>3, <2>4, <2>5, <2>6, <2>7
<1>4. CASE MessageCall \/ TopologyCall
  <2>1. UNCHANGED workers \/ \E n \in Worker : workers' = Pinged(n)
    BY <1>4
    DEF MessageCall, SendMessageToWorker, GetMessages, GetMessage,
        GetNoMessage, TopologyCall, RegisterTopology, EnableTopology,
        DisableTopology, SetEnabled, DeleteTopology, StopTopology,
        SetTopologyStatus, AssignTopology
  <2> QED
    BY <1>1, <2>1 DEF Pinged, StorageInv, WorkersInv, WorkerRec
<1>5. CASE ReadCall
  BY <1>1, <1>5
  DEF ReadCall, GetWorkerStatus, GetTopologyStatus, GetTopologiesForWorker,
      DisableDefunctWorkers, StorageInv, WorkersInv, WorkerRec
<1>6. CASE Tick
  BY <1>1, <1>6 DEF Tick, AgeWorkers, StorageInv, WorkersInv, WorkerRec
<1> QED
  BY <1>2, <1>3, <1>4, <1>5, <1>6 DEF StorageNext

---------------------------------------------------------------------------
(* The order of messages.                                                  *)

\* The valid messages are collected one after the other.
LEMMA ValidInSteps ==
  ASSUME NEW q \in Seq(MessageRec)
  PROVE  \E g \in [Nat -> Seq(MessageRec)] :
           /\ g[0] = << >> /\ ValidIn(q) = g[Len(q)]
           /\ \A k \in 1..Len(q) :
                g[k] = IF Valid(q[k]) THEN Append(g[k - 1], q[k]) ELSE g[k - 1]
<1> DEFINE S == Seq(MessageRec)
           Next1(k, s) == IF k + 1 \in 1..Len(q) /\ Valid(q[k + 1]) THEN Append(s, q[k + 1]) ELSE s
           step == [p \in Nat \X S |-> Next1(p[1], p[2])]
           Val(v) == v = [k \in 0..Len(q) |->
                            IF k = 0 THEN << >>
                            ELSE IF Valid(q[k]) THEN Append(v[k - 1], q[k]) ELSE v[k - 1]]
           val == CHOOSE v : Val(v)
<1>1. step \in [Nat \X S -> S]
  <2> SUFFICES ASSUME NEW k \in Nat, NEW s \in S PROVE Next1(k, s) \in S
    OBVIOUS
  <2>1. CASE k + 1 \in 1..Len(q) /\ Valid(q[k + 1])
    <3>1. q[k + 1] \in MessageRec
      BY <2>1
    <3> QED
      BY <2>1, <3>1
  <2>2. CASE ~(k + 1 \in 1..Len(q) /\ Valid(q[k + 1]))
    BY <2>2
  <2> QED
    BY <2>1, <2>2
<1>2. << >> \in S
  OBVIOUS
<1>3. PICK g \in [Nat -> S] : TakesSteps(g, << >>, step)
  <2> HIDE DEF S, step
  <2> QED  BY <1>1, <1>2, RecursionExists
<1>4. \A k \in Nat : g[k + 1] = Next1(k, g[k])
  <2> HIDE DEF Next1, S
  <2> QED  BY <1>3 DEF TakesSteps
<1>5. g[0] = << >>
  BY <1>3 DEF TakesSteps
<1> DEFINE With(v, k) == IF Valid(q[k]) THEN Append(v[k - 1], q[k]) ELSE v[k - 1]
<1>6. ASSUME NEW k \in 1..Len(q) PROVE g[k] = With(g, k)
  <2> DEFINE n == k - 1
  <2>1. n \in Nat /\ n + 1 = k
    OBVIOUS
  <2> HIDE DEF n
  <2>2. g[n + 1] = Next1(n, g[n])
    <3> HIDE DEF Next1
    <3> QED  BY <1>4, <2>1
  <2>3. g[k] = IF Valid(q[k]) THEN Append(g[n], q[k]) ELSE g[n]
    BY <2>1, <2>2
  <2> QED
    BY <2>3 DEF n
<1> HIDE DEF Next1
<1> DEFINE h == [k \in 0..Len(q) |-> g[k]]
<1>7. Val(h)
  <2> SUFFICES ASSUME NEW k \in 0..Len(q)
               PROVE  h[k] = IF k = 0 THEN << >> ELSE With(h, k)
    OBVIOUS
  <2>1. CASE k = 0
    BY <1>5, <2>1
  <2>2. CASE k # 0
    <3>1. k \in 1..Len(q) /\ k - 1 \in 0..Len(q)
      BY <2>2
    <3>2. h[k] = g[k] /\ h[k - 1] = g[k - 1]
      BY <3>1
    <3> HIDE DEF h
    <3>3. g[k] = With(g, k)
      BY <1>6, <3>1
    <3> QED
      BY <2>2, <3>2, <3>3
  <2> QED
    BY <2>1, <2>2
<1>8. Val(val)
  <2>1. \E v : Val(v)
    <3> HIDE DEF Val, h
    <3> QED  BY <1>7
  <2> HIDE DEF Val
  <2> QED  BY <2>1
<1>9. ValidIn(q) = val[Len(q)]
  BY DEF ValidIn
<1> HIDE DEF val, h
<1>10. val[0] = << >>
  BY <1>8
<1>11. ASSUME NEW k \in 1..Len(q) PROVE val[k] = With(val, k)
  <2>1. k \in 0..Len(q) /\ k # 0
    OBVIOUS
  <2> HIDE DEF With
  <2>2. val = [j \in 0..Len(q) |-> IF j = 0 THEN << >> ELSE With(val, j)]
    BY <1>8, Zenon DEF With
  <2> QED
    BY <2>1, <2>2
<1> DEFINE N == {n \in Nat : n <= Len(q) => val[n] = g[n]}
<1>12. 0 \in N
  BY <1>5, <1>10
<1>13. ASSUME NEW n \in Nat, n \in N PROVE n + 1 \in N
  <2> SUFFICES ASSUME n + 1 <= Len(q) PROVE val[n + 1] = g[n + 1]
    OBVIOUS
  <2> DEFINE k == n + 1
  <2>1. k \in 1..Len(q) /\ k - 1 = n
    OBVIOUS
  <2> HIDE DEF k
  <2>2. val[k] = With(val, k) /\ g[k] = With(g, k)
    <3> HIDE DEF With
    <3> QED  BY <1>6, <1>11, <2>1
  <2>3. val[n] = g[n]
    BY <1>13
  <2>4. val[k] = g[k]
    BY <2>1, <2>2, <2>3
  <2> QED
    BY <2>4 DEF k
<1>14. Nat \subseteq N
  <2> HIDE DEF N
  <2> QED  BY <1>12, <1>13, InductionSet
<1>15. ValidIn(q) = g[Len(q)]
  BY <1>9, <1>14
<1> QED
  BY <1>5, <1>6, <1>15

LEMMA TailOfAppend ==
  ASSUME NEW s \in Seq(MessageRec), NEW m \in MessageRec
  PROVE  /\ Append(s, m) # << >>
         /\ s = << >> => Tail(Append(s, m)) = << >>
         /\ s # << >> => Tail(Append(s, m)) = Append(Tail(s), m)
<1>1. Len(Append(s, m)) = Len(s) + 1 /\ Len(s) \in Nat
  OBVIOUS
<1>2. Append(s, m) # << >>
  BY <1>1
<1> QED
  BY <1>2, HeadTailAppend

\* Without the first valid message the others are left.
LEMMA WithoutFirst ==
  ASSUME NEW q \in Seq(MessageRec), NEW i \in 1..Len(q), Valid(q[i]),
         \A j \in 1..Len(q) : Valid(q[j]) => i <= j
  PROVE  ValidIn(WithoutMessage(q, i)) = Tail(ValidIn(q))
<1> DEFINE r == WithoutMessage(q, i)  S == Seq(MessageRec)
<1>1. r \in S /\ Len(r) = Len(q) - 1
  <2>1. \A j \in 1..(Len(q) - 1) : q[IF j < i THEN j ELSE j + 1] \in MessageRec
    OBVIOUS
  <2> QED
    BY <2>1 DEF WithoutMessage
<1>2. \A j \in 1..Len(q) : j > i => r[j - 1] = q[j]
  BY DEF WithoutMessage
<1>3. \A j \in 1..Len(q) : j < i => r[j] = q[j]
  BY DEF WithoutMessage
<1> HIDE DEF r
<1>0. Len(q) \in Nat /\ i \in Nat /\ 1 <= i /\ i <= Len(q)
  OBVIOUS
<1>4. PICK g \in [Nat -> S] :
         /\ g[0] = << >> /\ ValidIn(q) = g[Len(q)]
         /\ \A k \in 1..Len(q) : g[k] = IF Valid(q[k]) THEN Append(g[k - 1], q[k]) ELSE g[k - 1]
  BY ValidInSteps
<1>5. PICK h \in [Nat -> S] :
         /\ h[0] = << >> /\ ValidIn(r) = h[Len(r)]
         /\ \A k \in 1..Len(r) : h[k] = IF Valid(r[k]) THEN Append(h[k - 1], r[k]) ELSE h[k - 1]
  BY <1>1, ValidInSteps
<1> DEFINE N == {n \in Nat : n < i => g[n] = << >> /\ h[n] = << >>}
<1>6. 0 \in N
  BY <1>4, <1>5
<1>7. ASSUME NEW n \in Nat, n \in N PROVE n + 1 \in N
  <2> SUFFICES ASSUME n + 1 < i PROVE g[n + 1] = << >> /\ h[n + 1] = << >>
    OBVIOUS
  <2> DEFINE k == n + 1
  <2>1. k \in 1..Len(q) /\ k \in 1..Len(r) /\ k - 1 = n /\ k < i /\ n < i
    <3>1. k \in Nat /\ 1 <= k /\ k - 1 = n /\ k < i /\ n < i
      BY <1>0
    <3>2. k <= Len(q) - 1
      BY <1>0, <3>1
    <3> HIDE DEF k
    <3>3. k \in 1..Len(q)
      BY <1>0, <3>1, <3>2
    <3>4. k \in 1..Len(r)
      BY <1>0, <1>1, <3>1, <3>2
    <3> QED
      BY <3>1, <3>3, <3>4
  <2> HIDE DEF k
  <2>2. ~Valid(q[k]) /\ r[k] = q[k]
    BY <1>3, <2>1
  <2>3. g[k] = g[n] /\ h[k] = h[n]
    BY <1>4, <1>5, <2>1, <2>2
  <2>4. g[n] = << >> /\ h[n] = << >>
    BY <1>7
  <2> QED
    BY <2>3, <2>4 DEF k
<1>8. Nat \subseteq N
  <2> HIDE DEF N
  <2> QED  BY <1>6, <1>7, InductionSet
<1> DEFINE M == {n \in Nat : i <= n /\ n <= Len(q) => g[n] # << >> /\ h[n - 1] = Tail(g[n])}
<1>9. 0 \in M
  BY <1>0
<1>10. ASSUME NEW n \in Nat, n \in M PROVE n + 1 \in M
  <2> DEFINE k == n + 1
  <2> SUFFICES ASSUME i <= k, k <= Len(q) PROVE g[k] # << >> /\ h[k - 1] = Tail(g[k])
    OBVIOUS
  <2>1. k \in 1..Len(q) /\ k - 1 = n
    OBVIOUS
  <2> HIDE DEF k
  <2>2. g[k] = IF Valid(q[k]) THEN Append(g[n], q[k]) ELSE g[n]
    BY <1>4, <2>1
  <2>3. q[k] \in MessageRec /\ g[n] \in S
    <3>1. q[k] \in MessageRec
      BY <2>1
    <3> QED
      BY <1>4, <3>1
  <2>4. CASE k = i
    <3>1. g[n] = << >> /\ h[n] = << >>
      <4>1. n < i
        BY <2>1, <2>4
      <4> QED
        BY <1>8, <4>1
    <3>2. g[k] = Append(<< >>, q[k])
      BY <2>2, <2>4, <3>1
    <3>3. g[k] # << >> /\ Tail(g[k]) = << >>
      BY <2>3, <3>1, <3>2, TailOfAppend
    <3> QED
      BY <2>1, <3>1, <3>3
  <2>5. CASE k # i
    <3>1. g[n] # << >> /\ h[n - 1] = Tail(g[n])
      <4>1. i <= n /\ n <= Len(q)
        BY <1>0, <2>1, <2>5
      <4> QED
        BY <1>10, <4>1
    <3>2. n \in 1..Len(r) /\ r[n] = q[k]
      BY <1>1, <1>2, <2>1, <2>5
    <3>3. h[n] = IF Valid(q[k]) THEN Append(Tail(g[n]), q[k]) ELSE Tail(g[n])
      BY <1>5, <3>1, <3>2
    <3>4. /\ Append(g[n], q[k]) # << >>
          /\ Tail(Append(g[n], q[k])) = Append(Tail(g[n]), q[k])
      BY <2>3, <3>1, TailOfAppend
    <3> QED
      BY <2>1, <2>2, <3>1, <3>3, <3>4
  <2> QED
    BY <2>4, <2>5
<1>11. Nat \subseteq M
  <2> HIDE DEF M
  <2> QED  BY <1>9, <1>10, InductionSet
<1>12. h[Len(q) - 1] = Tail(g[Len(q)])
  <2> DEFINE n == Len(q)
  <2>1. n \in Nat /\ i <= n /\ n <= Len(q)
    BY <1>0
  <2> HIDE DEF n
  <2>2. h[n - 1] = Tail(g[n])
    BY <1>11, <2>1
  <2> QED
    BY <2>2 DEF n
<1> QED
  BY <1>1, <1>4, <1>5, <1>12 DEF r

\* getMessage takes the first of the valid messages.
LEMMA TakesFirst ==
  ASSUME MessagesInv
  PROVE  \A n \in Worker : GetMessage(n) => ValidMessagesFor(n)' = Tail(ValidMessagesFor(n))
<1> SUFFICES ASSUME NEW n \in Worker, GetMessage(n)
             PROVE  ValidMessagesFor(n)' = Tail(ValidMessagesFor(n))
  OBVIOUS
<1>1. PICK i \in Deliverable(n) :
        IsNextMessage(n, i) /\ messages' = [messages EXCEPT ![n] = WithoutMessage(@, i)]
  BY DEF GetMessage
<1>2. messages[n] \in Seq(MessageRec) /\ n \in DOMAIN messages
  BY DEF MessagesInv, Addressee
<1>3. i \in 1..Len(messages[n]) /\ Valid(messages[n][i])
  BY <1>2 DEF Deliverable
<1>4. \A j \in 1..Len(messages[n]) : Valid(messages[n][j]) => i <= j
  BY <1>1, <1>2 DEF Deliverable, IsNextMessage
<1>5. ValidIn(WithoutMessage(messages[n], i)) = Tail(ValidIn(messages[n]))
  BY <1>2, <1>3, <1>4, WithoutFirst
<1>6. messages'[n] = WithoutMessage(messages[n], i)
  BY <1>1, <1>2
<1> QED
  BY <1>5, <1>6 DEF ValidMessagesFor

---------------------------------------------------------------------------
(* Theorems.                                                               *)

\* The invariant of the storage under any sequence of calls.
THEOREM StorageInvariant == StorageSpec => []StorageInv
<1>1. StorageInit => StorageInv
  BY InitInv
<1> QED
  BY <1>1, StorageStep, PTL DEF StorageSpec

\* Records and messages keep their types.
THEOREM StorageTypes == StorageSpec => []TypeOK
BY StorageInvariant, StorageInvImplies, PTL

\* There is never more than one leader in the storage.
THEOREM OneLeader == StorageSpec => []AtMostOneLeader
BY StorageInvariant, StorageInvImplies, PTL

\* The last entry of a history is the current record.
THEOREM HistoriesAreCurrent == StorageSpec => []HistoryIsCurrent
BY StorageInvariant, StorageInvImplies, PTL

\* Topologies that wait or run have a worker.
THEOREM ActiveTopologiesHaveWorkers == StorageSpec => []ActiveHasWorker
BY StorageInvariant, StorageInvImplies, PTL

\* No message is queued for null.
THEOREM NoMessageForNobody == StorageSpec => []MessagesHaveAddressee
BY StorageInvariant, StorageInvImplies, PTL

\* Nobody takes the leadership from a worker that pings in time.
THEOREM LeadersArePeacefullyReplaced == StorageSpec => LiveLeaderKeepsOffice
<1> DEFINE Step ==
      \A v, w \in DOMAIN workers \cap DOMAIN workers' :
        /\ v # w
        /\ workers[w].lstatus = "leader"
        /\ workers[w].age <= LeaderTimeout
        => workers'[v].lstatus # "leader"
<1>1. StorageInv /\ [StorageNext]_storage_vars => [Step]_storage_vars
  BY KeepsOffice
<1>2. LiveLeaderKeepsOffice <=> [][Step]_storage_vars
  BY DEF LiveLeaderKeepsOffice
<1> HIDE DEF Step
<1> QED
  BY <1>1, <1>2, StorageInvariant, PTL DEF StorageSpec

\* A worker that asks for a message gets the oldest one that is still valid, whatever
\* is sent to it and to others, expires or is thrown away, for any number of messages.
THEOREM MessagesKeepTheirOrder == StorageSpec => MessagesInOrder
<1> DEFINE Step == \A n \in Worker :
             GetMessage(n) => ValidMessagesFor(n)' = Tail(ValidMessagesFor(n))
<1>1. StorageInv /\ [StorageNext]_storage_vars => [Step]_storage_vars
  BY TakesFirst DEF StorageInv
<1>2. MessagesInOrder <=> [][Step]_storage_vars
  BY DEF MessagesInOrder
<1> HIDE DEF Step
<1> QED
  BY <1>1, <1>2, StorageInvariant, PTL DEF StorageSpec
=============================================================================
