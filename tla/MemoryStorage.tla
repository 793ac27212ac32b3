--------------------------- MODULE MemoryStorage ---------------------------
(***************************************************************************)
(* The coordination storage kept in memory (memory_storage.ts): worker     *)
(* records, topology records, the message queue and the two histories.     *)
(* Every method of the class runs to completion without a callback, so     *)
(* each is one action.  Date.now() minus a time stamp is an age, which     *)
(* Tick advances; ages above MaxAge are indistinguishable, because the     *)
(* code only compares them with shorter intervals.  The one message queue  *)
(* is kept as a queue for each addressee, which no method can tell from    *)
(* it.  Configurations, weights, pids and error texts are left out:        *)
(* nothing here reads them.                                                *)
(***************************************************************************)
EXTENDS Naturals, Sequences, FiniteSets

CONSTANTS
  Worker,          \* names of workers, ordered as the code orders strings
  NoWorker,        \* null in the field worker of a topology
  Topology,        \* uuids of topologies
  LeaderTimeout,   \* 10 seconds: a leader that did not ping loses its office
  WorkerTimeout,   \* 30 seconds: a worker that did not ping is dead,
                   \*   a topology that waits longer is unassigned
  MaxAge,          \* ages saturate here
  MaxMessages,     \* bound on the messages queued for one worker
  Sends            \* messages that clients send, as Message builds them

ASSUME WorkersAreNumbers == Worker \subseteq Nat /\ NoWorker \notin Worker
ASSUME TimeoutsAreOrdered ==
  /\ LeaderTimeout \in Nat /\ WorkerTimeout \in Nat /\ MaxAge \in Nat
  /\ LeaderTimeout < WorkerTimeout /\ WorkerTimeout < MaxAge
ASSUME QueueBound == MaxMessages \in Nat

VARIABLES
  workers,             \* name -> [age, status, lstatus], for the registered
  topologies,          \* uuid -> [age, status, worker, enabled], likewise
  messages,            \* name -> what the queue holds for it, oldest first
  workers_history,     \* name -> the last entry its history holds
  topologies_history   \* uuid -> the last entry its history holds

storage_vars ==
  <<workers, topologies, messages, workers_history, topologies_history>>

WorkerStatus == {"alive", "closing", "dead", "unloaded", "disabled"}
WorkerLStatus == {"leader", "candidate", "normal"}
TopologyStatus == {"unassigned", "waiting", "running", "error"}
LeaderMessages ==
  {"start_topology", "start_topologies", "stop_topology", "stop_topologies",
   "kill_topology", "set_enabled", "set_disabled", "shutdown", "rebalance"}

Age == 0 .. MaxAge
WorkerRec == [age : Age, status : WorkerStatus, lstatus : WorkerLStatus]
TopologyRec == [age : Age, status : TopologyStatus,
                worker : Worker \cup {NoWorker}, enabled : BOOLEAN]
MessageRec == [cmd : LeaderMessages, content : SUBSET Topology,
               age : Age, valid : Age]
Addressee == Worker \cup {NoWorker}

ASSUME SendsAreMessages == \A m \in Sends : m \in MessageRec /\ m.age = 0

\* Messages expire `valid` after they were sent.
Valid(m) == m.age < m.valid
Older(age) == IF age < MaxAge THEN age + 1 ELSE MaxAge

Nothing == [x \in {} |-> x]

StorageInit ==
  /\ workers = Nothing
  /\ topologies = Nothing
  /\ messages = [w \in Addressee |-> << >>]
  /\ workers_history = Nothing
  /\ topologies_history = Nothing

\* The entries of the two histories.
WorkerEntry(x) == [status |-> x.status, lstatus |-> x.lstatus]
TopologyEntry(x) ==
  [status |-> x.status, worker |-> x.worker, enabled |-> x.enabled]

\* notifyWorkerHistory for each name of W, after the change.
NotifyWorkerHistory(W) ==
  workers_history' = [w \in DOMAIN workers_history \cup W |->
    IF w \in W THEN WorkerEntry(workers'[w]) ELSE workers_history[w]]

\* notifyTopologyHistory for each uuid of T, after the change.
NotifyTopologyHistory(T) ==
  topologies_history' = [t \in DOMAIN topologies_history \cup T |->
    IF t \in T THEN TopologyEntry(topologies'[t]) ELSE topologies_history[t]]

---------------------------------------------------------------------------
(* The checks of time that the storage makes inside its reads.             *)

DefunctWorkers ==
  {w \in DOMAIN workers : /\ workers[w].status = "alive"
                          /\ workers[w].age > WorkerTimeout}

\* Fault: the history is not told (breaks HistoryIsCurrent).
SilentlyDisableDefunctWorkers ==
  /\ workers' = [w \in DOMAIN workers |->
       IF w \in DefunctWorkers THEN [workers[w] EXCEPT !.status = "dead"]
                               ELSE workers[w]]
  /\ UNCHANGED workers_history

DisableDefunctWorkers ==
  /\ workers' = [w \in DOMAIN workers |->
       IF w \in DefunctWorkers THEN [workers[w] EXCEPT !.status = "dead"]
                               ELSE workers[w]]
  /\ NotifyWorkerHistory(DefunctWorkers)

\* Topologies that wait for too long, and those of dead workers.  The worker
\* of a topology may have no record: worker_map then holds undefined.
WaitingTooLong(t) ==
  topologies[t].status = "waiting" /\ topologies[t].age > WorkerTimeout
OnDeadWorker(t) ==
  /\ topologies[t].worker \in DOMAIN workers
  /\ workers[topologies[t].worker].status = "dead"

UnassignWaitingTopologies ==
  LET T == {t \in DOMAIN topologies : WaitingTooLong(t) \/ OnDeadWorker(t)}
  IN  /\ topologies' = [t \in DOMAIN topologies |->
           IF t \in T THEN [topologies[t] EXCEPT !.status = "unassigned",
                                                 !.worker = NoWorker]
                      ELSE topologies[t]]
      /\ NotifyTopologyHistory(T)

DefunctLeaders ==
  {w \in DOMAIN workers : /\ workers[w].lstatus \in {"leader", "candidate"}
                          /\ workers[w].age > LeaderTimeout}

\* The worker records after disableDefunctLeaders.
LeadersDisabled ==
  [w \in DOMAIN workers |->
     IF w \in DefunctLeaders THEN [workers[w] EXCEPT !.lstatus = "normal"]
                             ELSE workers[w]]

\* The worker records after pingWorker.
Pinged(n) ==
  [w \in DOMAIN workers |->
     IF w = n THEN [workers[w] EXCEPT !.age = 0] ELSE workers[w]]

---------------------------------------------------------------------------
(* Reads.  Their results are the operators that the caller evaluates in    *)
(* the state after the call.                                               *)

GetWorkerStatus ==
  /\ DisableDefunctWorkers
  /\ UNCHANGED <<topologies, messages, topologies_history>>

GetTopologyStatus ==
  /\ UnassignWaitingTopologies
  /\ DisableDefunctWorkers
  /\ UNCHANGED messages

GetTopologiesForWorker ==
  /\ UnassignWaitingTopologies
  /\ UNCHANGED <<workers, messages, workers_history>>

TopologiesOf(w) == {t \in DOMAIN topologies : topologies[t].worker = w}

---------------------------------------------------------------------------
(* Workers and leadership.                                                 *)

RegisterWorker(n) ==
  /\ workers' = [w \in DOMAIN workers \cup {n} |->
       IF w = n THEN [age |-> 0, status |-> "alive", lstatus |-> "normal"]
                ELSE workers[w]]
  /\ NotifyWorkerHistory({n})
  /\ UNCHANGED <<topologies, messages, topologies_history>>

PingWorker(n) ==
  /\ workers' = Pinged(n)
  /\ UNCHANGED <<topologies, messages, workers_history, topologies_history>>

\* ws stands for the worker records after disableDefunctLeaders.
Leaders(ws) == {w \in DOMAIN ws : ws[w].lstatus = "leader"}
Candidates(ws) == {w \in DOMAIN ws : ws[w].lstatus = "candidate"}

\* Fault: the leaders in office are not looked for (breaks
\* LiveLeaderKeepsOffice).
NoLeaders(n, ws) == {}

OtherLeaders(n, ws) == Leaders(ws) \ {n}

\* A worker may not announce itself when a leader exists, nor when a
\* candidate does whose name comes before its own (or is its own).
MayAnnounce(n, ws) ==
  /\ OtherLeaders(n, ws) = {}
  /\ \A w \in Candidates(ws) : w > n

AnnounceLeaderCandidacy(n) ==
  LET ws == LeadersDisabled
      announced == IF MayAnnounce(n, ws) THEN {n} \cap DOMAIN ws ELSE {}
  IN  /\ workers' = [w \in DOMAIN ws |->
           IF w \in announced THEN [ws[w] EXCEPT !.lstatus = "candidate"]
                              ELSE ws[w]]
      /\ NotifyWorkerHistory(DefunctLeaders \cup announced)
      /\ UNCHANGED <<topologies, messages, topologies_history>>

\* The candidate n becomes leader: the others fall back to normal, except
\* for the other candidates.
Elects(n, ws) == OtherLeaders(n, ws) = {} /\ ws[n].lstatus = "candidate"
Deposed(n, ws) == DOMAIN ws \ (Candidates(ws) \cup {n})

\* Fault: a candidate takes office whatever the others are (breaks
\* AtMostOneLeader).
LStatusAfterHastyCheck(n, ws, w) ==
  CASE w = n /\ ws[n].lstatus = "candidate" -> "leader"
    [] w = n /\ ws[n].lstatus = "normal" -> "normal"
    [] OTHER -> ws[w].lstatus

\* lstatus of w once checkLeaderCandidacy(n) has run on the records ws.
LStatusAfterCheck(n, ws, w) ==
  CASE Elects(n, ws) /\ w = n -> "leader"
    [] Elects(n, ws) /\ w \in Deposed(n, ws) -> "normal"
    [] ~Elects(n, ws) /\ w = n /\ ws[n].lstatus # "leader" -> "normal"
    [] OTHER -> ws[w].lstatus

\* checkLeaderCandidacy of a worker that has a record.
CheckLeaderCandidacy(n) ==
  LET ws == LeadersDisabled
  IN  /\ n \in DOMAIN ws
      /\ workers' = [w \in DOMAIN ws |->
           [ws[w] EXCEPT !.lstatus = LStatusAfterCheck(n, ws, w)]]
      /\ NotifyWorkerHistory(
           DefunctLeaders \cup
             (IF Elects(n, ws) THEN Deposed(n, ws) \cup {n}
              ELSE IF ws[n].lstatus = "leader" THEN {} ELSE {n}))
      /\ UNCHANGED <<topologies, messages, topologies_history>>

\* checkLeaderCandidacy of a worker that has none: an error is returned, but
\* defunct leaders have been disabled.
CheckLeaderCandidacyFails(n) ==
  /\ n \notin DOMAIN workers
  /\ workers' = LeadersDisabled
  /\ NotifyWorkerHistory(DefunctLeaders)
  /\ UNCHANGED <<topologies, messages, topologies_history>>

SetWorkerStatus(n, status) ==
  /\ workers' = [w \in DOMAIN workers |->
       IF w = n THEN [workers[w] EXCEPT !.status = status] ELSE workers[w]]
  /\ NotifyWorkerHistory({n} \cap DOMAIN workers)
  /\ UNCHANGED <<topologies, messages, topologies_history>>

SetWorkerLStatus(n, lstatus) ==
  /\ workers' = [w \in DOMAIN workers |->
       IF w = n THEN [workers[w] EXCEPT !.lstatus = lstatus] ELSE workers[w]]
  /\ NotifyWorkerHistory({n} \cap DOMAIN workers)
  /\ UNCHANGED <<topologies, messages, topologies_history>>

\* Only an unloaded worker can be deleted; its history stays.
DeleteWorker(n) ==
  /\ n \in DOMAIN workers
  /\ workers[n].status = "unloaded"
  /\ workers' = [w \in DOMAIN workers \ {n} |-> workers[w]]
  /\ UNCHANGED <<topologies, messages, workers_history, topologies_history>>

---------------------------------------------------------------------------
(* Messages.                                                               *)

Message(cmd, content, valid) ==
  [cmd |-> cmd, content |-> content, age |-> 0, valid |-> valid]

Queued(w, m) ==
  [messages EXCEPT ![w] = Append(messages[w], m)]

SendMessageToWorker(w, m) ==
  /\ Len(messages[w]) < MaxMessages
  /\ messages' = Queued(w, m)
  /\ UNCHANGED <<workers, topologies, workers_history, topologies_history>>

\* getMessages drops every message of the worker and returns the valid ones.
GetMessages(n) ==
  /\ workers' = Pinged(n)
  /\ messages' = [messages EXCEPT ![n] = << >>]
  /\ UNCHANGED <<topologies, workers_history, topologies_history>>

\* Positions of the messages that getMessage may return to n.
Deliverable(n) == {i \in DOMAIN messages[n] : Valid(messages[n][i])}

\* Fault: the newest message first (breaks MessagesInOrder).
IsLastMessage(n, i) == \A j \in Deliverable(n) : i >= j

\* Whether i is the position of the message that findIndex finds for n.
IsNextMessage(n, i) == \A j \in Deliverable(n) : i <= j

WithoutMessage(q, i) ==
  [j \in 1 .. Len(q) - 1 |-> q[IF j < i THEN j ELSE j + 1]]

\* getMessage removes the first message it can deliver.
GetMessage(n) ==
  /\ \E i \in Deliverable(n) :
       /\ IsNextMessage(n, i)
       /\ messages' = [messages EXCEPT ![n] = WithoutMessage(@, i)]
  /\ workers' = Pinged(n)
  /\ UNCHANGED <<topologies, workers_history, topologies_history>>

\* getMessage without a message for n empties the queue, for everybody.
GetNoMessage(n) ==
  /\ Deliverable(n) = {}
  /\ workers' = Pinged(n)
  /\ messages' = [w \in Addressee |-> << >>]
  /\ UNCHANGED <<topologies, workers_history, topologies_history>>

---------------------------------------------------------------------------
(* Topologies.                                                             *)

RegisterTopology(t) ==
  /\ topologies' = [u \in DOMAIN topologies \cup {t} |->
       IF u # t THEN topologies[u]
       ELSE IF t \in DOMAIN topologies THEN [topologies[t] EXCEPT !.age = 0]
       ELSE [age |-> 0, status |-> "unassigned",
             worker |-> NoWorker, enabled |-> FALSE]]
  /\ NotifyTopologyHistory({t})
  /\ UNCHANGED <<workers, messages, workers_history>>

\* The records of the topologies, with rec in the place of t.
WithTopology(t, rec) ==
  [u \in DOMAIN topologies |-> IF u = t THEN rec ELSE topologies[u]]

\* Fault: the two arguments change places (breaks TypeOK).
AssignWorkerToTopology(t, w) ==
  /\ topologies' = WithTopology(t,
       [topologies[t] EXCEPT !.worker = t, !.status = "waiting", !.age = 0])
  /\ NotifyTopologyHistory({t} \cap DOMAIN topologies)
  /\ UNCHANGED <<workers, messages, workers_history>>

AssignTopology(t, w) ==
  /\ topologies' = WithTopology(t,
       [topologies[t] EXCEPT !.worker = w, !.status = "waiting", !.age = 0])
  /\ NotifyTopologyHistory({t} \cap DOMAIN topologies)
  /\ UNCHANGED <<workers, messages, workers_history>>

\* Fault: anybody may report (breaks ActiveHasWorker).
AcceptedFromAnybody(t, w) == t \in DOMAIN topologies

\* A status is accepted from nobody in particular (null), or from the worker
\* that the topology is assigned to.
Accepted(t, w) ==
  t \in DOMAIN topologies /\ (w = NoWorker \/ w = topologies[t].worker)

SetTopologyStatus(t, w, status) ==
  /\ topologies' =
       IF Accepted(t, w)
       THEN WithTopology(t, [topologies[t] EXCEPT !.status = status, !.age = 0])
       ELSE topologies
  /\ NotifyTopologyHistory(IF Accepted(t, w) THEN {t} ELSE {})
  /\ UNCHANGED <<workers, messages, workers_history>>

SetEnabled(t, enabled) ==
  /\ topologies' =
       WithTopology(t, [topologies[t] EXCEPT !.enabled = enabled])
  /\ NotifyTopologyHistory({t} \cap DOMAIN topologies)
  /\ UNCHANGED <<workers, workers_history>>

EnableTopology(t) == SetEnabled(t, TRUE) /\ UNCHANGED messages
DisableTopology(t) == SetEnabled(t, FALSE) /\ UNCHANGED messages

DeleteTopology(t) ==
  /\ topologies' = [u \in DOMAIN topologies \ {t} |-> topologies[u]]
  /\ UNCHANGED <<workers, messages, workers_history, topologies_history>>

\* Fault: whether it runs is not asked (breaks MessagesHaveAddressee).
StopAnyTopology(t, cmd) ==
  /\ t \in DOMAIN topologies
  /\ Len(messages[topologies[t].worker]) < MaxMessages
  /\ SetEnabled(t, FALSE)
  /\ messages' =
       Queued(topologies[t].worker, Message(cmd, {t}, WorkerTimeout))

\* stopTopology and killTopology: nothing happens unless it runs.
StopTopology(t, cmd) ==
  /\ t \in DOMAIN topologies
  /\ topologies[t].status = "running"
  /\ Len(messages[topologies[t].worker]) < MaxMessages
  /\ SetEnabled(t, FALSE)
  /\ messages' =
       Queued(topologies[t].worker, Message(cmd, {t}, WorkerTimeout))

---------------------------------------------------------------------------
(* Time passes.                                                            *)

AgeWorkers == [w \in DOMAIN workers |-> [workers[w] EXCEPT !.age = Older(@)]]
\* Nothing asks for the age of a topology but while it waits, which it begins
\* with age 0.
AgeTopologies ==
  [t \in DOMAIN topologies |->
     IF topologies[t].status = "waiting"
     THEN [topologies[t] EXCEPT !.age = Older(@)] ELSE topologies[t]]
AgeMessages ==
  [w \in Addressee |->
     [i \in DOMAIN messages[w] |-> [messages[w][i] EXCEPT !.age = Older(@)]]]

Tick ==
  /\ workers' = AgeWorkers
  /\ topologies' = AgeTopologies
  /\ messages' = AgeMessages
  /\ UNCHANGED <<workers_history, topologies_history>>
---------------------------------------------------------------------------
(* The storage under any sequence of calls.  Inputs are those of the       *)
(* callers: a worker only reports for itself, nobody asks for an lstatus   *)
(* but normal, and only statuses that the program has are set.             *)

WorkerCall ==
  \E n \in Worker :
    \/ RegisterWorker(n)
    \/ PingWorker(n)
    \/ AnnounceLeaderCandidacy(n)
    \/ CheckLeaderCandidacy(n)
    \/ CheckLeaderCandidacyFails(n)
    \/ \E status \in WorkerStatus : SetWorkerStatus(n, status)
    \/ SetWorkerLStatus(n, "normal")
    \/ DeleteWorker(n)

MessageCall ==
  \E n \in Worker :
    \/ \E m \in Sends : SendMessageToWorker(n, m)
    \/ GetMessages(n)
    \/ GetMessage(n)
    \/ GetNoMessage(n)

TopologyCall ==
  \E t \in Topology :
    \/ RegisterTopology(t)
    \/ EnableTopology(t)
    \/ DisableTopology(t)
    \/ DeleteTopology(t)
    \/ StopTopology(t, "stop_topology")
    \/ StopTopology(t, "kill_topology")
    \/ \E status \in {"unassigned", "error"} :
         SetTopologyStatus(t, NoWorker, status)
    \/ \E w \in Worker :
         \/ AssignTopology(t, w)
         \/ \E status \in {"unassigned", "running", "error"} :
              SetTopologyStatus(t, w, status)

ReadCall == GetWorkerStatus \/ GetTopologyStatus \/ GetTopologiesForWorker

StorageNext == WorkerCall \/ MessageCall \/ TopologyCall \/ ReadCall \/ Tick

StorageSpec == StorageInit /\ [][StorageNext]_storage_vars

---------------------------------------------------------------------------
(* Properties.                                                             *)

\* Type invariant: every record and every history entry has its fields.
TypeOK ==
  /\ DOMAIN workers \subseteq Worker
  /\ \A w \in DOMAIN workers : workers[w] \in WorkerRec
  /\ DOMAIN topologies \subseteq Topology
  /\ \A t \in DOMAIN topologies : topologies[t] \in TopologyRec
  /\ messages \in [Addressee -> Seq(MessageRec)]
  /\ DOMAIN workers_history \subseteq Worker
  /\ DOMAIN topologies_history \subseteq Topology

\* At most one worker record says leader, in whatever order workers announce
\* and check their candidacies and whichever of them stop pinging.
AtMostOneLeader ==
  \A v, w \in DOMAIN workers :
    workers[v].lstatus = "leader" /\ workers[w].lstatus = "leader" => v = w

\* The last entry of a history is what the record says now: no method changes
\* a status, an lstatus, a worker or the enabled flag without notifying.
HistoryIsCurrent ==
  /\ \A w \in DOMAIN workers :
       /\ w \in DOMAIN workers_history
       /\ workers_history[w] = WorkerEntry(workers[w])
  /\ \A t \in DOMAIN topologies :
       /\ t \in DOMAIN topologies_history
       /\ topologies_history[t] = TopologyEntry(topologies[t])

\* A topology that waits or runs does so on some worker, although workers
\* report late, topologies are taken from them and their records deleted.
\* (The leader checks for the contrary, in handleSuspiciousTopologies.)
ActiveHasWorker ==
  \A t \in DOMAIN topologies :
    topologies[t].status \in {"waiting", "running"} =>
      topologies[t].worker # NoWorker

\* While the leader keeps pinging nobody else becomes leader.
LiveLeaderKeepsOffice ==
  [][\A v, w \in DOMAIN workers \cap DOMAIN workers' :
       /\ v # w
       /\ workers[w].lstatus = "leader"
       /\ workers[w].age <= LeaderTimeout
       => workers'[v].lstatus # "leader"]_storage_vars

\* A worker that asks for a message gets the oldest one that is still valid,
\* whatever else is queued for it and for others, and no other is lost to it.
ValidIn(q) ==
  LET valid[k \in 0..Len(q)] ==
        IF k = 0 THEN << >>
        ELSE IF Valid(q[k]) THEN Append(valid[k - 1], q[k]) ELSE valid[k - 1]
  IN  valid[Len(q)]
ValidMessagesFor(w) == ValidIn(messages[w])
MessagesInOrder ==
  [][\A n \in Worker :
       GetMessage(n) =>
         ValidMessagesFor(n)' = Tail(ValidMessagesFor(n))]_storage_vars

\* Every message has an addressee: a stop or a kill is never sent to the
\* worker of a topology that has none.
MessagesHaveAddressee == messages[NoWorker] = << >>

\* What docs/protocols.md says of reading messages, "Returns messages for
\* this worker": one worker's reading leaves the messages of another alone.
\* (That n reads shows in its record: the age of its ping is reset.)
ReadBy(n) ==
  /\ n \in DOMAIN workers
  /\ workers[n].age > 0
  /\ GetMessages(n) \/ GetMessage(n) \/ GetNoMessage(n)
OnlyOwnMessagesAreRead ==
  [][\A n, w \in Worker :
       n # w /\ ReadBy(n) =>
         ValidMessagesFor(w)' = ValidMessagesFor(w)]_storage_vars
=============================================================================
