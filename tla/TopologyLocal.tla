--------------------------- MODULE TopologyLocal ---------------------------
(***************************************************************************)
(* One running topology (topology_local.ts) with the wrappers of its       *)
(* spouts and bolts (topology_local_inprocess.ts): how the nodes are       *)
(* initialized, run, paused and shut down, how spouts are asked for data,  *)
(* and how a datum goes from bolt to bolt until it is acknowledged.        *)
(*                                                                         *)
(* A call is one receive of one bolt.  It is named by where it comes from: *)
(* its root and the bolts the datum passed.  The root is the pump of the   *)
(* spout that emitted the datum, or the telemetry of a node (number 0).    *)
(* The inner nodes are external: they answer in a turn of their own, they  *)
(* pass what they receive to their own destinations or drop it, they wait  *)
(* for the acknowledgement and they pass errors on.  What happens in one   *)
(* turn of the event loop is one action.                                   *)
(***************************************************************************)
EXTENDS Integers, SequencesExt

CONSTANTS
  SpoutOrder, BoltOrder,  \* the nodes, in the order of the configuration
  Modules,                \* the scripts of general.shutdown, in order
  Graphs,                 \* configurations: sets of [source, bolt, stream],
                          \*   the enabled inputs
  Parallel,               \* bolts with allow_parallel
  MaxPumps,               \* bound: pumps of one spout at the same time
  Failures                \* what may go wrong: see Failure

Failure == {"context", "init", "next", "receive", "heartbeat", "shutdown"}
Spouts == ToSet(SpoutOrder)
Bolts == ToSet(BoltOrder)
Nodes == Spouts \cup Bolts

ASSUME LocalAssumption ==
  /\ SpoutOrder \in Seq(Spouts) /\ BoltOrder \in Seq(Bolts)
  /\ Modules \in Seq(ToSet(Modules))
  /\ Failures \subseteq Failure /\ Parallel \subseteq Bolts /\ MaxPumps \in Nat
  /\ \A g \in Graphs :
       g \subseteq [source : Nodes, bolt : Bolts, stream : {"data", "telemetry"}]

VARIABLES
  router,                 \* one of Graphs
  isInitialized,          \* init was called
  initialize,             \* nodes whose init was not called back; "context"
                          \*   comes first
  init_answer,            \* how init called back: see Answer
  isRunning, isShuttingDown, shutdownHardCalled,
  heartbeatTimer,         \* the interval is set
  onErrorHandler,         \* the handler of internal errors was called
  stop_tasks,             \* nodes and scripts whose shutdown is still to come,
                          \*   the first one was called
  stop_answer,            \* how shutdown called back
  isError, closing, isPaused,   \* the flags of the wrappers (closing: isShuttingDown)
  inner,                  \* the inner nodes: "open", "closing" or "closed"
  inSend, pendingSendRequests, pendingShutdownCallback,   \* of the bolts
  pump,                   \* the loops of the spouts: see PumpState
  calls                   \* calls in progress: from names to CallState

life_vars == <<router, isInitialized, initialize, init_answer>>
stop_vars == <<isShuttingDown, shutdownHardCalled, stop_tasks, stop_answer, closing>>
bolt_vars == <<inSend, pendingSendRequests, pendingShutdownCallback, inner, calls>>
run_vars == <<isRunning, isPaused, heartbeatTimer>>
vars == <<life_vars, stop_vars, bolt_vars, run_vars, isError, onErrorHandler, pump>>

Answer == {"none", "ok", "error"}
Pumps == Spouts \X (1..MaxPumps)
PumpState == {"none", "asked", "sleep", "emitted"}
\* "done" and "failed": the bolt's emit was called back.
CallState == {"pending", "receiving", "emitted", "done", "failed"}
\* Programs of general.shutdown come last.
InitOrder == <<"context">> \o BoltOrder \o SpoutOrder
StopOrder == SpoutOrder \o BoltOrder \o Modules

\* The wrappers as they are constructed.
NewSpouts ==
  /\ isPaused = [s \in Spouts |-> TRUE]
  /\ pump = [p \in Pumps |-> "none"]

NewBolts ==
  /\ inSend = [b \in Bolts |-> 0]
  /\ pendingSendRequests = [b \in Bolts |-> << >>]
  /\ pendingShutdownCallback = [b \in Bolts |-> FALSE]
  /\ calls = << >>

NewNodes ==
  /\ isError = [n \in ToSet(StopOrder) |-> FALSE]
  /\ closing = [n \in ToSet(StopOrder) |-> FALSE]
  /\ inner = [n \in ToSet(StopOrder) |-> "open"]

Init ==
  /\ router \in Graphs
  /\ isInitialized = FALSE /\ initialize = << >> /\ init_answer = "none"
  /\ isRunning = FALSE /\ isShuttingDown = FALSE /\ shutdownHardCalled = FALSE
  /\ heartbeatTimer = FALSE /\ onErrorHandler = FALSE
  /\ stop_tasks = << >> /\ stop_answer = "none"
  /\ NewNodes /\ NewSpouts /\ NewBolts

\* The nodes exist: the context was there.
Created == isInitialized /\ (initialize = << >> \/ Head(initialize) # "context")

---------------------------------------------------------------------------
(* Calls.                                                                  *)

BoltOf(c) == Last(c.path)
IsChild(c, d) == Len(c.path) > 1 /\ d = [c EXCEPT !.path = Front(@)]
IsEmission(c, p) == Len(c.path) = 1 /\ c.root = p
InProgress(b) == {c \in DOMAIN calls : BoltOf(c) = b /\ calls[c] # "pending"}

\* OutputRouter: the calls of an emission of the last bolt of the path, or of
\* the root.
Children(root, path, stream) ==
  LET source == IF path = << >> THEN root[1] ELSE Last(path)
  IN  {[root |-> root, path |-> Append(path, i.bolt)] :
         i \in {j \in router : j.source = source /\ j.stream = stream}}

\* Fault: a bolt that is busy receives all the same (breaks OneAtATime).
TakesAlways(b) == TRUE

\* A bolt receives at once when it is idle or takes data in parallel.
TakesNow(b) == inSend[b] = 0 \/ b \in Parallel

Refuses(children) == \E c \in children : isError[BoltOf(c)]

\* Fault: a datum that is received is not counted (breaks LocalTypeOK).
NotCounted(b, now) == inSend[b]

\* inSend after these calls begin.
Counted(b, now) == inSend[b] + Cardinality({c \in now : BoltOf(c) = b})

\* redirect: every destination receives, also when one of them refuses, which
\* calls the emitter back with an error.  Calls are otherwise as in base.
Redirect(children, base) ==
  LET taken == {c \in children : ~isError[BoltOf(c)]}
      now == {c \in taken : TakesNow(BoltOf(c))}
      Waiting(b) == {c \in taken \ now : BoltOf(c) = b}
  IN  /\ calls' = [c \in DOMAIN base \cup taken |->
                     IF c \in now THEN "receiving"
                     ELSE IF c \in taken THEN "pending" ELSE base[c]]
      /\ inSend' = [b \in Bolts |-> Counted(b, now)]
      /\ pendingSendRequests' =
           [b \in Bolts |-> pendingSendRequests[b] \o SetToSeq(Waiting(b))]
      /\ UNCHANGED <<pendingShutdownCallback, inner>>

---------------------------------------------------------------------------
(* Spouts.                                                                 *)

\* Fault: a loop does not notice a pause (breaks Drains).
StoppedByError(s) == isError[s]

Stopped(s) == isPaused[s] \/ isError[s]

\* The test of the loop.  It sleeps while another loop found no data.
NextRound(p) ==
  IF Stopped(p[1]) THEN "none"
  ELSE IF \E q \in Pumps : q[1] = p[1] /\ pump[q] = "sleep" THEN "sleep" ELSE "asked"

\* wrapCallbackSetError: these nodes and the spouts of these loops are in error.
Err(nodes, loops) ==
  isError' = [n \in DOMAIN isError |->
                isError[n] \/ n \in nodes \/ \E p \in loops : p[1] = n]

\* ... and a loop that ends with an error is reported.
Fail(nodes, loops) ==
  /\ Err(nodes, loops)
  /\ onErrorHandler' = (onErrorHandler \/ loops # {})

\* next was called back with data, which are emitted.
SpoutEmits(p) ==
  LET children == Children(p, << >>, "data")
      fails == Refuses(children)
  IN  /\ pump[p] = "asked"
      /\ Redirect(children, calls)
      /\ Fail({}, IF fails THEN {p} ELSE {})
      /\ pump' = [pump EXCEPT ![p] = IF fails THEN "none"
                                     ELSE IF children = {} THEN NextRound(p)
                                     ELSE "emitted"]

\* ... without data ...
SpoutRests(p) ==
  /\ pump[p] = "asked"
  /\ pump' = [pump EXCEPT ![p] = IF Stopped(p[1]) THEN "none" ELSE "sleep"]
  /\ UNCHANGED <<bolt_vars, isError, onErrorHandler>>

\* ... or with an error.
SpoutFails(p) ==
  /\ "next" \in Failures /\ pump[p] = "asked"
  /\ pump' = [pump EXCEPT ![p] = "none"]
  /\ Fail({}, {p})
  /\ UNCHANGED bolt_vars

\* The callback of next.
SpoutAnswers(p) == SpoutEmits(p) \/ SpoutRests(p) \/ SpoutFails(p)

Wake(p) ==
  /\ pump[p] = "sleep"
  /\ pump' = [pump EXCEPT ![p] = IF Stopped(p[1]) THEN "none" ELSE "asked"]
  /\ UNCHANGED <<bolt_vars, isError, onErrorHandler>>

---------------------------------------------------------------------------
(* Bolts.                                                                  *)

\* The bolt passes its datum on.
BoltEmits(c) ==
  LET children == Children(c.root, c.path, "data")
  IN  /\ calls[c] = "receiving" /\ children # {}
      /\ Redirect(children,
           [calls EXCEPT ![c] = IF Refuses(children) THEN "failed" ELSE "emitted"])
      /\ UNCHANGED <<pump, isError, onErrorHandler>>

\* Fault: the first answer acknowledges an emission (breaks
\* AcksAreComplete).
FirstAnswer(answered, children) == answered \cap children # {}

\* The last answer acknowledges an emission.
LastAnswer(answered, children) == children \subseteq answered

\* Calls are answered, some of them with an error, and others begin.  The first
\* error is passed on at once, an acknowledgement after the last answer.
Answered(answered, failed, begun, broken) ==
  LET rest == DOMAIN calls \ answered
      ChildrenOf(d) == {c \in DOMAIN calls : IsChild(c, d)}
      Emissions(p) == {c \in DOMAIN calls : IsEmission(c, p)}
      failing == {p \in Pumps : pump[p] = "emitted" /\ Emissions(p) \cap failed # {}}
  IN  /\ calls' = [d \in rest |->
           IF d \in begun THEN "receiving"
           ELSE IF calls[d] # "emitted" THEN calls[d]
           ELSE IF ChildrenOf(d) \cap failed # {} THEN "failed"
           ELSE IF LastAnswer(answered, ChildrenOf(d)) THEN "done" ELSE "emitted"]
      /\ pump' = [p \in Pumps |->
           IF pump[p] # "emitted" THEN pump[p]
           ELSE IF p \in failing THEN "none"
           ELSE IF LastAnswer(answered, Emissions(p)) THEN NextRound(p) ELSE "emitted"]
      /\ Fail(broken, failing)

\* Fault: a shutdown goes before the data that wait (breaks QueuesMove).
StopsFirst(b) == inSend[b] = 1 /\ pendingShutdownCallback[b]

\* Fault: a shutdown that waits is forgotten (breaks ShutdownAnswers).
StopsNever(b) == FALSE

\* The last datum in line is done: a shutdown that waited begins.
StopsNow(b) ==
  inSend[b] = 1 /\ pendingSendRequests[b] = << >> /\ pendingShutdownCallback[b]

\* The bolt is done with a datum, and the emitter learns of it first.  The next
\* in line is received, or refused when an error came meanwhile: then nobody
\* sees to those behind it.
BoltSucceeds(c) ==
  LET b == BoltOf(c)
      stops == StopsNow(b)
      next == IF inSend[b] = 1 /\ ~stops /\ pendingSendRequests[b] # << >>
              THEN {Head(pendingSendRequests[b])} ELSE {}
      refused == IF isError[b] THEN next ELSE {}
  IN  /\ calls[c] \in {"receiving", "done"}
      /\ Answered({c} \cup refused, refused, next \ refused, {})
      /\ inSend' = [inSend EXCEPT ![b] = IF next = refused THEN @ - 1 ELSE @]
      /\ pendingSendRequests' =
           [pendingSendRequests EXCEPT ![b] = IF next = {} THEN @ ELSE Tail(@)]
      /\ pendingShutdownCallback' = [pendingShutdownCallback EXCEPT ![b] = @ /\ ~stops]
      /\ inner' = [inner EXCEPT ![b] = IF stops THEN "closing" ELSE @]

\* A bolt that failed stays busy for ever.
BoltFails(c) ==
  /\ \/ calls[c] = "receiving" /\ "receive" \in Failures
     \/ calls[c] = "failed"
  /\ Answered({c}, {c}, {}, {BoltOf(c)})
  /\ UNCHANGED <<inSend, pendingSendRequests, pendingShutdownCallback, inner>>

\* The callback of receive.
BoltAnswers(c) == BoltSucceeds(c) \/ BoltFails(c)

---------------------------------------------------------------------------
(* Shutdown.                                                               *)

EndStop(answer) ==
  /\ stop_tasks' = << >> /\ stop_answer' = answer
  /\ shutdownHardCalled' = TRUE

\* Fault: a bolt is shut down while it works (breaks BoltsFinishFirst).
StopsBusy(n) == FALSE

\* The bolt's shutdown waits for the data it received.
Waits(n) == n \in Bolts /\ inSend[n] > 0

\* The series goes on with these tasks, the inner nodes being as given.  A node
\* in error refuses, which ends the series.
StopNext(tasks, nodes) ==
  IF tasks = << >>
  THEN /\ EndStop("ok") /\ inner' = nodes
       /\ UNCHANGED <<isError, closing, pendingShutdownCallback>>
  ELSE LET n == Head(tasks) IN
       IF isError[n] \/ closing[n]
       THEN /\ EndStop("error") /\ inner' = nodes
            /\ isError' = [isError EXCEPT ![n] = TRUE]
            /\ UNCHANGED <<closing, pendingShutdownCallback>>
       ELSE /\ stop_tasks' = tasks
            /\ closing' = [closing EXCEPT ![n] = TRUE]
            /\ pendingShutdownCallback' =
                 [b \in Bolts |-> pendingShutdownCallback[b] \/ (b = n /\ Waits(n))]
            /\ inner' = IF Waits(n) THEN nodes ELSE [nodes EXCEPT ![n] = "closing"]
            /\ UNCHANGED <<isError, stop_answer, shutdownHardCalled>>

\* shutdown, which pauses first.
Shutdown ==
  /\ isInitialized /\ ~isShuttingDown
  /\ isShuttingDown' = TRUE /\ heartbeatTimer' = FALSE /\ isRunning' = FALSE
  /\ isPaused' = [s \in Spouts |-> TRUE]
  /\ StopNext(IF Created THEN StopOrder ELSE Modules, inner)
  /\ UNCHANGED <<life_vars, onErrorHandler, inSend, pendingSendRequests, calls, pump>>

\* The node has shut down, well or badly.
NodeStopped ==
  /\ stop_tasks # << >>
  /\ LET n == Head(stop_tasks)
         nodes == [inner EXCEPT ![n] = "closed"]
     IN  /\ inner[n] = "closing"
         /\ \/ StopNext(Tail(stop_tasks), nodes)
            \/ /\ "shutdown" \in Failures
               /\ EndStop("error") /\ inner' = nodes
               /\ isError' = [isError EXCEPT ![n] = TRUE]
               /\ UNCHANGED <<closing, pendingShutdownCallback>>
  /\ UNCHANGED <<life_vars, isShuttingDown, run_vars, onErrorHandler, inSend,
                 pendingSendRequests, calls, pump>>

---------------------------------------------------------------------------
(* Initialization, run, pause and heartbeats.                              *)

InitTopology ==
  /\ ~isInitialized
  /\ isInitialized' = TRUE /\ initialize' = InitOrder
  /\ UNCHANGED <<router, init_answer, stop_vars, bolt_vars, run_vars, isError,
                 onErrorHandler, pump>>

\* init calls back when all have.
AllInitialized(rest) == rest = << >>

\* The context or a node has initialized.  A node that refused to shut down
\* refuses this as well.
NodeInitialized ==
  /\ initialize # << >> /\ init_answer # "error"
  /\ LET rest == Tail(initialize) IN
     /\ initialize' = rest
     /\ IF AllInitialized(rest)
        THEN init_answer' = "ok" /\ heartbeatTimer' = TRUE
        ELSE /\ init_answer' = IF isError[Head(rest)] THEN "error" ELSE init_answer
             /\ UNCHANGED heartbeatTimer
  /\ UNCHANGED <<router, isInitialized, stop_vars, bolt_vars, isRunning, isPaused, isError,
                 onErrorHandler, pump>>

\* ... or failed to.
NodeInitFails ==
  /\ initialize # << >> /\ init_answer # "error"
  /\ LET n == Head(initialize) IN
     /\ (IF n = "context" THEN "context" ELSE "init") \in Failures
     /\ isError' = [m \in DOMAIN isError |-> isError[m] \/ m = n]
  /\ init_answer' = "error"
  /\ UNCHANGED <<router, isInitialized, initialize, stop_vars, bolt_vars, run_vars,
                 onErrorHandler, pump>>

\* The caller waits for init.  Every spout gets a new loop, whether or not the
\* last one has noticed the pause.
Run ==
  LET Free(s) == {k \in 1..MaxPumps : pump[<<s, k>>] = "none"}
  IN  /\ init_answer = "ok" /\ ~isRunning
      /\ \A s \in Spouts : Free(s) # {}   \* bound: MaxPumps
      /\ isRunning' = TRUE /\ isPaused' = [s \in Spouts |-> FALSE]
      /\ pump' = [p \in Pumps |->
           IF ~isError[p[1]] /\ p[2] \in Free(p[1]) /\ \A k \in Free(p[1]) : p[2] <= k
           THEN IF \E q \in Pumps : q[1] = p[1] /\ pump[q] = "sleep" THEN "sleep"
                ELSE "asked"
           ELSE pump[p]]
      /\ UNCHANGED <<life_vars, stop_vars, bolt_vars, heartbeatTimer, isError,
                     onErrorHandler>>

Pause ==
  /\ isRunning
  /\ isRunning' = FALSE /\ isPaused' = [s \in Spouts |-> TRUE]
  /\ UNCHANGED <<life_vars, stop_vars, bolt_vars, heartbeatTimer, isError,
                 onErrorHandler, pump>>

\* A heartbeat reaches this node, which fails or has telemetry to emit.  One
\* datum of telemetry of a node is on its way at a time (bound).
Heartbeat(n) ==
  LET root == <<n, 0>>
  IN  /\ heartbeatTimer /\ isRunning
      /\ ~isError[n] /\ (n \in Spouts => ~isPaused[n])
      /\ \/ /\ "heartbeat" \in Failures
            /\ isError' = [isError EXCEPT ![n] = TRUE]
            /\ onErrorHandler' = TRUE
            /\ UNCHANGED bolt_vars
         \/ /\ \A c \in DOMAIN calls : c.root # root
            /\ Redirect(Children(root, << >>, "telemetry"), calls)
            /\ UNCHANGED <<isError, onErrorHandler>>
  /\ UNCHANGED <<life_vars, stop_vars, run_vars, pump>>

---------------------------------------------------------------------------
\* A turn of a loop, or of the bolts that work on its datum.
Turn(root) ==
  /\ \/ /\ root \in Pumps
        /\ \/ SpoutAnswers(root)
           \/ Wake(root)
     \/ \E c \in DOMAIN calls :
          /\ c.root = root
          /\ \/ BoltEmits(c)
             \/ BoltAnswers(c)
  /\ UNCHANGED <<life_vars, stop_vars, run_vars>>

Roots == Pumps \cup {<<i.source, 0>> : i \in {j \in UNION Graphs : j.stream = "telemetry"}}

LifeStep == NodeInitialized \/ NodeInitFails \/ NodeStopped

Next ==
  \/ InitTopology
  \/ LifeStep
  \/ Run
  \/ Pause
  \/ Shutdown
  \/ \E n \in Nodes : Heartbeat(n)
  \/ \E root \in Roots : Turn(root)

\* Nodes answer, and timers ring.  Nobody has to run, pause or shut down.
Fairness ==
  /\ WF_vars(LifeStep)
  /\ \A root \in Roots : WF_vars(Turn(root))

Spec == Init /\ [][Next]_vars
FairSpec == Spec /\ Fairness

---------------------------------------------------------------------------
(* Properties.                                                             *)

LocalTypeOK ==
  /\ router \in Graphs
  /\ isInitialized \in BOOLEAN /\ isRunning \in BOOLEAN
  /\ initialize \in Seq(Nodes \cup {"context"}) /\ init_answer \in Answer
  /\ isShuttingDown \in BOOLEAN /\ shutdownHardCalled \in BOOLEAN
  /\ heartbeatTimer \in BOOLEAN /\ onErrorHandler \in BOOLEAN
  /\ stop_tasks \in Seq(ToSet(StopOrder)) /\ stop_answer \in Answer
  /\ isError \in [ToSet(StopOrder) -> BOOLEAN]
  /\ closing \in [ToSet(StopOrder) -> BOOLEAN]
  /\ inner \in [ToSet(StopOrder) -> {"open", "closing", "closed"}]
  /\ isPaused \in [Spouts -> BOOLEAN]
  /\ inSend \in [Bolts -> Nat] /\ pendingShutdownCallback \in [Bolts -> BOOLEAN]
  /\ pendingSendRequests \in [Bolts -> Seq([root : Roots, path : Seq(Bolts)])]
  /\ pump \in [Pumps -> PumpState]
  /\ DOMAIN calls \subseteq [root : Roots, path : Seq(Bolts)]
  /\ \A c \in DOMAIN calls : calls[c] \in CallState

\* A bolt without allow_parallel works on one datum at a time, whoever sends it
\* data and however often its spout was paused and run.
OneAtATime == \A b \in Bolts \ Parallel : Cardinality(InProgress(b)) <= 1

\* Whoever emitted a datum waits until every bolt it went to has answered,
\* unless it, or the bolt that emitted, has failed: so an acknowledgement a
\* spout gets covers all that followed from its datum.
AcksAreComplete ==
  \A c \in DOMAIN calls :
    IF Len(c.path) = 1
    THEN \/ c.root \notin Pumps
         \/ pump[c.root] = "emitted"
         \/ isError[c.root[1]]
    ELSE LET d == [c EXCEPT !.path = Front(@)]
         IN  isError[BoltOf(d)] \/ (d \in DOMAIN calls /\ calls[d] \in {"emitted", "failed"})

\* What waits at a bolt, data or its own shutdown, waits for a datum the bolt
\* is working on: nothing is left in a queue that nobody looks at again, unless
\* the bolt has failed.
QueuesMove ==
  \A b \in Bolts :
    (pendingSendRequests[b] # << >> \/ pendingShutdownCallback[b])
      => InProgress(b) # {} \/ isError[b]

\* The shutdown of an inner bolt does not begin while it works on a datum.
BoltsFinishFirst ==
  [][\A b \in Bolts : inner[b] = "open" /\ inner'[b] = "closing"
                        => InProgress(b)' = {}]_vars

\* shutdown calls back in the end, unless a bolt failed or the topology was run
\* once more, which is not refused.
ShutdownAnswers ==
  isShuttingDown ~> stop_answer # "none" \/ isRunning \/ \E b \in Bolts : isError[b]

\* After the shutdown, or a pause, all loops end and all data are worked off,
\* unless a node failed or the topology is told to run again.
Drains ==
  (init_answer = "ok" /\ ~isRunning) ~>
    \/ isRunning \/ \E n \in Nodes : isError[n]
    \/ DOMAIN calls = {} /\ \A p \in Pumps : pump[p] = "none"

=============================================================================
