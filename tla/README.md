# QTopology in TLA+

QTopology runs stream-processing topologies: graphs of spouts, which produce
messages, and bolts, which process them.  A topology runs in a process of its
own.  A cluster of workers shares the topologies; they coordinate through a
storage that each of them polls, and one of them, the leader, decides which
worker runs what.  This directory holds TLA+ models of that program, the
configurations TLC checks them with, and proofs that TLAPS checks.

All paths of source files below are relative to `src/`.

## 1. Inventory

### The distributed part (`src/distributed`)

| component | state | operations | talks to |
|---|---|---|---|
| `MemoryStorage` | worker records (status, leadership status, last ping), topology records (status, worker, enabled, time of the last change), one message queue, two histories | registration, pings, candidacies, assignment, reports, messages, enable / disable / stop / kill / delete; reads apply time-outs before they return | called by every other part; `FileStorage` extends it with topologies found in a directory, `HttpStorage` forwards to it over HTTP |
| `TopologyLeader` | `is_leader`, `is_running`, `next_rebalance`; what a pass of its loop has read | one loop per worker: refresh all statuses, apply for the office or, as the leader, confirm it, handle dead workers, assign what is unassigned, rebalance; `clearTopologyError` for operators | storage; started and stopped by the coordinator |
| `TopologyCoordinator` | `is_running`, `is_shutting_down`, a pending shutdown callback, the dormancy state, ping interval | loop of four parallel branches: is the leader's loop alive, read and handle one message, compare assigned with running topologies, check its own record | storage, leader, worker |
| `TopologyWorker` | list of topologies with their proxies, `waiting_for_shutdown` | start, stop, kill, resolve mismatches, graceful shutdown, signals | coordinator (reports), proxies |
| `TopologyLocalProxy` | pending callbacks for init, run, pause and shutdown, `has_exited`, last error, last ping | sends commands to the child process and matches its answers, exit and errors with the callbacks; kills a child that does not answer pings | worker, wrapper (messages between processes) |
| `TopologyLocalWrapper` | the topology, `waiting_for_shutdown`, last ping | handles the commands in the child, signals, exit when the parent is gone | proxy, `TopologyLocal` |
| command line, dashboard | none | operators' commands | storage, `clearTopologyError` |

### One topology in one process

| component | state | operations |
|---|---|---|
| `TopologyLocal`, `OutputRouter` | nodes, routes, `isInitialized`, `isRunning`, `isShuttingDown` | init, run, pause, shutdown (spouts, then bolts, in series), heartbeats, redirect a message to the successors |
| bolt and spout wrappers | `inSend`, pending sends, pending shutdown, error flag; paused, loops of `next` calls | receive one message at a time unless parallel is allowed; a loop of `next` calls for each run |
| `FileAppendBolt`, `FileAppendBoltEx`, `AccumulatorBolt`, queueing spouts, `TaskBoltBase`, `ChildProcRestarter` | buffers, buckets, aggregates, children | batches, splitting and zipping, aggregation per period, periodic runs, restarts |
| stateless bolts, compiler, load balancer, cron and pattern parsing, comment stripping | none | pure functions |

### What is hard in this code

* No locks and no transactions: every decision of a leader or worker rests on
  something it has read from the storage a few calls before.
* Time-outs are applied by whoever reads the storage, whatever the reader.
* Messages are polled, expire, and are thrown away by other workers' polls.
* A worker process can vanish, come back under the same name, or be slow.
* Callbacks that `async.each` and `async.parallel` run beside each other.
* A shutdown meets everything else: messages, exits, signals, late reports.

### What makes each component correct

* Storage: at most one leader; a leader that pings keeps its office; a topology
  that waits or runs has a worker; histories are current; a worker's messages
  reach it in order.
* Leader: a recorded leader serves; the office is filled again after any
  failure; what is unassigned is assigned; nothing is left on dead workers; the
  orders it sends match the assignments it makes.
* Coordinator and worker: a topology runs where it is assigned and eventually
  nowhere else; a shutdown ends.
* Proxy and wrapper: each callback is called once; the exit is reported once;
  no child survives its parent's interest in it.
* One topology: messages follow their routes, in order, once; a shutdown waits
  for what is being processed.
* Bolts with files and aggregates: no datum is lost or attributed twice.
* Spouts with queues: each tuple is emitted once, in order, and the queue is bounded.
* Front ends: the storage gets the calls that were made, as they were meant.

`PROJECT.json` lists these hazards with their lines and the properties that
cover them.

## 2. Plan

In order of importance; section 3 describes what is done.

| | module | composes | state |
|---|---|---|---|
| 1 | `MemoryStorage` | | done, with proofs |
| 2 | `TopologyLeader` | `MemoryStorage` | done, with proofs |
| 3 | `TopologyLocalProxy`, `TopologyLocalWrapper`; abstract: `ChildContract` | each other | done, with proofs |
| 4 | `TopologyWorker`: coordinator and list of topologies | `MemoryStorage`; children as `ChildContract` has them | done, with proofs |
| 5 | `TopologyLocal` with both wrappers | | done, its safety proved |
| 6 | `LoadBalancer` | | done, with proofs |
| 7 | `FileAppendBolt`, `FileAppendBoltEx`, `AccumulatorBolt` | | done, with proofs |
| 8 | `ChildProcRestarter`, `TaskBolt`, `QueueSpouts` | | done, with proofs |
| 9 | `StorageFrontends`: HTTP storage, command line, dashboard | | done, with a proof |
| 10 | `TopologyCompiler` | | done, with a proof |
| 11 | leader and worker in one state machine | 2 and 4 | open: each has the other as its environment |

What may be worth proving next, with a model of leader and worker in one (row 11): that
the environments which `TopologyLeader` and `TopologyWorker` assume of each other are
those they provide.  Within the modules there are, the safety properties the runs check
are proved, some under hypotheses that section 6 names; liveness is model-checked.

## 3. Modules

### `MemoryStorage`

Every public method that changes state is an action of the same name
(`RegisterWorker`, `AnnounceLeaderCandidacy`, ..., with `StopTopology` for stop
and kill).  The methods run without giving up control, so each is atomic.

* `workers`, `topologies` are functions from the names of the records that
  exist; `messages` keeps the one queue of the code as a queue for each
  addressee, which no method can tell from it; of each history only the last
  entry is kept, which is what can be out of date.
* Time is an age per record, advanced by `Tick` and capped at `MaxAge`: the
  code only ever compares `Date.now()` minus a stamp with a constant. A
  topology's age is counted while it waits, as only then it is compared.
* The helpers `DisableDefunctWorkers`, `DisableDefunctLeaders` and
  `UnassignWaitingTopologies` are the private methods the reads begin with.
* Left out: configurations, weights, error texts and pids.

`MCMemoryStorage` gives the constants values.

### `TopologyLeader`

EXTENDS `MemoryStorage`.  The loop of every worker is split at each call to the
storage: `RefreshStatuses`, `MakeCall` (any one of the parallel calls in
`calls`), `UnassignWaiting`, `AnnounceCandidacy`, `CheckCandidacy`,
`ConfirmLeadership`, `AssignUnassigned`, `Rebalance`, `EndPass`, in the order
of `performLeaderLoop`.  `step` is the position, `seen` what the pass has read
and will still use, `calls` what `async.each` has started and not finished;
`Precedes` orders the calls about one worker as their nested callbacks do.  A
failed request (`CallFails`, `RequestFails`) takes effect or does not, and ends
the loop, as `run` does; a failed `getTopologiesForWorker` is ignored, as
`handleDeadWorker` does.  `clearTopologyError` is `ClearStep`, step by step.

The rest of the worker appears through the calls it makes to the storage
(section "The rest of the worker" of the module): registration, pings,
`checkWorkerStatus`, closing and exit, reading messages, reports of
topologies; clients register, enable and disable topologies and delete unloaded
workers.  Any order of these is allowed, which includes the real ones.

Where the model is wider than the code: the load balancer may choose any alive
worker, and a rebalance may move any set of topologies.  Where it is narrower:
while nothing is counted as a disruption, workers ping before time passes, and
registration, which is sent five seconds before the leader's first pass, is
not overtaken by it.  Crashes, forced closing, disabling, failed requests and
late pings or registrations are disruptions, of the kinds in `Disruptions` and at
most `MaxDisruptions` in a behaviour.

What the model shows about the design, beside the properties: two workers may
act as leaders for the rest of one pass when the first is disabled, closed or
late in it, or when it crashed and came back while another's refresh was about
to clear its record.  A property that denies this does not hold and is not
stated; that the state heals is `LeadershipSettles` and `RecordedLeaderServes`.

### `TopologyLocalWrapper`, `TopologyLocalProxy`, `ChildContract`

`TopologyLocalWrapper` is the child process: an action for the handling of a
message (`Handle`, with `HandleInit`, `HandleSwitch` for run and pause, and
`Shutdown`), for the callbacks of the topology (`InitDone`, `ShutdownDone`), for
signals, for internal errors, for the ping interval (`GiveUpOnParent`), and for
its end (`Exit`, `Crash`).  Wherever the code exits in the callback of a sent
message, `exiting` holds the exit code, and the child goes on handling messages
until `Exit`.  `proc` and `exit_code` are what the operating system knows,
`to_child` and `to_parent` the two directions of the channel.

`TopologyLocalProxy` EXTENDS it with the parent's side: the calls (`Init`,
`Switch`, `ShutdownCall`, `Kill`), the events of the child (`Receive`,
`ExitEvent` for "exit" and then "close", `ErrorEvent`), and the timers
(`KillTimer`, `GiveUpOnChild`).  `cb` holds the four callbacks; `listening` says
that `onExit` was not called; `asked`, `told` and `errors` count the calls of a
method and of the callbacks it was given, for the properties.  The worker may
call any method at any time and as often as `MaxCalls` allows, but it does not use a
proxy whose exit was reported, except for a shutdown of a child that had
answered one, which the proxy provides for.  Callbacks do not call the proxy in
turn: the worker's kill from within `onExit` finds `has_exited` set and does
nothing.

The nodes of the topology are left out (initialization and shutdown end, well or
badly); a ping is only the moment when one side gives up.  `Failures` and
`Signals` choose what may go wrong.  `ExitOvertakes` lets the "exit" event come
before messages that are still in the channel, as Node.js allows; "close" never
does.

`ChildContract` is what the worker may rely on: accepted commands are called
back once, the end of the child is reported once and calls back whatever waits,
and (`FairContract`) answers come, an end is reported, and a child whose end was
reported, or whose parent is gone, ends.

`TopologyWorker` builds on these promises.

### `TopologyWorker`

EXTENDS `MemoryStorage` with the process of one worker, `Me`.  A pass of the
coordinator's loop has three branches that run beside each other, each a chain
of steps between the calls of the storage whose answers it uses later:

* `requests`: after its timer it asks for a message (`HandleIncommingRequests`),
  handles it (`HandleSingleRequest`), and for each topology to start asks for its
  record (`GetTopologyInfo`) and starts it or not (`Start`);
* `assigned`, every fifth pass: `CheckAssignedTopologies` reads what should run
  here, `ResolveTopologyMismatches` compares it with the list, kills what does not
  belong, and `UnassignMissing` gives back what is not there, from the list it has
  by then;
* `status_check`, every fifth pass: `ReadWorkerStatus`, `CheckWorkerStatus`.

`NextPass` joins them, with the leadership's branch.  A failed branch ends the
loop once, while the other branches go on (`PassFails`).  The shutdown is
`PreShutdown` (the worker is reported as closing, its leadership told to stop),
`ShutDownAll` (the topologies in the list then) and `ReportDead`, which ends in
the shutdown of the coordinator; it can be begun by a message, a signal, an
exception or the end of the loop.  `items` is
`this.topologies`; `child` has, for each proxy, what `ChildContract` tells of a
child: whether it lives, which callbacks wait, whether its end was reported.
`reports` are calls of `setTopologyStatus` that the storage has not handled.

The environment (`Environment`) is the leader that assigns and takes
topologies, tells again or finds this worker dead; other workers' reports;
operators' messages, stops and kills; deletion of the record; the dormancy period;
signals.  `CheckPeriod`, 5 in the code, says how many passes lie between two
checks.  A start message does not overtake its assignment, which is the leader's
`StartsAreOwn`; one from before a restart (`start_time`) is a message of age 1.  The
storage's time does not pass here, its time-outs are the leader's matter.

### `TopologyLocal`

One topology in its process: `TopologyLocal`, the router and the wrappers of
bolts and spouts.  A call is one receive of one bolt, named by its root (a
spout's loop, or a node's telemetry) and the bolts that the datum has passed, so
that the nesting of the code's callbacks is the nesting of the names: when a
call ends, `LastAnswer` looks whether it was the last one its emitter waits for.
What happens in one turn of the event loop is one action, `Redirect` and
`TakesNow` being the router's and `receive`'s parts of it.  `inSend`,
`pendingSendRequests` and `pendingShutdownCallback` are the wrapper's fields.
Inner nodes are external: they answer later, pass on what they get or drop it,
and may fail at the points of `Failures`.  A run starts a new loop of every spout
whether the last one has ended or not, as the code does; `MaxPumps` bounds them.
`calls` and queues need no bound: a loop has one datum on its way.

### The standard nodes and utilities

Each module is one part with its own state; they do not interact in one
process other than through the wrappers above.  What a wrapper promises a bolt (one
datum at a time, a shutdown when none is under way) is in the guards of its bolt.

| module | code | what is kept, what is left out |
|---|---|---|
| `FileAppendBolt` | `file_append_bolt.ts` | receive, heartbeat, splitting, zipping and shutdown, with several calls of `writeToFile` under way, also repeated ones whose predecessor failed while its zips run on; the CSV bolt with overlapping appends. Time in halves of a period, which passes whatever is being zipped, so that a zip may run over the end of its period. Two history variables: `late_names`, the periods that named a file after such a zip, and `overtaken`, what was written to a file while it was zipped. `FailingZips` names the files whose zips may fail. |
| `FileAppendBoltEx` | `file_append_bolt_ex.ts` | buckets, periods, zips that succeed or fail. Data of a bucket come in the order of their timestamps, as the source assumes. |
| `AccumulatorBolt` | `accumulator_bolt.ts` | the tree of partitions and tags as a function from paths to records (a node hides what lies below it, as `reportRec` does not descend there), counting, reports, reset, periods that are caught up with one by one. Tags are numbers; MIN and MAX keep their order, so that a maximum of negative values is wrong as in the code. Of a report whose sends fail any part is emitted, and nothing follows (`failed`). Without `allow_parallel`, as the wrapper lets nothing overlap then. Either all messages or none have partition tags. |
| `LoadBalancer` | `load_balance.ts`, its two uses in `topology_leader.ts` | loads, affinities, `next`, `rebalance` with its threshold. Of the topologies that are placed any may run already and count in the loads of the next assignment. The moves of a rebalance are made at once: in the code the topologies are told to stop, and later passes assign them. |
| `ChildProcRestarter` | `child_proc_restarter.ts`, `freq_estimator.ts` | process, restart timer, score, pending callback. |
| `QueueSpouts` | file, directory, REST, RSS, GET, timer and process spouts, `process_bolt.ts` | the queue between source and `next`, where tuples are lost (`lost`) and where not: at a full queue, in a body that does not parse, and in a line of a process whose end comes in another piece. |
| `TaskBolt` | `task_bolt_base.ts` | due times, the task under way, the pending shutdown. |
| `StorageFrontends` | `command_line.ts`, `dashboard_server.ts`, `http_storage.ts`, `http_storage_server.ts`, `http_server.ts` | each command as the series of calls it makes, up to the first that fails; what the HTTP server reads of each; requests and answers that are lost, calls that the storage refuses (`MayRefuse`), and the check of `clearTopologyError` that the topology is in error. An error at the command line is `logged`: its callback is called without it. |
| `TopologyCompiler` | `topology_compiler.ts` | injection of variables in their order, first occurrence only; the checks of names. Texts are sequences of `Symbols` and of variables' names. |

`MCNodes` is the union of these parts: `part` chooses one at the start and the
others stay as they are.  Sums, visits of the tree and placements are recursive
functions, so that they can be proved about.

## 4. Runs

Worker timeouts of the code: a leader loses its office after 10 s without a
ping, a worker is dead after 30 s, and for the leader's own check after 300 s;
a topology that waits for 30 s is unassigned.  The runs keep their order and use
0 or 1, 1 or 2, and 2 ticks.  A `LeaderTimeout` of 0 would let any tick depose a
leader, so the liveness runs use 1.

| run | instance | shows |
|---|---|---|
| `storage_records` | 2 workers, 1 topology; messages on their way only while both workers are alive and have no office (`MessagesAlone`) | `TypeOK`, `HistoryIsCurrent`, `ActiveHasWorker`, `AtMostOneLeader`; `LiveLeaderKeepsOffice`: nobody replaces a leader that pings in time. Records of different topologies do not interact; that two workers are enough for the office is no question, as the theorems hold for any number. |
| `storage_lost_messages` | 2 workers | violation of `OnlyOwnMessagesAreRead`: see findings. |
| `leader_office` | 2 workers, 2 disruptions of any kind | `LeaderTypeOK`, `RecordedLeaderServes`; `LeadershipSettles` under fairness. |
| `leader_assigns` | 1 worker, 1 topology, rebalancing, errors cleared, disabling, 1 crash, failed request or late worker | `UnassignedAreAssigned` under fairness. |
| `leader_starts` | 2 workers, 1 topology that is given back, 1 crash | `StartsAreOwn`: until the crash, messages do not overtake the assignments they announce. `UnloadedIsEmpty`: nothing is stranded on a worker pronounced unloaded. |
| `proxy_calls` | each method once; every failure; no signals | `ProxyTypeOK`; `AnsweredOnce`: every callback is called once; `ProxyContract`: refinement of `FairContract`, with its liveness. |
| `proxy_quiet` | init, run and kill once, shutdown twice, both signals, no failure, "exit" comes after the messages | `QuietEnd`: an orderly end is not an error, whoever asked for it. |
| `proxy_errors` | failed sends only | violation of `ErrorsKill`: see findings. |
| `worker` | 1 worker, 1 topology, 2 proxies, 1 order of the environment besides what it starts with; children, compilation and leadership may fail | `WorkerTypeOK`; `ChildrenAreListed`: no child escapes the list; `MessagesHaveAddressee`, `MessagesInOrder`; `MismatchesAreResolved`: records and processes come to agree again; `ShutdownEnds`. |
| `worker_exits` | the same, one failed call of the storage, no orders | violation of `ShutdownEnds`: see findings. |
| `local` | 1 spout, 2 bolts, one of them parallel, in 2 graphs; 2 loops at once; failures at every point | `LocalTypeOK`, `OneAtATime`, `AcksAreComplete`, `QueuesMove`, `BoltsFinishFirst`; `ShutdownAnswers` and `Drains` under fairness. |
| `nodes` | one of the ten parts of `MCNodes` | `NothingLost`, `ShutdownSaves`, `ArchivedInPeriod`, `AggregatesAreComplete`, `RebalanceSettles`, `MovesEvenTheLoad`, `RestarterObeys`, `EmittedInOrder`, `QueueStaysBounded`, `TasksAreSpaced`, `CallsArrive`, `CompilerResolves`. |

Why the bounds are enough:

* `worker`: two proxies are an earlier and a present process of one topology,
  which is what late exits and removals by name need; for more proxies
  and topologies `ChildrenAreListed` is a theorem.  The worker starts with the
  topology unassigned, waiting for it or left over as running, so that with one
  further order a start races a stop, a kill, a reassignment, a deletion, a signal
  or an outage.  `CheckPeriod` 2 makes checks and ordinary passes alternate.
* `local`: one graph has a diamond (two ways into one bolt, of which one is direct), the
  other a chain with telemetry; a bolt with two inputs is where data queue, and
  two loops are a spout that was paused and run again before its first loop noticed.
* `proxy_calls`, `proxy_quiet`: a second shutdown is what is refused or finds its
  callback kept, with two signals for a child that shuts down by itself; that
  callbacks are called once is a theorem for any numbers of calls.
* `nodes`: three data, two values and seven halves are enough for a datum before,
  in and after a zip that two calls wait for, and for a zip that runs over the end of its
  period, after which its successor's name is split twice; three messages over three periods
  catch up with more than one period at once; three workers and topologies of
  three weights make greedy placement differ from the best one (`MovesEvenTheLoad` bounds
  the loads after a rebalance by those before and the weight of one topology); the marks 3 and 2
  with two lines read ahead let a reader overrun, and seven tuples come round
  twice; two commands race; three variables refer to each other in every order.

Every property has a mutant of a mapped definition (`PROJECT.json`, the
operators marked "Fault" in the modules) that breaks it in the same run.
Deadlock is not checked where a process ends or a bound ends the run.

Fairness (`LeaderFairness`): weak fairness of each started loop, of
registration, pings, the periodic check of a worker's own record, message polling,
closing after the loop has ended, exit, and time.  All of these are
`setTimeout`/`setInterval` callbacks or calls that the storage answers at once;
a process that does not get to run them is a crash or late, which are
disruptions.  Starting a worker, clients and disruptions get none.

Fairness (`ProxyFairness`): weak fairness of the delivery of messages and of the exit
event, of the timer of kill, of the callbacks of initialization and
shutdown, of a child's exit once its last message is sent, and of the child's
ping interval when nobody pings it.  The last is only as good as the code: a
child clears that interval when it begins to shut down, so that one whose nodes
never finish to shut down stays for ever if its parent is gone; that they do finish is
assumed.

Fairness (`WorkerFairness`): weak fairness of each branch of the pass, of the
delivery of reports, of the steps of a shutdown and the end of a leadership
loop that was told to end, and of the children's answers, ends that were asked for
and exits, which is what `FairContract` promises.  Each branch is a finite
chain of timers and answers, so that fairness of the whole is fairness of its
steps.  Orders, failures and
the death of a child that nobody stopped get none.

Fairness (`Fairness` of `TopologyLocal`): weak fairness of the series of
initialization and shutdown, and of every loop with the calls that follow from
its datum.  Nodes are assumed to call back, in time or with an error: the code has
no time-out for them.  Run, pause, shutdown and heartbeats get none.

## 5. Findings

* `getMessage` of a worker without valid messages empties the whole queue
  (`src/distributed/memory/memory_storage.ts:149`), although docs/protocols.md
  describes the call as returning the messages of that worker
  (`storage_lost_messages`).
* The proxy's handler of the child's error event sets `has_exited` before it
  calls `kill`, which then returns at once (`topology_local_proxy.ts:231`), although
  the comment there says that such a state must be left by exiting.  The child
  lives until it notices that nobody pings it (20 s), while its worker has
  reported the topology (`proxy_errors`).  `ProxyContract` holds nevertheless,
  because it does end.
* A branch of the coordinator's loop that fails ends the loop and asks for a
  shutdown, but leaves `is_running` true (`topology_coordinator.ts:112`), so that
  `TopologyCoordinator.shutdown` keeps its callback for a loop that has ended
  and the process, which the comment at line 115 wants to exit, stays for ever
  (`worker_exits`).

What the models show besides, without a run of its own:

* Every read of the topologies resets a topology of a dead worker to
  unassigned, also one in error (`memory_storage.ts:502`).
* The server of the HTTP storage does not find the worker in two calls of its
  client (`Misread` in `StorageFrontends`) and does not know some of its calls
  (`Unknown`): `CallsArrive` names them as exceptions.
* `reset` of an accumulator with partitions throws when zero counts are to be
  emitted (`failed`); the maximum of negative values is reported as `MIN_VALUE`.
* A second run before a spout's loop has noticed a pause leaves two loops; and
  `run` is not refused once a shutdown has begun, so `ShutdownAnswers` and `Drains`
  except a topology that runs again.
* A bolt whose `receive` failed keeps `inSend` above zero: data queued at it are
  never answered and a shutdown waits for ever; `QueuesMove` and the liveness of
  `local` except nodes that failed.
* A rebalance may raise the highest load: where ten workers have loads 9 (nine of them) and
  0, with topologies of weights 5, 4 and 3, the greedy placement that `rebalance` takes for
  near optimal puts 10 on one of them.  `MovesEvenTheLoad` therefore allows the weight of
  a topology on top.
* A partition of an accumulator whose path is the beginning of another's hides it: its node
  is reported and the partitions below are not visited, so that their aggregates are never
  sent.  It takes messages that lack some of the partition tags.
* A zip of `FileAppendBolt` that runs over the end of a period makes it lose data.  The next
  file is named by the end of the zip (`file_append_bolt.ts:151`, `:184`), but is due again
  one period after its beginning (`:186`), which is within the period of its name.  After that
  split the same name is used once more: data are appended to a file that an overlapping
  call still zips, or has found before, and its `unlink` (`:257`) deletes them.  The files that a shutdown
  zips are looked for under the last name only, so that one which an older call left may stay
  behind.  `NothingLost` and `ShutdownSaves` except exactly these names (`late_names`), the
  former only for data that came while their file was zipped (`overtaken`).
* The command line calls `run`'s callback without an error whatever happened
  (`command_line.ts:17`): `clear-topology-error` of a topology that is not in error makes one
  call, of its three or four, and ends as if it had cleared it.  `CallsArrive` is about callers that got no
  error and whose command logged none.
* A write that fails in a CSV append loses its lines; an error that is not
  propagated lets the shutdown of `FileAppendBolt` succeed all the same.

## 6. Proofs

`MemoryStorageProofs` proves, for any set of workers and topologies and any
time-outs in the assumed order, that `StorageSpec` implies `TypeOK`,
`AtMostOneLeader`, `LiveLeaderKeepsOffice`, `HistoryIsCurrent`,
`ActiveHasWorker`, `MessagesHaveAddressee` and `MessagesInOrder`.

Assumptions: workers are numbers (the code orders their names), `NoWorker` is
not one, `LeaderTimeout < WorkerTimeout < MaxAge`, and sent messages have the
type of messages.

The argument: `StorageInvariant` is the conjunction of the types, at most one
leader, current histories, and workers for active topologies.  It is inductive
as a whole.  "At most one leader" is inductive without any fact about
candidates: only `CheckLeaderCandidacy` makes a leader, and only when no other
worker is recorded as one.  An active topology has a worker because statuses
change to waiting only with a worker, and a report with no worker is only ever
accepted with `unassigned` or `error`.  That stops are never addressed to null
follows, as they are only sent for running topologies, after that.
`MessagesInOrder` is about the messages that are still valid, which `ValidIn` picks from
a queue by recursion on its length: nothing before the message that is taken is valid
(`WithoutFirst`), so what is left is the tail (`TakesFirst`).

`TopologyLocalProxyProofs` proves, for any numbers of calls, any signals and any
failures, that `ProxySpec` implies `ProxyTypeOK` and `AnsweredOnce`, and the
safety part of the contract, `Contract!ContractSpec`.  The invariant is the
conjunction of the two properties: types, and for each method "asked = told +
kept" with nothing kept after the exit was reported.  The last part is what
makes the refinement go through: an answer that comes after the report finds no
callback and is a stutter of the contract.  Every step of the child alone is
the contract's `Die` or a stutter; the worker's calls are `Ask`s or stutters.

It proves `QuietEnd` too, under four hypotheses, those of the run: nothing fails
(`Failures = {}`), exits come after the messages sent before (`~ExitOvertakes`), and
the worker runs a topology at most once and does not pause it, as `TopologyWorker`
does.  Shutdowns and kills are as many as one likes.  `QuietInv` says that an error is
either excused, by a signal to a child that had no topology yet (`Excused`, which stays
so), or there is none anywhere (`Orderly`): not kept, not in a message on its way, not
in the exit code.  For that, `Ordered` follows the commands on their way (the child is
initialized first and told to run when it does not run yet; any other order is answered
with an error), and `Answered` a shutdown: a child that exits well has sent its answer,
so the exit, which comes after it, finds nobody waiting.

`TopologyLeaderProofs` proves that `LeaderSpec` implies `AtMostOneLeader` and
`ActiveHasWorker`, for any number of workers and topologies and any disruptions.
The loops act on what they read earlier, so the storage's invariant is not
enough: `LeaderInv` adds what must hold of the memory of a process.  Every call
it has still to make assigns a topology only to a real worker (`GoodCall`), the
workers it took for alive are workers, and `clearTopologyError` assigns only when
it found the worker.  What was read may be as old as it likes.  Each step is then
either a call of the storage, for which the lemmas of `MemoryStorageProofs` are
cited, or a change of that memory, for which `GoodLoops` and its kin are.

It proves four more properties from there, each with what it adds to `LeaderInv`:

* `LeaderTypeOK`, with `LoopTypes`: whatever a loop remembers of the topologies is a
  set of records that have a worker when waiting or running, as the storage's
  have.  Without that, the calls made of what was read would be of any form.
* `RecordedLeaderServes`, with `ServesOrReleases` of each worker.  Nobody becomes
  recorded leader but by its own call (`NoNewLeader`, for every step of any other
  process), and the worker looks at what came of it; each way to stop leading makes
  the releasing call in the same step.
* `StartsAreOwn`, with `Quiet`, which holds until the first disruption: registered
  workers are alive and ping in time, only a recorded leader has calls that assign,
  there is one such leader, and a start it has still to send is for a topology that
  is at the addressee, at nobody, or whose assignment to the addressee comes first
  (`Precedes`).  Two hypotheses, both needed: nobody clears a topology's error
  (`Clearable = {}`), as the operator's assignment and the leader's do not exclude
  each other, and `LeaderTimeout # 0`, without which a leader is deposed within the
  second of its last ping.
* `UnloadedIsEmpty`, with `CrashIsHandled`, for one crash at most and whenever the crashed
  worker comes back.  Until it comes back while calls about its death are under way,
  `Calm` holds: workers that are up
  are alive and ping in time, so that only one loop is past its confirmation of
  leadership.  It alone asks for the topologies of a dead worker; what it has
  still to do tells how far it has come (`CalmCall`): while the worker is dealt with
  it is recorded as dead and was not seen alive in this pass (`DealsWith`), and once
  the answer has come, every topology that is active there has its `unassign` among
  the calls to be made before the worker is pronounced unloaded.  Assignments are
  made in a later part of the pass, and to workers seen alive.  Beside it `OneTouched`
  says that the worker which is down, or about which there are calls, is the only one.
  When that one registers before the calls are made, `AllBack` takes over: every recorded
  worker is up and recorded as alive, or as unloaded until it looks at its record.  A
  topology that runs on a worker which late calls pronounce unloaded is then on a process
  that serves it, which `UnloadedIsEmpty` allows.  What is to be shown is that
  it stays so: that nobody goes down again.  Nobody crashes any more; a loop would fail over a record
  that is gone, but records are deleted of workers that are not up only; and a loop that stands
  for the office is one whose record is alive and not about to be pronounced dead, as
  whoever makes the late calls is the recorded leader (`Mourning`) and keeps the office.
  The hypotheses are `Disruptions \subseteq {"crash"}`, `MaxDisruptions <= 1`, and
  `Clearable = {}` and `LeaderTimeout # 0` as above.  With two crashes the property
  does not hold: a worker may come back between the answer and its being pronounced unloaded,
  report a topology as running, and crash again.  `CrashIsHandled` was model-checked with two
  workers and a topology before it was proved.

`TopologyWorkerProofs` proves `ChildrenAreListed`, `WorkerTypeOK` and the storage's
`MessagesHaveAddressee`, `ActiveHasWorker` and `HistoryIsCurrent` for
`WorkerSpec`, for any sets of proxies and topologies, any orders and any failures.
`ChildInv` adds to it that a child whose exit was reported is not alive: without this,
`ensureExit`, which leaves children with a reported exit alone, could take a living one
off the list. A start is only made for a topology that is not in the list (`MayStart`)
and with a proxy that is new; whatever else touches the list is `RemoveTopology`, which
ends what it removes. `WorkerInv` is for the other two: the storage's invariant, the
types of the coordinator's state, and those of the reports on their way. Each report
that arrives is a call of the storage, for which the lemmas of `MemoryStorageProofs` are
cited; what has to be shown is that every report there can be is one the storage takes:
a worker reports a status of a topology of its own, and without a worker only
`unassigned` or `error`. Assumptions: `WorkerIsNamed`, the bounds' types, and that there
are finitely many topologies, as several reports made at once are put in an order.

`TopologyLocalProofs` proves all safety properties of `local`: `LocalTypeOK`,
`OneAtATime`, `AcksAreComplete`, `QueuesMove` and `BoltsFinishFirst`, for any
graph of nodes, any parallel bolts and failures, and any number of loops.
None of them is inductive; `LocalInv` relates the wrapper's counter to the calls,
and the calls to each other:

* `Counts`: `inSend` is at least the number of data a bolt works on, and equal to
  it unless the bolt has failed.  A failed bolt keeps what its error left over.
* `Queued`: what waits at a bolt are different calls of that bolt, and pending.
* `Awaited`: unless the bolt failed, something is queued, or its shutdown waits,
  only while `inSend` is above zero.  With `Counts`, this is `QueuesMove`.
* `Chained`: along the path of each call, every bolt that passed the datum on has
  still to answer, and waits for the next call of the path, or has failed; so does
  the loop at its root.  This is what keeps an acknowledgement from overtaking what
  follows from its datum, and a name of a call from being used again while the old
  call is under way: each step of `LastAnswer` answers a call that nothing waits
  for, and stops where something does.

Assumption: the orders of spouts and bolts are sequences of them.

`NodesProofs` is about the nodes of `MCNodes` whose state matters more than what they
compute. Of the file bolts it proves `NothingLost`, `ShutdownSaves` and
`ArchivedInPeriod`, for any values, data, buckets and times, for as many overlapping
calls as one likes and for any failures. `AppendInv` says of `FileAppendBolt` that the
files on the disk are those of the current period with a value in `split_value` (what
`zipCurrentFile` looks for) and that a call which waits has all remaining files among its
zips, unless it has failed or another call has begun the new file: both as long as no file
was named late (`InTime`).  Whether or not one was, a zip under way has read all that is in
its file but for what has overtaken it (`GoodZip`), and overtaken are only data of files
that were named late: any other file that is being zipped is one that is due, to which no
call writes (`PeriodsMatch`). `CsvInv` counts the places of each line. `BucketInv` says of
`FileAppendBoltEx` that each bucket has one current file, to which nothing is written
while it is closed, and whose data and timestamps are those of its period. Assumption:
at most three values, as `zipCurrentFile` zips three files at a time.

Of the other nodes it proves, for any values of their constants:
`TasksAreSpaced` (the next due time is `RepeatAfter` after every start),
`RestarterObeys` (the restarter is paused after a stop until a start, and one timer
or process is left unless it gave up), `QueueStaysBounded` (for the file
spout, lines on their way and in the queue are bounded together; for the REST
spout, requests and the queue) and `EmittedInOrder`.  Behind the last is `EmitIInv`:
the numbers made are divided, without repetition, among what was handed on, what
waits in the queue, the bodies of REST requests still to be queued, and what is gone.

Of the front ends it proves `CallsArrive`, for any number of commands under way at
once, over HTTP or not.  `Good` says of one command how what it has to do, its request,
what arrived and its answer fit together: what is to be done is the rest of its calls, and
what arrived is one call ahead of that while a handled request waits for its
answer, and may be when the request was refused after it had reached the storage. What
comes before is about the calls there are: the server hands every call of a front end on
as one call with the same worker and topology, except for the two in `Misread`
(`SimpleIsPassedOn`), and what it makes of those that only `HttpStorage` has is what the
dashboard would make (`ServerMakesTheSame`).

`Recursion` is what the proofs about computations rest on.  The library's theorems about
induction and recursive functions take an operator as a parameter, which the provers cannot
instantiate; those here take a set and a function instead: `InductionSet` for
induction on the set of numbers that have the property, and `RecursionExists` for a function
whose value at n + 1 is a step `s` from the one at n, with `s` a function too.  Each
recursive function of the models is first shown to be such a function.

`AlgorithmsProofs` proves the four properties of what nodes and leader compute:

* `RebalanceSettles` and `MovesEvenTheLoad` of the load balancer, for any numbers of workers
  and topologies, any weights, affinities and orders of events.  `BalanceIInv` says that the
  topologies are placed at workers that are alive or wait, and that after a rebalance
  another one changes nothing.  That it settles rests on one fact: the near optimal placement
  forgets where the topologies were before (`NearOptimalForgets`), so that what it gives is
  its own near optimum, with equal loads, which are not uneven (`EqualLoadsAreEven`).  The
  spread is an invariant of the greedy placement: each topology goes where the load is least,
  so that two loads never differ by more than the weight of one of them.
* `CompilerResolves`, for any numbers of variables, texts and nodes.  Injecting a variable
  replaces its first occurrence; where it occurs at most once and its value refers to none
  that is injected later, this is substitution (`MeaningIsSubstituted`), and injecting all
  variables in their order leaves what the text means.
* `AggregatesAreComplete`, for any messages, granularity and orders of calls and answers.
  `AccIInv` says that each record of the tree is the statistics of a set of messages
  (`IsRecOf`): those of the period being counted that carry the path's partition and at least
  its tags.  That a message visits each set of its tags exactly once (`Visited`) makes its
  counting keep that (`Counts`), and what waits to be sent is complete (`Ready`).
  The hypothesis is `PartitionsApart`: no message's partition tags are the beginning of
  another's.  The messages of the run satisfy it, and without it the property does not hold
  (section 5).

For these proofs the models use recursive functions rather than recursive operators, and
trees are functions from the paths of their nodes.

Model-checked only:

* all liveness, as fairness and ENABLED are beyond the prover: `LeadershipSettles`,
  `UnassignedAreAssigned`, `MismatchesAreResolved`, `ShutdownEnds`, `ShutdownAnswers`,
  `Drains`, and the liveness part of `ProxyContract`;
* `MessagesInOrder` of the worker: the theorem is about the storage, whose `getMessage`
  the worker calls.

## 7. Not modelled

The notes in `PROJECT.json`, "components", say it for each part:

* `FileStorage` is a `MemoryStorage` that registers what it finds in a directory.
* Stateless bolts: one message in, at most one out.
* Comment stripping, cron and file patterns, telemetry sums: functions of texts or
  numbers without state between calls.
* JSON schema validation, which a library does; logging; serving pages; HTTP
  itself; reading and watching files; compressing.
* The adapters that turn promises of asynchronous nodes into callbacks.
* Configurations, weights (except in `LoadBalancer`), error texts and pids in the
  storage.
