-------------------------- MODULE StorageFrontends --------------------------
(***************************************************************************)
(* The ways to the coordination storage: CommandLineHandler                *)
(* (cli/command_line.ts), DashboardServer (gui/dashboard_server.ts), and   *)
(* HttpStorage, which posts each call to the server of                     *)
(* http_storage_server.ts.  A command makes its calls in series, and the   *)
(* first error ends it; over HTTP a request or its answer may be lost.     *)
(* Commands are named by the method they stand for.  What a front end      *)
(* answers by itself (help, display-data, getProperties) is left out.      *)
(***************************************************************************)
EXTENDS Naturals, Sequences

CONSTANT MaxCommands   \* bound: commands issued

ASSUME FrontendsAssumption == MaxCommands \in Nat

VARIABLES
  over_http,   \* the storage is an HttpStorage
  commands,    \* what was issued: the front end, the command and its calls
  todo,        \* for each command, the calls it has not finished
  request,     \* over HTTP, its request: "none", "sent", "handled", "refused"
  arrived,     \* the calls the MemoryStorage has got from it
  answers      \* "none", "ok", "error", or "logged": an error that is only logged

frontend_vars == <<over_http, commands, todo, request, arrived, answers>>

---------------------------------------------------------------------------
(* The calls.  Each has a worker, a topology, both or none.                *)

Call(op, worker, uuid, what) == [op |-> op, worker |-> worker, uuid |-> uuid, what |-> what]

OnWorker(op) == Call(op, "w", "null", "")
OnTopology(op) == Call(op, "null", "t", "")
Plain(op) == Call(op, "null", "null", "")
Send(cmd) == Call("sendMessageToWorker", "w", "null", cmd)

\* TopologyLeader.clearTopologyError: back to the worker if that is alive.  A
\* topology that is not in error ends it after the first call.
ClearCalls(alive_worker) ==
  IF alive_worker
  THEN <<OnTopology("getTopologyInfo"), Plain("getWorkerStatus"),
         Call("assignTopology", "w", "t", ""), Send("start_topology")>>
  ELSE <<OnTopology("getTopologyInfo"), Plain("getWorkerStatus"),
         Call("setTopologyStatus", "null", "t", "unassigned")>>

\* Reads, of which the first two apply the storage's time-outs.
Reads ==
  {<<c.op, <<c>>>> : c \in {Plain("getWorkerStatus"), Plain("getTopologyStatus"),
                           OnTopology("getTopologyInfo")}}

Histories ==
  {<<c.op, <<c>>>> : c \in {OnTopology("getTopologyHistory"), OnWorker("getWorkerHistory"),
                           Plain("getMsgQueueContent")}}

Clears == {<<"clearTopologyError", ClearCalls(a)>> : a \in BOOLEAN}

CommandLine ==
  {<<op, <<OnTopology(op)>>>> :
     op \in {"registerTopology", "enableTopology", "disableTopology", "stopTopology"}}
  \cup Reads \cup Clears
  \cup {<<"setTopologyError", <<Call("setTopologyStatus", "null", "t", "error")>>>>,
        <<"shutDownWorker", <<Send("shutdown")>>>>}

Dashboard ==
  {<<op, <<OnTopology(op)>>>> :
     op \in {"registerTopology", "enableTopology", "disableTopology", "stopTopology",
             "killTopology"}}
  \cup Reads \cup Histories \cup Clears
  \cup {<<"deleteWorker", <<OnWorker("deleteWorker")>>>>,
        <<"shutDownWorker", <<Send("shutdown")>>>>,
        <<"enableWorker", <<Send("set_enabled")>>>>,
        <<"disableWorker", <<Send("set_disabled")>>>>,
        <<"rebalanceLeader", <<Send("rebalance")>>>>}

\* The calls workers and leaders make.
WorkerCalls ==
  {OnWorker(op) : op \in {"getMessages", "getMessage", "getTopologiesForWorker",
     "registerWorker", "pingWorker", "announceLeaderCandidacy", "checkLeaderCandidacy"}}
  \cup {Call(op, "w", "null", "status") : op \in {"setWorkerStatus", "setWorkerLStatus"}}
  \cup {Call("assignTopology", "w", "t", ""), Call("setTopologyStatus", "w", "t", "running"),
        Call("setTopologyPid", "null", "t", "pid"), Send("stop_topology"),
        Plain("getWorkerStatus"), Plain("getTopologyStatus"), OnTopology("getTopologyInfo")}

---------------------------------------------------------------------------
(* HttpStorage and its server.                                             *)

\* The calls whose worker HttpStorage puts into "name", the others into "worker".
SentAsName == {"checkLeaderCandidacy", "assignTopology", "setWorkerStatus",
               "setWorkerLStatus", "deleteWorker", "shutDownWorker", "getWorkerHistory"}

\* Fault: the server looks for the name of the worker where the other calls have
\* it (breaks CallsArrive).
ReadAsNameOnce == {"setWorkerStatus", "deleteWorker", "shutDownWorker", "getWorkerHistory"}

\* The calls whose worker the server takes from "name", the others from "worker".
ReadAsName == {"setWorkerStatus", "setWorkerLStatus", "deleteWorker", "shutDownWorker",
               "getWorkerHistory"}

\* The server has no handler for it.
Unknown == {"pingWorker"}

Received(call) ==
  [call EXCEPT !.worker =
     IF @ # "null" /\ (call.op \in SentAsName) # (call.op \in ReadAsName)
     THEN "undefined" ELSE @]

\* Two methods that only HttpStorage has: the server makes the calls.
HttpOnly == {OnTopology("clearTopologyError"), OnWorker("shutDownWorker"),
             OnTopology("deleteTopology")}

ServerCalls(call) ==
  CASE call.op = "clearTopologyError" -> {ClearCalls(a) : a \in BOOLEAN}
    [] call.op = "shutDownWorker" -> {<<[Send("shutdown") EXCEPT !.worker = Received(call).worker]>>}
    [] OTHER -> {<<Received(call)>>}

\* The methods of the MemoryStorage that may call back with an error: there is no
\* such topology, or the worker is not there or not unloaded.
MayRefuse == {"getTopologyInfo", "checkLeaderCandidacy", "deleteWorker"}

---------------------------------------------------------------------------
FrontendInit ==
  /\ over_http \in BOOLEAN
  /\ commands = << >> /\ todo = << >> /\ request = << >> /\ arrived = << >> /\ answers = << >>

\* A front end, its command, and the calls that make it.
Commands ==
  {<<"command line", c>> : c \in CommandLine} \cup {<<"dashboard", c>> : c \in Dashboard}
  \cup {<<"worker", <<c.op, <<c>>>>>> : c \in WorkerCalls}
  \cup (IF over_http THEN {<<"http", <<c.op, <<c>>>>>> : c \in HttpOnly} ELSE {})

Issue ==
  /\ Len(commands) < MaxCommands
  /\ \E c \in Commands :
       /\ commands' = Append(commands, [by |-> c[1], name |-> c[2][1], calls |-> c[2][2]])
       /\ todo' = Append(todo, c[2][2])
  /\ request' = Append(request, "none")
  /\ arrived' = Append(arrived, << >>)
  /\ answers' = Append(answers, "none")
  /\ UNCHANGED over_http

\* The first call of those it has to do is done.
Proceeds(id) ==
  /\ todo' = [todo EXCEPT ![id] = Tail(@)]
  /\ answers' = IF Len(todo[id]) = 1 THEN [answers EXCEPT ![id] = "ok"] ELSE answers

\* An error ends the command; the command line calls back without it.
Fails(id) ==
  /\ todo' = [todo EXCEPT ![id] = << >>]
  /\ answers' = [answers EXCEPT ![id] =
       IF commands[id].by = "command line" THEN "logged" ELSE "error"]

\* clearTopologyError looks at the topology it got.
NotInError(id) ==
  commands[id].name = "clearTopologyError" /\ todo[id][1].op = "getTopologyInfo"

CallsDirectly(id) ==
  /\ ~over_http /\ todo[id] # << >>
  /\ arrived' = [arrived EXCEPT ![id] = Append(@, todo[id][1])]
  /\ \/ Proceeds(id)
     \/ (todo[id][1].op \in MayRefuse \/ NotInError(id)) /\ Fails(id)
  /\ UNCHANGED <<over_http, commands, request>>

Posts(id) ==
  /\ over_http /\ todo[id] # << >> /\ request[id] = "none"
  /\ request' = [request EXCEPT ![id] = "sent"]
  /\ UNCHANGED <<over_http, commands, todo, arrived, answers>>

\* The server makes its calls, up to one that is refused.
Handles(id) ==
  /\ request[id] = "sent"
  /\ \/ /\ todo[id][1].op \in Unknown
        /\ request' = [request EXCEPT ![id] = "refused"] /\ UNCHANGED arrived
     \/ /\ todo[id][1].op \notin Unknown
        /\ \E calls \in ServerCalls(todo[id][1]) :
             \/ /\ request' = [request EXCEPT ![id] = "handled"]
                /\ arrived' = [arrived EXCEPT ![id] = @ \o calls]
             \/ /\ calls[1].op \in MayRefuse
                /\ request' = [request EXCEPT ![id] = "refused"]
                /\ arrived' = [arrived EXCEPT ![id] = Append(@, calls[1])]
  /\ UNCHANGED <<over_http, commands, todo, answers>>

AnswerComes(id) ==
  /\ request[id] \in {"handled", "refused"}
  /\ \/ request[id] = "handled" /\ Proceeds(id)
     \/ (request[id] = "refused" \/ NotInError(id)) /\ Fails(id)
  /\ request' = [request EXCEPT ![id] = "none"]
  /\ UNCHANGED <<over_http, commands, arrived>>

\* The connection breaks, before the server or after it.
ConnectionBreaks(id) ==
  /\ request[id] # "none"
  /\ Fails(id)
  /\ request' = [request EXCEPT ![id] = "none"]
  /\ UNCHANGED <<over_http, commands, arrived>>

FrontendNext ==
  \/ Issue
  \/ \E id \in DOMAIN commands :
       CallsDirectly(id) \/ Posts(id) \/ Handles(id) \/ AnswerComes(id) \/ ConnectionBreaks(id)

FrontendSpec == FrontendInit /\ [][FrontendNext]_frontend_vars

---------------------------------------------------------------------------
(* Properties.                                                             *)

\* Over HTTP the server does not find the worker in these calls.
Misread == {"checkLeaderCandidacy", "assignTopology"}

IsWhatWasMeant(call, meant) ==
  IF over_http /\ meant.op \in Misread
  THEN call = [meant EXCEPT !.worker = "undefined"]
  ELSE call = meant

\* What the storage gets of a command made of its calls is a beginning of these, in
\* their order and each once, with the worker and the topology they were made
\* with, except for the calls above; it is all of them when the front end has
\* called back without an error and, at the command line, has logged none, whatever
\* requests and answers were lost or refused.  A command that the server itself turns
\* into calls gives the same ones there as from the dashboard.
CallsArrive ==
  \A id \in DOMAIN commands :
    LET c == commands[id]
        got == arrived[id]
    IN  /\ c.by # "http" =>
             /\ Len(got) <= Len(c.calls)
             /\ \A i \in DOMAIN got : IsWhatWasMeant(got[i], c.calls[i])
             /\ answers[id] = "ok" => Len(got) = Len(c.calls)
             /\ answers[id] = "none" =>
                  Len(got) - (Len(c.calls) - Len(todo[id])) \in 0..1
        /\ c.by = "http" /\ answers[id] = "ok" =>
             <<c.name, got>> \in Dashboard \cup {<<"deleteTopology", c.calls>>}
=============================================================================
