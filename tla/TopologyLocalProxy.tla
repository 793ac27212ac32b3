------------------------- MODULE TopologyLocalProxy -------------------------
(***************************************************************************)
(* The proxy of a topology in its worker (topology_local_proxy.ts),        *)
(* together with the child process.  The worker may call anything at any   *)
(* time after init; it drops a proxy whose exit was reported.              *)
(***************************************************************************)
EXTENDS TopologyLocalWrapper

CONSTANTS
  MaxCalls,       \* bound on the calls of each method
  ExitOvertakes   \* the event "exit" may come before the child's last messages

Cmd == ChildCmd
Method == Cmd \cup {"kill"}

ASSUME CallsAreBounded ==
  MaxCalls \in [Method -> Nat] /\ ExitOvertakes \in BOOLEAN

VARIABLES
  cb,              \* init_cb, run_cb, pause_cb, shutdown_cb: see Callback
  received_shutdown_response, has_exited, last_child_err,
  killed,          \* child.killed
  killing,         \* timers that will call back kill
  listening,       \* onExit was not called
  delivered,       \* which of the events "exit" and "close" were handled
  asked, told,     \* calls of a method, and of the callbacks it was given
  errors,          \* commands whose kept callback was called with an error
  exit_err         \* child_exit_callback was called with an error

call_vars == <<asked, told, errors>>
proxy_vars ==
  <<cb, received_shutdown_response, has_exited, last_child_err, killed,
    killing, listening, delivered, call_vars, exit_err>>
vars == <<parent, pinging, channel_vars, wrapper_vars, proxy_vars>>

\* null, a callback of a caller, or one that does nothing.
Callback == {"null", "caller", "noop"}

ProxyInit ==
  /\ WrapperInit
  /\ parent = TRUE /\ pinging = FALSE
  /\ to_child = << >> /\ to_parent = << >>
  /\ cb = [c \in Cmd |-> "null"]
  /\ received_shutdown_response = FALSE /\ has_exited = FALSE
  /\ last_child_err = FALSE /\ killed = FALSE /\ killing = 0
  /\ listening = TRUE /\ delivered = {}
  /\ asked = [m \in Method |-> 0] /\ told = [m \in Method |-> 0]
  /\ errors = {} /\ exit_err = FALSE

---------------------------------------------------------------------------
(* Calls of the worker.                                                    *)

Waiting == {c \in Cmd : cb[c] = "caller"}

\* A shutdown after the end is provided for when the child had answered one.
Called(m) ==
  /\ parent /\ asked[m] < MaxCalls[m]
  /\ \/ listening
     \/ m = "shutdown" /\ received_shutdown_response
  /\ asked' = [asked EXCEPT ![m] = @ + 1]

CallBackAtOnce(m) == told' = [told EXCEPT ![m] = @ + 1]

Send(cmd) ==
  to_child' = IF Running THEN Append(to_child, cmd) ELSE to_child

Keep(cmd) == cb' = [cb EXCEPT ![cmd] = "caller"]

Init ==
  /\ Called("init")
  /\ IF cb["init"] # "null" \/ proc # "none"
     THEN /\ CallBackAtOnce("init")
          /\ UNCHANGED <<pinging, to_child, wrapper_vars, cb>>
     ELSE /\ Fork /\ pinging' = TRUE
          /\ Keep("init") /\ to_child' = <<"init">>
          /\ UNCHANGED told
  /\ UNCHANGED <<parent, to_parent, received_shutdown_response, has_exited,
                 last_child_err, killed, killing, listening, delivered, errors,
                 exit_err>>

\* run and pause.
Switch(cmd) ==
  /\ proc # "none" /\ Called(cmd)
  /\ IF cb[cmd] # "null"
     THEN CallBackAtOnce(cmd) /\ UNCHANGED <<to_child, cb>>
     ELSE Keep(cmd) /\ Send(cmd) /\ UNCHANGED told
  /\ UNCHANGED <<parent, pinging, to_parent, wrapper_vars,
                 received_shutdown_response, has_exited, last_child_err, killed,
                 killing, listening, delivered, errors, exit_err>>

\* A child that has answered already is not asked again.
ShutdownCall ==
  /\ proc # "none" /\ Called("shutdown")
  /\ \/ /\ cb["shutdown"] # "null"
        /\ CallBackAtOnce("shutdown") /\ UNCHANGED <<to_child, cb>>
     \/ /\ cb["shutdown"] = "null" /\ received_shutdown_response
        /\ CallBackAtOnce("shutdown")
        /\ cb' = [cb EXCEPT !["shutdown"] = IF has_exited THEN "noop" ELSE @]
        /\ UNCHANGED to_child
     \/ /\ cb["shutdown"] = "null" /\ ~received_shutdown_response
        /\ Keep("shutdown") /\ Send("shutdown") /\ UNCHANGED told
  /\ UNCHANGED <<parent, pinging, to_parent, wrapper_vars,
                 received_shutdown_response, has_exited, last_child_err, killed,
                 killing, listening, delivered, errors, exit_err>>

\* What kill does to a child, when the proxy counts it as exited or not.
\* One that is gone without the proxy's knowledge is not marked.
SendKill(exited) ==
  /\ IF Running /\ ~killed /\ ~exited
     THEN killed' = TRUE /\ Exits("signal")
     ELSE UNCHANGED <<killed, proc, exit_code>>
  /\ UNCHANGED <<topology_vars, watching, exiting, signals>>

Kill ==
  /\ Called("kill")
  /\ IF proc = "none" \/ killed \/ has_exited
     THEN CallBackAtOnce("kill") /\ UNCHANGED killing
     ELSE killing' = killing + 1 /\ UNCHANGED told
  /\ SendKill(has_exited)
  /\ UNCHANGED <<parent, pinging, channel_vars, cb, received_shutdown_response,
                 has_exited, last_child_err, listening, delivered, errors,
                 exit_err>>

\* Fault: the timer is not cleared (breaks ProxyTypeOK).
KillTimerAgain ==
  /\ parent /\ asked["kill"] > 0
  /\ killing' = killing - 1 /\ CallBackAtOnce("kill")
  /\ UNCHANGED <<parent, pinging, channel_vars, wrapper_vars, cb,
                 received_shutdown_response, has_exited, last_child_err, killed,
                 listening, delivered, asked, errors, exit_err>>

\* 50 ms later.
KillTimer ==
  /\ parent /\ killing > 0
  /\ killing' = killing - 1 /\ CallBackAtOnce("kill")
  /\ UNCHANGED <<parent, pinging, channel_vars, wrapper_vars, cb,
                 received_shutdown_response, has_exited, last_child_err, killed,
                 listening, delivered, asked, errors, exit_err>>

---------------------------------------------------------------------------
(* Events of the child.                                                    *)

\* Fault: the callback is kept (breaks AnsweredOnce).
CallBackAndKeep(cmd, err) ==
  /\ told' = [told EXCEPT ![cmd] = @ + (IF cb[cmd] = "caller" THEN 1 ELSE 0)]
  /\ errors' = IF err /\ cb[cmd] = "caller" THEN errors \cup {cmd} ELSE errors
  /\ cb' = cb

CallBack(cmd, err) ==
  /\ told' = [told EXCEPT ![cmd] = @ + (IF cb[cmd] = "caller" THEN 1 ELSE 0)]
  /\ errors' = IF err /\ cb[cmd] = "caller" THEN errors \cup {cmd} ELSE errors
  /\ cb' = [cb EXCEPT ![cmd] = "null"]

Receive ==
  /\ parent /\ to_parent # << >>
  /\ to_parent' = Tail(to_parent)
  /\ LET msg == Head(to_parent)
     IN  /\ last_child_err' = (last_child_err \/ msg.err)
         /\ received_shutdown_response' =
              (received_shutdown_response \/ msg.cmd = "shutdown")
         /\ IF msg.cmd = "error" THEN UNCHANGED <<cb, told, errors>>
            ELSE CallBack(msg.cmd, msg.err)
  /\ UNCHANGED <<parent, pinging, to_child, wrapper_vars, has_exited, killed,
                 killing, listening, delivered, asked, exit_err>>

\* Fault: a pending run is forgotten (breaks the contract).
OnExitButRun(e) ==
  /\ listening' = FALSE /\ pinging' = FALSE
  /\ told' = [m \in Method |->
                told[m] + IF m \in Waiting \ {"run"} THEN 1 ELSE 0]
  /\ errors' = errors \cup Waiting
  /\ cb' = [c \in Cmd |-> IF c = "run" THEN cb[c] ELSE "null"]
  /\ exit_err' = e

\* onExit: whatever waits is called back with an error, then the exit is
\* reported.
OnExit(e) ==
  /\ listening' = FALSE /\ pinging' = FALSE
  /\ told' = [m \in Method |-> told[m] + IF m \in Waiting THEN 1 ELSE 0]
  /\ errors' = errors \cup Waiting
  /\ cb' = [c \in Cmd |-> "null"]
  /\ exit_err' = e

OnExitUnlessCalled(e) ==
  IF listening THEN OnExit(e)
  ELSE UNCHANGED <<listening, pinging, told, errors, cb, exit_err>>

\* The events "exit" and "close", which comes last of all.
ExitEvent ==
  /\ parent /\ proc = "exited"
  /\ \/ /\ delivered = {}
        /\ ExitOvertakes \/ to_parent = << >>
        /\ delivered' = {"exit"}
     \/ /\ delivered = {"exit"} /\ to_parent = << >>
        /\ delivered' = {"exit", "close"}
  /\ has_exited' = TRUE
  /\ OnExitUnlessCalled(last_child_err \/ exit_code = "failed")
  /\ UNCHANGED <<parent, channel_vars, wrapper_vars, received_shutdown_response,
                 last_child_err, killed, killing, asked>>

\* The event "error": a message could not be sent.
ErrorEvent ==
  /\ parent /\ proc # "none" /\ "channel" \in Failures
  /\ has_exited' = TRUE
  /\ OnExitUnlessCalled(TRUE)
  /\ SendKill(has_exited')
  /\ UNCHANGED <<parent, channel_vars, received_shutdown_response,
                 last_child_err, killing, delivered, asked>>

\* Too many pings were not answered.
GiveUpOnChild ==
  /\ parent /\ pinging /\ "silence" \in Failures
  /\ last_child_err' = TRUE
  /\ SendKill(has_exited)
  /\ UNCHANGED <<parent, pinging, channel_vars, cb, received_shutdown_response,
                 has_exited, killing, listening, delivered, call_vars, exit_err>>

\* The worker's process ends, and the channel with it.
ParentDies ==
  /\ parent /\ "parent" \in Failures
  /\ parent' = FALSE
  /\ UNCHANGED <<pinging, channel_vars, wrapper_vars, proxy_vars>>

ProxyStep == KillTimer \/ Receive \/ ExitEvent
WorkerCalls ==
  Init \/ Switch("run") \/ Switch("pause") \/ ShutdownCall \/ Kill

ProxyNext ==
  \/ WorkerCalls
  \/ ProxyStep \/ ErrorEvent \/ GiveUpOnChild \/ ParentDies
  \/ WrapperStep /\ UNCHANGED proxy_vars

ProxySpec == ProxyInit /\ [][ProxyNext]_vars

\* Events are delivered and timers run, in both processes; the nodes finish to
\* initialize and to shut down.  A child that nobody pings finds out.
ProxyFairness ==
  /\ WF_vars(Receive) /\ WF_vars(ExitEvent) /\ WF_vars(KillTimer)
  /\ WF_vars(Handle /\ UNCHANGED proxy_vars)
  /\ WF_vars(InitDone /\ UNCHANGED proxy_vars)
  /\ WF_vars(ShutdownDone /\ UNCHANGED proxy_vars)
  /\ WF_vars(Exit /\ UNCHANGED proxy_vars)
  /\ WF_vars(Abandoned /\ GiveUpOnParent /\ UNCHANGED proxy_vars)
FairProxySpec == ProxySpec /\ ProxyFairness

---------------------------------------------------------------------------
(* Properties.                                                             *)

\* Type invariant of the proxy and the process.
ProxyTypeOK ==
  /\ WrapperTypeOK
  /\ cb \in [Cmd -> Callback]
  /\ received_shutdown_response \in BOOLEAN /\ has_exited \in BOOLEAN
  /\ last_child_err \in BOOLEAN /\ killed \in BOOLEAN /\ killing \in Nat
  /\ listening \in BOOLEAN /\ delivered \subseteq {"exit", "close"}
  /\ asked \in [Method -> Nat] /\ told \in [Method -> Nat]
  /\ errors \subseteq Cmd /\ exit_err \in BOOLEAN

\* A callback that a method was given is called once, or is still kept; none is
\* kept once the exit was reported.  Answers, exits, failed sends and repeated
\* calls compete for the same callbacks.
Kept(m) ==
  IF m = "kill" THEN killing ELSE IF cb[m] = "caller" THEN 1 ELSE 0
AnsweredOnce ==
  /\ \A m \in Method : asked[m] = told[m] + Kept(m)
  /\ ~listening => Waiting = {}

\* The proxy implements the contract, with its promises of progress.
Contract == INSTANCE ChildContract WITH
  pending <- Waiting,
  life <- IF proc = "running" THEN "alive"
          ELSE IF proc = "exited" THEN "gone" ELSE "none",
  reported <- ~listening
ProxyContract == Contract!FairContract

\* If nothing goes wrong, the end of a topology is not reported as an error,
\* whoever stopped it and how often (a signal to the child, its parent, both or
\* a kill), and no shutdown fails, except when a signal came before the child
\* knew its topology, or the child was killed before it had finished.
QuietEnd ==
  /\ exit_err => signals # {} /\ exiting = "failed"
  /\ "shutdown" \in errors => exit_code = "signal" \/ exiting = "failed"

\* "All of these are considered as bad state and we need to exit": the child
\* that had an error event is killed.
ErrorsKill == has_exited => killed \/ proc = "exited"
=============================================================================
