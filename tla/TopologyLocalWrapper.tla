------------------------ MODULE TopologyLocalWrapper ------------------------
(***************************************************************************)
(* The child process of a topology (topology_local_wrapper.ts): what it    *)
(* does with the commands of its parent, with signals and with failures.   *)
(* Messages between the processes are kept in two queues.  A process exits *)
(* in the callback of the last message it sends, and until then it goes on *)
(* handling what comes.  The nodes of the topology are left out: they      *)
(* finish to initialize and to shut down, well or badly.  Pings are        *)
(* abstracted to the moment when one of the sides gives up on the other.   *)
(***************************************************************************)
EXTENDS Naturals, Sequences

CONSTANTS
  Signals,   \* those of SIGINT and SIGTERM that may be sent to the child
  Failures   \* what may go wrong: see Failure

Failure == {"compile", "init", "internal", "shutdown", "crash", "silence",
            "channel", "parent"}

ASSUME FailuresAreKnown ==
  Signals \subseteq {"SIGINT", "SIGTERM"} /\ Failures \subseteq Failure

VARIABLES
  parent,                \* the process of the proxy runs
  pinging,               \* the proxy's ping interval is set
  to_child, to_parent,   \* messages on their way
  proc,                  \* the process: "none", "running" or "exited"
  exit_code,             \* how it exited: see ExitCode
  topology_local,        \* init was accepted
  initializing,          \* ... and has not called back
  is_running,            \* the topology was told to run
  waiting_for_shutdown,  \* a shutdown was accepted
  stopping,              \* ... and has not called back
  watching,              \* the child's ping interval is set
  exiting,               \* a message was sent after which the process exits:
                         \*   "no" or the exit code
  signals                \* signals that were handled (process.once)

topology_vars ==
  <<topology_local, initializing, is_running, waiting_for_shutdown, stopping>>
wrapper_vars ==
  <<proc, exit_code, topology_vars, watching, exiting, signals>>
channel_vars == <<to_child, to_parent>>

ChildCmd == {"init", "run", "pause", "shutdown"}
ExitCode == {"none", "ok", "failed", "signal"}
ChildMsg == [cmd : ChildCmd \cup {"error"}, err : BOOLEAN]

WrapperInit ==
  /\ proc = "none" /\ exit_code = "none"
  /\ topology_local = FALSE /\ initializing = FALSE /\ is_running = FALSE
  /\ waiting_for_shutdown = FALSE /\ stopping = FALSE
  /\ watching = FALSE /\ exiting = "no" /\ signals = {}

Running == proc = "running"

\* sendToParent.  Nobody receives it after the parent's end.
SendToParent(cmd, err) ==
  to_parent' = IF parent THEN Append(to_parent, [cmd |-> cmd, err |-> err])
               ELSE to_parent

\* ... with a callback that exits.  The first such callback wins.
SendAndExit(cmd, err, code) ==
  /\ SendToParent(cmd, err)
  /\ exiting' = IF exiting = "no" THEN code ELSE exiting

\* killProcess with an error.
KillProcess ==
  /\ watching' = FALSE
  /\ SendAndExit("error", TRUE, "failed")

Exits(code) ==
  /\ proc' = "exited" /\ exit_code' = code

\* The process starts.
Fork ==
  /\ proc' = "running" /\ watching' = TRUE
  /\ UNCHANGED <<exit_code, topology_vars, exiting, signals>>

---------------------------------------------------------------------------
(* Commands.                                                               *)

\* A second init is refused; one that does not compile ends the process.  A
\* configuration may set the ping interval anew.
HandleInit ==
  \/ /\ topology_local
     /\ SendToParent("init", TRUE)
     /\ UNCHANGED <<topology_vars, watching, exiting>>
  \/ /\ ~topology_local
     /\ topology_local' = TRUE /\ initializing' = TRUE
     /\ watching' \in {watching, TRUE}
     /\ UNCHANGED <<to_parent, is_running, waiting_for_shutdown, stopping,
                    exiting>>
  \/ /\ ~topology_local /\ "compile" \in Failures
     /\ SendAndExit("init", TRUE, "failed")
     /\ UNCHANGED <<topology_vars, watching>>

\* run and pause: refused before init, fatal when there is nothing to do.
HandleSwitch(cmd) ==
  /\ IF ~topology_local
     THEN SendToParent(cmd, TRUE) /\ UNCHANGED <<is_running, exiting>>
     ELSE IF is_running = (cmd = "run")
          THEN SendAndExit(cmd, TRUE, "failed") /\ UNCHANGED is_running
          ELSE /\ is_running' = (cmd = "run")
               /\ SendToParent(cmd, FALSE)
               /\ UNCHANGED exiting
  /\ UNCHANGED <<topology_local, initializing, waiting_for_shutdown, stopping>>

\* Fault: a second shutdown is answered with an error (breaks QuietEnd).
ShutdownRefused ==
  \/ /\ ~topology_local
     /\ SendAndExit("shutdown", TRUE, "failed")
     /\ watching' = FALSE
     /\ UNCHANGED topology_vars
  \/ /\ topology_local /\ waiting_for_shutdown
     /\ SendToParent("shutdown", TRUE)
     /\ UNCHANGED <<topology_vars, watching, exiting>>
  \/ /\ topology_local /\ ~waiting_for_shutdown
     /\ waiting_for_shutdown' = TRUE /\ stopping' = TRUE /\ is_running' = FALSE
     /\ watching' = FALSE
     /\ UNCHANGED <<to_parent, topology_local, initializing, exiting>>

\* Without a topology the process ends with an error (exitNonInit).  A second
\* shutdown is ignored, without an answer.
Shutdown ==
  \/ /\ ~topology_local
     /\ SendAndExit("shutdown", TRUE, "failed")
     /\ watching' = FALSE
     /\ UNCHANGED topology_vars
  \/ /\ topology_local /\ waiting_for_shutdown
     /\ UNCHANGED <<to_parent, topology_vars, watching, exiting>>
  \/ /\ topology_local /\ ~waiting_for_shutdown
     /\ waiting_for_shutdown' = TRUE /\ stopping' = TRUE /\ is_running' = FALSE
     /\ watching' = FALSE
     /\ UNCHANGED <<to_parent, topology_local, initializing, exiting>>

Handle ==
  /\ Running /\ to_child # << >>
  /\ to_child' = Tail(to_child)
  /\ LET cmd == Head(to_child)
     IN  \/ cmd = "init" /\ HandleInit
         \/ cmd \in {"run", "pause"} /\ HandleSwitch(cmd) /\ UNCHANGED watching
         \/ cmd = "shutdown" /\ Shutdown
  /\ UNCHANGED <<parent, pinging, proc, exit_code, signals>>

---------------------------------------------------------------------------
(* What else happens to the process.                                       *)

\* The nodes are initialized; an error ends the process.
InitDone ==
  /\ Running /\ initializing
  /\ initializing' = FALSE
  /\ \/ SendToParent("init", FALSE) /\ UNCHANGED exiting
     \/ "init" \in Failures /\ SendAndExit("init", TRUE, "failed")
  /\ UNCHANGED <<parent, pinging, to_child, proc, exit_code, topology_local,
                 is_running, waiting_for_shutdown, stopping, watching, signals>>

\* The nodes are shut down; the process exits either way.
ShutdownDone ==
  /\ Running /\ stopping
  /\ stopping' = FALSE
  /\ \/ SendAndExit("shutdown", FALSE, "ok")
     \/ "shutdown" \in Failures /\ SendAndExit("shutdown", TRUE, "failed")
  /\ UNCHANGED <<parent, pinging, to_child, proc, exit_code, topology_local,
                 initializing, is_running, waiting_for_shutdown, watching,
                 signals>>

\* The first signal of a kind shuts the topology down.
Signal(s) ==
  /\ Running /\ s \in Signals \ signals
  /\ signals' = signals \cup {s}
  /\ Shutdown
  /\ UNCHANGED <<parent, pinging, to_child, proc, exit_code>>

\* The listeners are gone after the first signal of a kind (process.once): the
\* second one ends the process.
SignalAgain(s) ==
  /\ Running /\ s \in signals
  /\ Exits("signal")
  /\ UNCHANGED <<parent, pinging, channel_vars, topology_vars, watching,
                 exiting, signals>>

\* A node reports an error, or an exception is not caught.
InternalError ==
  /\ Running /\ exiting = "no" /\ "internal" \in Failures
  /\ KillProcess
  /\ UNCHANGED <<parent, pinging, to_child, proc, exit_code, topology_vars,
                 signals>>

\* The ping interval finds the parent disconnected, or silent for too long.
Abandoned == ~parent \/ ~pinging
GiveUpOnParent ==
  /\ Running /\ watching
  /\ Abandoned \/ "silence" \in Failures
  /\ KillProcess
  /\ UNCHANGED <<parent, pinging, to_child, proc, exit_code, topology_vars,
                 signals>>

Exit ==
  /\ Running /\ exiting # "no"
  /\ Exits(exiting)
  /\ UNCHANGED <<parent, pinging, channel_vars, topology_vars, watching,
                 exiting, signals>>

\* The process vanishes, or fails in a way it cannot report.
Crash ==
  /\ Running /\ "crash" \in Failures
  /\ \E code \in {"failed", "signal"} : Exits(code)
  /\ UNCHANGED <<parent, pinging, channel_vars, topology_vars, watching,
                 exiting, signals>>

WrapperStep ==
  \/ Handle \/ InitDone \/ ShutdownDone \/ InternalError \/ GiveUpOnParent
  \/ Exit \/ Crash
  \/ \E s \in Signals : Signal(s) \/ SignalAgain(s)

WrapperTypeOK ==
  /\ parent \in BOOLEAN /\ pinging \in BOOLEAN
  /\ to_child \in Seq(ChildCmd) /\ to_parent \in Seq(ChildMsg)
  /\ proc \in {"none", "running", "exited"} /\ exit_code \in ExitCode
  /\ topology_local \in BOOLEAN /\ initializing \in BOOLEAN
  /\ is_running \in BOOLEAN /\ waiting_for_shutdown \in BOOLEAN
  /\ stopping \in BOOLEAN /\ watching \in BOOLEAN
  /\ exiting \in {"no", "ok", "failed"} /\ signals \subseteq Signals
=============================================================================
