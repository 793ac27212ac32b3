---------------------------- MODULE ChildContract ----------------------------
(***************************************************************************)
(* What a proxy promises to the worker that uses it                        *)
(* (topology_local_proxy.ts), whatever happens to the child process: a     *)
(* command that was accepted is called back once, the end of the child is  *)
(* reported once, nothing is called back after that report, and the child  *)
(* does not outlive it for ever.                                           *)
(***************************************************************************)
CONSTANT Cmd

VARIABLES
  pending,   \* the commands that wait for their callbacks
  life,      \* of the child: "none", "alive" or "gone"
  reported,  \* child_exit_callback was called
  parent     \* the process of the proxy runs

contract_vars == <<pending, life, reported, parent>>

ContractInit ==
  pending = {} /\ life = "none" /\ reported = FALSE /\ parent = TRUE

\* A command is accepted.  The first is init, which starts the child.
Ask(c) ==
  /\ parent /\ ~reported /\ c \notin pending
  /\ life = "none" => c = "init"
  /\ pending' = pending \cup {c}
  /\ life' = IF life = "none" THEN "alive" ELSE life
  /\ UNCHANGED <<reported, parent>>

Answer(c) ==
  /\ parent /\ ~reported /\ c \in pending
  /\ pending' = pending \ {c}
  /\ UNCHANGED <<life, reported, parent>>

Die ==
  /\ life = "alive" /\ life' = "gone"
  /\ UNCHANGED <<pending, reported, parent>>

\* The report of the end calls back whatever waits.
Report ==
  /\ parent /\ ~reported /\ life # "none"
  /\ reported' = TRUE /\ pending' = {}
  /\ UNCHANGED <<life, parent>>

ParentDies ==
  /\ parent /\ parent' = FALSE /\ UNCHANGED <<pending, life, reported>>

ContractNext ==
  (\E c \in Cmd : Ask(c) \/ Answer(c)) \/ Die \/ Report \/ ParentDies

ContractSpec == ContractInit /\ [][ContractNext]_contract_vars

\* Callbacks come, an end is reported, and a child nobody waits for ends.
FairContract ==
  /\ ContractSpec
  /\ \A c \in Cmd : WF_contract_vars(Answer(c))
  /\ WF_contract_vars(life = "gone" /\ Report)
  /\ WF_contract_vars((reported \/ ~parent) /\ Die)
=============================================================================
