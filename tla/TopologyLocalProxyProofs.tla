----------------------- MODULE TopologyLocalProxyProofs -----------------------
(***************************************************************************)
(* For any number of calls, any signals and any failures: the proxy calls  *)
(* every callback once, and every behaviour of it is one of ChildContract. *)
(* What the contract promises to happen in the end is left to TLC.  If     *)
(* nothing fails, the end is quiet for any number of shutdowns and kills.  *)
(***************************************************************************)
EXTENDS TopologyLocalProxy, TLAPS

---------------------------------------------------------------------------
(* Types.                                                                  *)

\* A message that is sent has the type of one.
LEMMA SentIsMessage ==
  ASSUME to_parent \in Seq(ChildMsg), NEW cmd \in ChildCmd \cup {"error"},
         NEW err \in BOOLEAN, SendToParent(cmd, err)
  PROVE  to_parent' \in Seq(ChildMsg)
<1>. DEFINE msg == [cmd |-> cmd, err |-> err]
<1>1. msg \in ChildMsg
  BY DEF ChildMsg
<1>2. Append(to_parent, msg) \in Seq(ChildMsg)
  BY <1>1
<1>. QED  BY <1>2 DEF SendToParent

\* ... and so has the exit code that goes with it.
LEMMA SentWithExit ==
  ASSUME to_parent \in Seq(ChildMsg), exiting \in {"no", "ok", "failed"},
         NEW cmd \in ChildCmd \cup {"error"}, NEW err \in BOOLEAN,
         NEW code \in {"ok", "failed"}, SendAndExit(cmd, err, code)
  PROVE  /\ to_parent' \in Seq(ChildMsg)
         /\ exiting' \in {"no", "ok", "failed"}
BY SentIsMessage DEF SendAndExit

\* A shutdown of the topology keeps the types of what it touches.
LEMMA ShutdownTypes ==
  ASSUME WrapperTypeOK, Shutdown
  PROVE  /\ to_parent' \in Seq(ChildMsg)
         /\ topology_local' \in BOOLEAN /\ initializing' \in BOOLEAN
         /\ is_running' \in BOOLEAN /\ waiting_for_shutdown' \in BOOLEAN
         /\ stopping' \in BOOLEAN /\ watching' \in BOOLEAN
         /\ exiting' \in {"no", "ok", "failed"}
<1>1. CASE ~topology_local
  <2>1. SendAndExit("shutdown", TRUE, "failed") /\ watching' = FALSE
        /\ UNCHANGED topology_vars
    BY <1>1 DEF Shutdown
  <2>. QED  BY <2>1, SentWithExit DEF WrapperTypeOK, topology_vars, ChildCmd
<1>2. CASE topology_local
  BY <1>2 DEF Shutdown, WrapperTypeOK, topology_vars
<1>. QED  BY <1>1, <1>2 DEF WrapperTypeOK

\* So does a command.
LEMMA HandleTypes ==
  ASSUME WrapperTypeOK, Handle
  PROVE  WrapperTypeOK'
<1>. USE DEF WrapperTypeOK
<1>1. /\ to_child' \in Seq(ChildCmd)
      /\ UNCHANGED <<parent, pinging, proc, exit_code, signals>>
  BY DEF Handle
<1>2. CASE HandleInit
  <2>1. CASE SendToParent("init", TRUE) /\ UNCHANGED <<topology_vars, watching, exiting>>
    BY <1>1, <2>1, SentIsMessage DEF topology_vars, ChildCmd
  <2>2. CASE SendAndExit("init", TRUE, "failed") /\ UNCHANGED <<topology_vars, watching>>
    BY <1>1, <2>2, SentWithExit DEF topology_vars, ChildCmd
  <2>3. CASE /\ topology_local' = TRUE /\ initializing' = TRUE
             /\ watching' \in {watching, TRUE}
             /\ UNCHANGED <<to_parent, is_running, waiting_for_shutdown,
                            stopping, exiting>>
    BY <1>1, <2>3
  <2>. QED  BY <1>2, <2>1, <2>2, <2>3 DEF HandleInit
<1>3. ASSUME NEW cmd \in {"run", "pause"}, HandleSwitch(cmd), UNCHANGED watching
      PROVE  WrapperTypeOK'
  <2>1. /\ to_parent' \in Seq(ChildMsg) /\ exiting' \in {"no", "ok", "failed"}
        /\ is_running' \in BOOLEAN
    <3>1. cmd \in ChildCmd \cup {"error"}  BY <1>3 DEF ChildCmd
    <3>2. CASE ~topology_local
      BY <1>3, <3>1, <3>2, SentIsMessage DEF HandleSwitch
    <3>3. CASE topology_local /\ is_running = (cmd = "run")
      BY <1>3, <3>1, <3>3, SentWithExit DEF HandleSwitch
    <3>4. CASE topology_local /\ is_running # (cmd = "run")
      BY <1>3, <3>1, <3>4, SentIsMessage DEF HandleSwitch
    <3>. QED  BY <3>2, <3>3, <3>4
  <2>. QED  BY <1>1, <1>3, <2>1 DEF HandleSwitch
<1>4. CASE Shutdown
  BY <1>1, <1>4, ShutdownTypes
<1>. QED  BY <1>2, <1>3, <1>4 DEF Handle

\* So does every other step of the child.
LEMMA WrapperTypes ==
  ASSUME WrapperTypeOK, WrapperStep
  PROVE  WrapperTypeOK'
<1>1. CASE Handle
  BY <1>1, HandleTypes
<1>2. CASE InitDone
  <2>1. /\ to_parent' \in Seq(ChildMsg) /\ exiting' \in {"no", "ok", "failed"}
    BY <1>2, SentIsMessage, SentWithExit DEF InitDone, WrapperTypeOK, ChildCmd
  <2>. QED  BY <1>2, <2>1 DEF InitDone, WrapperTypeOK
<1>3. CASE ShutdownDone
  <2>1. /\ to_parent' \in Seq(ChildMsg) /\ exiting' \in {"no", "ok", "failed"}
    BY <1>3, SentWithExit DEF ShutdownDone, WrapperTypeOK, ChildCmd
  <2>. QED  BY <1>3, <2>1 DEF ShutdownDone, WrapperTypeOK
<1>4. CASE InternalError \/ GiveUpOnParent
  <2>1. KillProcess /\ UNCHANGED <<parent, pinging, to_child, proc, exit_code,
                                   topology_vars, signals>>
    BY <1>4 DEF InternalError, GiveUpOnParent
  <2>2. /\ to_parent' \in Seq(ChildMsg) /\ exiting' \in {"no", "ok", "failed"}
    BY <2>1, SentWithExit DEF KillProcess, WrapperTypeOK
  <2>. QED  BY <2>1, <2>2 DEF KillProcess, WrapperTypeOK, topology_vars
<1>5. CASE Exit \/ Crash \/ \E s \in Signals : SignalAgain(s)
  <2>1. /\ \E code \in ExitCode : Exits(code)
        /\ UNCHANGED <<parent, pinging, channel_vars, topology_vars, watching,
                       exiting, signals>>
    BY <1>5 DEF Exit, Crash, SignalAgain, WrapperTypeOK, ExitCode
  <2>. QED  BY <2>1 DEF Exits, WrapperTypeOK, channel_vars, topology_vars
<1>6. ASSUME NEW s \in Signals, Signal(s)
      PROVE  WrapperTypeOK'
  BY <1>6, ShutdownTypes DEF Signal, WrapperTypeOK
<1>. QED  BY <1>1, <1>2, <1>3, <1>4, <1>5, <1>6 DEF WrapperStep
---------------------------------------------------------------------------
(* The invariant: the types, and AnsweredOnce.                             *)

ProxyInv == ProxyTypeOK /\ AnsweredOnce

\* What the proxy keeps when only the child moves.
LEMMA ProxyFrame ==
  ASSUME ProxyInv, WrapperTypeOK', UNCHANGED proxy_vars
  PROVE  ProxyInv'
BY DEF ProxyInv, ProxyTypeOK, AnsweredOnce, Kept, Waiting, proxy_vars, call_vars

LEMMA Methods ==
  /\ {"init", "run", "pause", "shutdown"} = Cmd
  /\ Cmd \subseteq Method /\ "kill" \in Method \ Cmd
  /\ \A m \in Method : m # "kill" => m \in Cmd
BY DEF Cmd, ChildCmd, Method

LEMMA ProxyInitInv == ProxyInit => ProxyInv
<1>. SUFFICES ASSUME ProxyInit
              PROVE  ProxyInv
  OBVIOUS
<1>1. WrapperTypeOK
  <2>1. to_child \in Seq(ChildCmd) /\ to_parent \in Seq(ChildMsg)
    BY DEF ProxyInit
  <2>. QED  BY <2>1 DEF ProxyInit, WrapperInit, WrapperTypeOK, ExitCode
<1>2. ProxyTypeOK
  BY <1>1 DEF ProxyInit, ProxyTypeOK, Callback
<1>3. AnsweredOnce
  BY Methods DEF ProxyInit, AnsweredOnce, Kept, Waiting
<1>. QED  BY <1>2, <1>3 DEF ProxyInv

---------------------------------------------------------------------------
(* Accounts of the calls.                                                  *)

\* A call whose callback is kept.
LEMMA KeptIsAnsweredOnce ==
  ASSUME ProxyInv, NEW c \in Cmd, Called(c), listening, cb[c] # "caller", Keep(c),
         UNCHANGED <<told, killing, listening>>
  PROVE  AnsweredOnce' /\ asked' \in [Method -> Nat] /\ cb' \in [Cmd -> Callback]
<1>1. /\ asked' \in [Method -> Nat] /\ cb' \in [Cmd -> Callback]
      /\ asked' = [asked EXCEPT ![c] = @ + 1] /\ cb' = [cb EXCEPT ![c] = "caller"]
  BY Methods DEF Called, Keep, ProxyInv, ProxyTypeOK, Callback
<1>2. ASSUME NEW n \in Method
      PROVE  asked'[n] = told[n] + Kept(n)'
  <2>1. asked[n] = told[n] + Kept(n) /\ asked[n] \in Nat /\ told[n] \in Nat
    BY DEF ProxyInv, ProxyTypeOK, AnsweredOnce
  <2>2. CASE n = c
    <3>1. asked'[n] = asked[n] + 1 /\ Kept(n) = 0 /\ Kept(n)' = 1
      BY <1>1, <2>2, Methods DEF ProxyInv, ProxyTypeOK, Kept
    <3>. QED  BY <2>1, <3>1
  <2>3. CASE n # c
    <3>1. asked'[n] = asked[n] /\ Kept(n)' = Kept(n)
      BY <1>1, <2>3, Methods DEF ProxyInv, ProxyTypeOK, Kept
    <3>. QED  BY <2>1, <3>1
  <2>. QED  BY <2>2, <2>3
<1>. QED  BY <1>1, <1>2 DEF AnsweredOnce

\* A call that is called back at once.
LEMMA RefusedIsAnsweredOnce ==
  ASSUME ProxyInv, NEW m \in Method, Called(m), CallBackAtOnce(m),
         UNCHANGED <<cb, killing, listening>>
  PROVE  AnsweredOnce' /\ asked' \in [Method -> Nat] /\ told' \in [Method -> Nat]
<1>1. /\ asked' \in [Method -> Nat] /\ told' \in [Method -> Nat]
      /\ \A n \in Method : /\ asked'[n] = asked[n] + (IF n = m THEN 1 ELSE 0)
                          /\ told'[n] = told[n] + (IF n = m THEN 1 ELSE 0)
                          /\ asked[n] \in Nat /\ told[n] \in Nat
  BY DEF Called, CallBackAtOnce, ProxyInv, ProxyTypeOK
<1>2. ASSUME NEW n \in Method
      PROVE  asked'[n] = told'[n] + Kept(n)'
  <2>1. /\ asked[n] = told[n] + Kept(n) /\ Kept(n)' = Kept(n)
        /\ Kept(n) \in Nat
    BY Methods DEF ProxyInv, AnsweredOnce, ProxyTypeOK, Kept
  <2>. QED  BY <1>1, <2>1
<1>. QED  BY <1>1, <1>2 DEF AnsweredOnce, ProxyInv, Waiting

\* What a kill changes of the child.
LEMMA SendKillTypes ==
  ASSUME ProxyInv, NEW exited \in BOOLEAN, SendKill(exited)
  PROVE  /\ killed' \in BOOLEAN
         /\ proc' \in {"none", "running", "exited"} /\ exit_code' \in ExitCode
         /\ topology_local' \in BOOLEAN /\ initializing' \in BOOLEAN
         /\ is_running' \in BOOLEAN /\ waiting_for_shutdown' \in BOOLEAN
         /\ stopping' \in BOOLEAN
         /\ UNCHANGED <<topology_vars, watching, exiting, signals>>
<1>1. UNCHANGED <<topology_vars, watching, exiting, signals>>
  BY DEF SendKill
<1>2. CASE killed' = TRUE /\ Exits("signal")
  BY <1>1, <1>2
  DEF Exits, ExitCode, topology_vars, ProxyInv, ProxyTypeOK, WrapperTypeOK
<1>3. CASE UNCHANGED <<killed, proc, exit_code>>
  BY <1>1, <1>3 DEF topology_vars, ProxyInv, ProxyTypeOK, WrapperTypeOK
<1>. QED  BY <1>2, <1>3 DEF SendKill

\* The worker's calls.
LEMMA CallsKeepInv ==
  ASSUME ProxyInv, WorkerCalls
  PROVE  ProxyInv'
<1>. USE DEF ProxyInv, ProxyTypeOK
<1>1. CASE Init
  <2>0. "init" \in Cmd /\ "init" \in Method /\ listening
    BY <1>1, Methods DEF Init, Called
  <2>1. CASE cb["init"] # "null" \/ proc # "none"
    <3>1. AnsweredOnce' /\ asked' \in [Method -> Nat] /\ told' \in [Method -> Nat]
      BY <1>1, <2>0, <2>1, RefusedIsAnsweredOnce DEF Init
    <3>2. WrapperTypeOK'
      BY <1>1, <2>1 DEF Init, wrapper_vars, topology_vars, WrapperTypeOK
    <3>. QED  BY <1>1, <2>1, <3>1, <3>2 DEF Init
  <2>2. CASE cb["init"] = "null" /\ proc = "none"
    <3>1. /\ AnsweredOnce' /\ asked' \in [Method -> Nat]
          /\ cb' \in [Cmd -> Callback]
      BY <1>1, <2>0, <2>2, KeptIsAnsweredOnce DEF Init
    <3>2. WrapperTypeOK'
      <4>1. <<"init">> \in Seq(ChildCmd)
        BY DEF ChildCmd
      <4>2. to_child' \in Seq(ChildCmd) /\ pinging' = TRUE /\ Fork
            /\ UNCHANGED <<parent, to_parent>>
        BY <1>1, <2>2, <4>1 DEF Init
      <4>. QED  BY <4>2 DEF Fork, topology_vars, WrapperTypeOK
    <3>. QED  BY <1>1, <2>2, <3>1, <3>2 DEF Init
  <2>. QED  BY <2>1, <2>2
<1>2. ASSUME NEW cmd \in {"run", "pause"}, Switch(cmd)
      PROVE  ProxyInv'
  <2>0. cmd \in Cmd /\ cmd \in Method /\ listening
    BY <1>2, Methods DEF Switch, Called
  <2>1. WrapperTypeOK'
    <3>1. Append(to_child, cmd) \in Seq(ChildCmd)
      BY <2>0 DEF WrapperTypeOK, Cmd
    <3>2. to_child' \in Seq(ChildCmd)
      BY <1>2, <3>1 DEF Switch, Send, WrapperTypeOK
    <3>. QED  BY <1>2, <3>2 DEF Switch, wrapper_vars, topology_vars, WrapperTypeOK
  <2>2. CASE cb[cmd] # "null"
    <3>1. AnsweredOnce' /\ asked' \in [Method -> Nat] /\ told' \in [Method -> Nat]
      BY <1>2, <2>0, <2>2, RefusedIsAnsweredOnce DEF Switch
    <3>. QED  BY <1>2, <2>1, <2>2, <3>1 DEF Switch
  <2>3. CASE cb[cmd] = "null"
    <3>1. /\ AnsweredOnce' /\ asked' \in [Method -> Nat]
          /\ cb' \in [Cmd -> Callback]
      BY <1>2, <2>0, <2>3, KeptIsAnsweredOnce DEF Switch
    <3>. QED  BY <1>2, <2>1, <2>3, <3>1 DEF Switch
  <2>. QED  BY <2>2, <2>3
<1>3. CASE ShutdownCall
  <2>0. "shutdown" \in Cmd /\ "shutdown" \in Method
    BY Methods
  <2>1. WrapperTypeOK'
    <3>1. Append(to_child, "shutdown") \in Seq(ChildCmd)
      BY <2>0 DEF WrapperTypeOK, Cmd
    <3>2. to_child' \in Seq(ChildCmd)
      BY <1>3, <3>1 DEF ShutdownCall, Send, WrapperTypeOK
    <3>. QED  BY <1>3, <3>2
      DEF ShutdownCall, wrapper_vars, topology_vars, WrapperTypeOK
  <2>2. CASE CallBackAtOnce("shutdown") /\ UNCHANGED cb
    <3>1. AnsweredOnce' /\ asked' \in [Method -> Nat] /\ told' \in [Method -> Nat]
      BY <1>3, <2>0, <2>2, RefusedIsAnsweredOnce DEF ShutdownCall
    <3>. QED  BY <1>3, <2>1, <2>2, <3>1 DEF ShutdownCall
  <2>3. CASE /\ CallBackAtOnce("shutdown") /\ cb["shutdown"] = "null"
             /\ cb' = [cb EXCEPT !["shutdown"] = "noop"]
    <3>1. /\ asked' \in [Method -> Nat] /\ told' \in [Method -> Nat]
          /\ \A n \in Method :
               /\ asked'[n] = asked[n] + (IF n = "shutdown" THEN 1 ELSE 0)
               /\ told'[n] = told[n] + (IF n = "shutdown" THEN 1 ELSE 0)
               /\ asked[n] \in Nat /\ told[n] \in Nat
      BY <1>3, <2>0, <2>3 DEF ShutdownCall, Called, CallBackAtOnce
    <3>2. /\ cb' \in [Cmd -> Callback]
          /\ \A c \in Cmd : cb'[c] = "caller" <=> cb[c] = "caller"
      BY <2>3 DEF Callback
    <3>3. ASSUME NEW n \in Method
          PROVE  asked'[n] = told'[n] + Kept(n)'
      <4>1. /\ asked[n] = told[n] + Kept(n) /\ Kept(n)' = Kept(n)
            /\ Kept(n) \in Nat
        BY <1>3, <3>2, Methods DEF ShutdownCall, AnsweredOnce, Kept
      <4>. QED  BY <3>1, <4>1
    <3>4. AnsweredOnce'
      BY <1>3, <3>2, <3>3 DEF ShutdownCall, AnsweredOnce, Waiting
    <3>. QED  BY <1>3, <2>1, <3>1, <3>2, <3>4 DEF ShutdownCall
  <2>4. CASE cb["shutdown"] = "null" /\ ~received_shutdown_response
    <3>1. listening /\ Called("shutdown") /\ Keep("shutdown")
          /\ UNCHANGED <<told, killing, listening>>
      BY <1>3, <2>4 DEF ShutdownCall, Called
    <3>2. /\ AnsweredOnce' /\ asked' \in [Method -> Nat]
          /\ cb' \in [Cmd -> Callback]
      BY <2>0, <2>4, <3>1, KeptIsAnsweredOnce
    <3>. QED  BY <1>3, <2>1, <3>1, <3>2 DEF ShutdownCall
  <2>. QED  BY <1>3, <2>2, <2>3, <2>4 DEF ShutdownCall
<1>4. CASE Kill
  <2>1. WrapperTypeOK' /\ killed' \in BOOLEAN
    BY <1>4, SendKillTypes DEF Kill, channel_vars, WrapperTypeOK
  <2>2. CASE CallBackAtOnce("kill") /\ UNCHANGED killing
    <3>1. AnsweredOnce' /\ asked' \in [Method -> Nat] /\ told' \in [Method -> Nat]
      BY <1>4, <2>2, Methods, RefusedIsAnsweredOnce DEF Kill
    <3>. QED  BY <1>4, <2>1, <2>2, <3>1 DEF Kill
  <2>3. CASE killing' = killing + 1 /\ UNCHANGED told
    <3>1. asked' \in [Method -> Nat] /\ asked' = [asked EXCEPT !["kill"] = @ + 1]
      BY <1>4, Methods DEF Kill, Called
    <3>2. ASSUME NEW n \in Method
          PROVE  asked'[n] = told'[n] + Kept(n)'
      <4>1. /\ asked[n] = told[n] + Kept(n)
            /\ asked[n] \in Nat /\ told[n] \in Nat
        BY DEF AnsweredOnce
      <4>2. Kept(n)' = Kept(n) + (IF n = "kill" THEN 1 ELSE 0) /\ Kept(n) \in Nat
        BY <1>4, <2>3 DEF Kill, Kept
      <4>3. asked'[n] = asked[n] + (IF n = "kill" THEN 1 ELSE 0)
        BY <3>1
      <4>. QED  BY <2>3, <4>1, <4>2, <4>3
    <3>3. AnsweredOnce'
      BY <1>4, <3>2 DEF Kill, AnsweredOnce, Waiting
    <3>. QED  BY <1>4, <2>1, <2>3, <3>1, <3>3 DEF Kill
  <2>. QED  BY <1>4, <2>2, <2>3 DEF Kill
<1>. QED  BY <1>1, <1>2, <1>3, <1>4 DEF WorkerCalls

\* The timers of the proxy, and what it hears from the child.
LEMMA EventsKeepInv ==
  ASSUME ProxyInv,
         ProxyStep \/ ErrorEvent \/ GiveUpOnChild \/ ParentDies
  PROVE  ProxyInv'
<1>. USE DEF ProxyInv, ProxyTypeOK
<1>1. CASE KillTimer
  <2>1. WrapperTypeOK'
    BY <1>1 DEF KillTimer, wrapper_vars, topology_vars, channel_vars,
       WrapperTypeOK
  <2>2. killing' \in Nat /\ told' \in [Method -> Nat]
    BY <1>1, Methods DEF KillTimer, CallBackAtOnce
  <2>3. ASSUME NEW n \in Method
        PROVE  asked'[n] = told'[n] + Kept(n)'
    <3>1. /\ asked[n] = told[n] + Kept(n) /\ asked'[n] = asked[n]
          /\ told'[n] = told[n] + (IF n = "kill" THEN 1 ELSE 0)
          /\ told[n] \in Nat
      BY <1>1 DEF KillTimer, CallBackAtOnce, AnsweredOnce
    <3>2. Kept(n)' = Kept(n) - (IF n = "kill" THEN 1 ELSE 0) /\ Kept(n) \in Nat
      BY <1>1 DEF KillTimer, Kept
    <3>. QED  BY <3>1, <3>2
  <2>4. AnsweredOnce'
    BY <1>1, <2>3 DEF KillTimer, AnsweredOnce, Waiting
  <2>. QED  BY <1>1, <2>1, <2>2, <2>4 DEF KillTimer
<1>2. CASE Receive
  <2>. DEFINE msg == Head(to_parent)
  <2>0. msg \in ChildMsg /\ Tail(to_parent) \in Seq(ChildMsg)
    BY <1>2 DEF Receive, WrapperTypeOK
  <2>1. WrapperTypeOK'
    BY <1>2, <2>0 DEF Receive, wrapper_vars, topology_vars, WrapperTypeOK
  <2>2. CASE msg.cmd = "error"
    BY <1>2, <2>0, <2>1, <2>2
    DEF Receive, ChildMsg, AnsweredOnce, Kept, Waiting
  <2>3. CASE msg.cmd # "error"
    <3>1. msg.cmd \in ChildCmd /\ msg.err \in BOOLEAN
      BY <2>0, <2>3 DEF ChildMsg
    <3>2. CallBack(msg.cmd, msg.err)
      BY <1>2, <2>3 DEF Receive
    <3>3. /\ cb' \in [Cmd -> Callback] /\ told' \in [Method -> Nat]
          /\ errors' \subseteq Cmd
      BY <3>1, <3>2, Methods DEF CallBack, Callback, Cmd
    <3>4. ASSUME NEW n \in Method
          PROVE  asked'[n] = told'[n] + Kept(n)'
      <4>1. /\ asked[n] = told[n] + Kept(n) /\ asked'[n] = asked[n]
            /\ asked[n] \in Nat /\ told[n] \in Nat
        BY <1>2 DEF Receive, AnsweredOnce
      <4>2. CASE n = msg.cmd
        <5>1. n \in Cmd /\ n # "kill"
          BY <3>1, <4>2, Methods DEF Cmd
        <5>2. told'[n] = told[n] + Kept(n) /\ Kept(n)' = 0
          BY <3>2, <4>2, <5>1 DEF CallBack, Kept
        <5>. QED  BY <4>1, <5>2
      <4>3. CASE n # msg.cmd
        <5>1. told'[n] = told[n] /\ Kept(n)' = Kept(n)
          BY <1>2, <3>2, <4>3, Methods DEF Receive, CallBack, Kept
        <5>. QED  BY <4>1, <5>1
      <4>. QED  BY <4>2, <4>3
    <3>5. AnsweredOnce'
      <4>1. ~listening' => Waiting' = {}
        BY <1>2, <3>2, <3>3 DEF Receive, AnsweredOnce, CallBack, Waiting
      <4>. QED  BY <3>4, <4>1 DEF AnsweredOnce
    <3>. QED  BY <1>2, <2>1, <3>1, <3>3, <3>5 DEF Receive
  <2>. QED  BY <2>2, <2>3
<1>3. CASE ExitEvent \/ ErrorEvent
  <2>1. /\ has_exited' = TRUE
        /\ \E e \in BOOLEAN : OnExitUnlessCalled(e)
        /\ UNCHANGED <<parent, channel_vars, received_shutdown_response,
                       last_child_err, killing, asked>>
    BY <1>3 DEF ExitEvent, ErrorEvent
  <2>2. /\ killed' \in BOOLEAN /\ delivered' \subseteq {"exit", "close"}
        /\ proc' \in {"none", "running", "exited"} /\ exit_code' \in ExitCode
        /\ UNCHANGED <<topology_vars, watching, exiting, signals>>
    BY <1>3, SendKillTypes DEF ExitEvent, ErrorEvent, wrapper_vars,
       topology_vars, WrapperTypeOK
  <2>3. /\ pinging' \in BOOLEAN /\ listening' \in BOOLEAN
        /\ cb' \in [Cmd -> Callback] /\ told' \in [Method -> Nat]
        /\ errors' \subseteq Cmd /\ exit_err' \in BOOLEAN
    <3>1. CASE ~listening
      BY <2>1, <3>1 DEF OnExitUnlessCalled, WrapperTypeOK
    <3>2. CASE listening
      <4>1. PICK e \in BOOLEAN : OnExit(e)
        BY <2>1, <3>2 DEF OnExitUnlessCalled
      <4>2. told' \in [Method -> Nat]
        BY <4>1 DEF OnExit
      <4>3. cb' \in [Cmd -> Callback] /\ errors' \subseteq Cmd
        BY <4>1 DEF OnExit, Callback, Waiting
      <4>. QED  BY <4>1, <4>2, <4>3 DEF OnExit
    <3>. QED  BY <3>1, <3>2
  <2>4. WrapperTypeOK'
    BY <2>1, <2>2, <2>3 DEF WrapperTypeOK, channel_vars, topology_vars
  <2>5. AnsweredOnce'
    <3>1. CASE ~listening
      BY <2>1, <3>1 DEF OnExitUnlessCalled, AnsweredOnce, Kept, Waiting
    <3>2. CASE listening
      <4>1. /\ told' = [m \in Method |-> told[m] + IF m \in Waiting THEN 1 ELSE 0]
            /\ cb' = [c \in Cmd |-> "null"]
            /\ UNCHANGED <<asked, killing>>
        BY <2>1, <3>2 DEF OnExitUnlessCalled, OnExit
      <4>2. ASSUME NEW n \in Method
            PROVE  asked'[n] = told'[n] + Kept(n)'
        <5>1. asked[n] = told[n] + Kept(n) /\ told[n] \in Nat
          BY DEF AnsweredOnce
        <5>2. CASE n = "kill"
          BY <4>1, <5>1, <5>2, Methods DEF Kept, Waiting
        <5>3. CASE n # "kill"
          <6>1. n \in Cmd /\ Kept(n)' = 0 /\ told'[n] = told[n] + Kept(n)
            BY <4>1, <5>3, Methods DEF Kept, Waiting
          <6>. QED  BY <4>1, <5>1, <6>1
        <5>. QED  BY <5>2, <5>3
      <4>. QED  BY <4>1, <4>2 DEF AnsweredOnce, Waiting
    <3>. QED  BY <3>1, <3>2
  <2>. QED  BY <2>1, <2>2, <2>3, <2>4, <2>5
<1>4. CASE GiveUpOnChild
  <2>1. WrapperTypeOK'
    BY <1>4, SendKillTypes DEF GiveUpOnChild, channel_vars, WrapperTypeOK
  <2>. QED  BY <1>4, <2>1
    DEF GiveUpOnChild, SendKill, call_vars, AnsweredOnce, Kept, Waiting
<1>5. CASE ParentDies
  <2>1. WrapperTypeOK'
    BY <1>5 DEF ParentDies, wrapper_vars, topology_vars, channel_vars,
       WrapperTypeOK
  <2>. QED  BY <1>5, <2>1, ProxyFrame DEF ParentDies
<1>. QED  BY <1>1, <1>2, <1>3, <1>4, <1>5 DEF ProxyStep

LEMMA ProxyInvariant == ProxySpec => []ProxyInv
<1>1. ASSUME ProxyInv, ProxyNext
      PROVE  ProxyInv'
  <2>1. CASE WrapperStep /\ UNCHANGED proxy_vars
    BY <1>1, <2>1, WrapperTypes, ProxyFrame DEF ProxyInv, ProxyTypeOK
  <2>. QED  BY <1>1, <2>1, CallsKeepInv, EventsKeepInv DEF ProxyNext
<1>2. ASSUME ProxyInv, UNCHANGED vars
      PROVE  ProxyInv'
  <2>1. WrapperTypeOK'
    BY <1>2 DEF vars, wrapper_vars, topology_vars, channel_vars, ProxyInv,
       ProxyTypeOK, WrapperTypeOK
  <2>. QED  BY <1>2, <2>1, ProxyFrame DEF vars
<1>. QED  BY <1>1, <1>2, ProxyInitInv, PTL DEF ProxySpec

---------------------------------------------------------------------------
(* The steps of the contract.                                              *)

\* A command whose callback is kept is asked; so are the contract's other steps,
\* in terms of the proxy.
LEMMA AskStep ==
  ASSUME NEW c \in Cmd, ProxyInv, parent, listening, cb[c] = "null", Keep(c),
         UNCHANGED <<parent, listening>>,
         \/ proc # "none" /\ UNCHANGED proc
         \/ c = "init" /\ proc = "none" /\ proc' = "running"
  PROVE  Contract!ContractNext
<1>1. Waiting' = Waiting \cup {c} /\ c \notin Waiting
  BY DEF Keep, Waiting, ProxyInv, ProxyTypeOK
<1>2. Contract!Ask(c)
  BY <1>1 DEF Contract!Ask, ProxyInv, ProxyTypeOK, WrapperTypeOK
<1>. QED  BY <1>2 DEF Contract!ContractNext

LEMMA DieOrStutter ==
  ASSUME UNCHANGED <<Waiting, listening, parent>>,
         \/ UNCHANGED proc
         \/ proc = "running" /\ proc' = "exited"
  PROVE  Contract!ContractNext \/ UNCHANGED Contract!contract_vars
BY DEF Contract!ContractNext, Contract!Die, Contract!contract_vars

\* A kill ends a running child, or none.
LEMMA KillStep ==
  ASSUME NEW exited \in BOOLEAN, SendKill(exited)
  PROVE  \/ UNCHANGED proc
         \/ proc = "running" /\ proc' = "exited"
BY DEF SendKill, Exits, Running

\* The child by itself only ends.
LEMMA ChildStep ==
  ASSUME WrapperStep
  PROVE  /\ UNCHANGED parent
         /\ \/ UNCHANGED proc
            \/ proc = "running" /\ proc' = "exited"
<1>1. CASE Handle \/ InitDone \/ ShutdownDone \/ InternalError \/ GiveUpOnParent
  BY <1>1 DEF Handle, InitDone, ShutdownDone, InternalError, GiveUpOnParent
<1>2. CASE Exit \/ Crash \/ \E s \in Signals : SignalAgain(s)
  BY <1>2 DEF Exit, Crash, SignalAgain, Exits, Running
<1>3. CASE \E s \in Signals : Signal(s)
  BY <1>3 DEF Signal
<1>. QED  BY <1>1, <1>2, <1>3 DEF WrapperStep

\* The worker's calls ask, or change nothing that the contract speaks of.
LEMMA CallsRefine ==
  ASSUME ProxyInv, WorkerCalls
  PROVE  Contract!ContractNext \/ UNCHANGED Contract!contract_vars
<1>1. CASE Init
  <2>1. CASE cb["init"] # "null" \/ proc # "none"
    BY <1>1, <2>1, DieOrStutter DEF Init, wrapper_vars, Waiting
  <2>2. CASE cb["init"] = "null" /\ proc = "none"
    BY <1>1, <2>2, AskStep, Methods DEF Init, Called, Fork
  <2>. QED  BY <2>1, <2>2
<1>2. ASSUME NEW cmd \in {"run", "pause"}, Switch(cmd)
      PROVE  Contract!ContractNext \/ UNCHANGED Contract!contract_vars
  <2>0. /\ cmd \in Cmd /\ parent /\ listening /\ proc # "none"
        /\ UNCHANGED <<parent, listening, proc>>
    BY <1>2, Methods DEF Switch, Called, wrapper_vars
  <2>1. CASE UNCHANGED cb
    BY <2>0, <2>1, DieOrStutter DEF Waiting
  <2>2. CASE cb[cmd] = "null" /\ Keep(cmd)
    BY <2>0, <2>2, AskStep
  <2>. QED  BY <1>2, <2>1, <2>2 DEF Switch
<1>3. CASE ShutdownCall
  <2>0. /\ "shutdown" \in Cmd /\ parent /\ proc # "none"
        /\ UNCHANGED <<parent, listening, proc>>
    BY <1>3, Methods DEF ShutdownCall, Called, wrapper_vars
  <2>1. CASE cb' \in {cb, [cb EXCEPT !["shutdown"] = "noop"]}
             /\ (cb' # cb => cb["shutdown"] = "null")
    <3>1. Waiting' = Waiting
      BY <2>1, <2>0 DEF Waiting, ProxyInv, ProxyTypeOK
    <3>. QED  BY <2>0, <3>1, DieOrStutter
  <2>2. CASE /\ cb["shutdown"] = "null" /\ ~received_shutdown_response
             /\ Keep("shutdown")
    BY <1>3, <2>0, <2>2, AskStep DEF ShutdownCall, Called
  <2>3. [cb EXCEPT !["shutdown"] = cb["shutdown"]] = cb
    BY DEF ProxyInv, ProxyTypeOK
  <2>. QED  BY <1>3, <2>1, <2>2, <2>3 DEF ShutdownCall
<1>4. CASE Kill
  <2>1. UNCHANGED <<Waiting, listening, parent>>
    BY <1>4 DEF Kill, Waiting
  <2>. QED  BY <1>4, <2>1, KillStep, DieOrStutter DEF Kill, ProxyInv, ProxyTypeOK
<1>. QED  BY <1>1, <1>2, <1>3, <1>4 DEF WorkerCalls

\* The end of the child is reported once; whatever waits is called back then.
LEMMA ReportStep ==
  ASSUME ProxyInv, parent, proc # "none", UNCHANGED <<parent, proc>>,
         NEW e \in BOOLEAN, OnExitUnlessCalled(e)
  PROVE  Contract!ContractNext \/ UNCHANGED Contract!contract_vars
<1>1. CASE ~listening
  BY <1>1, DieOrStutter DEF OnExitUnlessCalled, Waiting
<1>2. CASE listening
  <2>1. listening' = FALSE /\ Waiting' = {}
    BY <1>2 DEF OnExitUnlessCalled, OnExit, Waiting
  <2>2. Contract!Report
    BY <1>2, <2>1 DEF Contract!Report, ProxyInv, ProxyTypeOK, WrapperTypeOK
  <2>. QED  BY <2>2 DEF Contract!ContractNext
<1>. QED  BY <1>1, <1>2

\* Events answer, report, kill, or go unnoticed.
LEMMA EventsRefine ==
  ASSUME ProxyInv,
         ProxyStep \/ ErrorEvent \/ GiveUpOnChild \/ ParentDies
  PROVE  Contract!ContractNext \/ UNCHANGED Contract!contract_vars
<1>1. CASE KillTimer
  BY <1>1, DieOrStutter DEF KillTimer, wrapper_vars, Waiting
<1>2. CASE Receive
  <2>. DEFINE msg == Head(to_parent)
  <2>1. parent /\ UNCHANGED <<parent, listening, proc>>
    BY <1>2 DEF Receive, wrapper_vars
  <2>2. msg \in ChildMsg
    BY <1>2 DEF Receive, ProxyInv, ProxyTypeOK, WrapperTypeOK
  <2>3. CASE msg.cmd = "error" \/ cb[msg.cmd] # "caller"
    <3>1. Waiting' = Waiting
      BY <1>2, <2>3 DEF Receive, CallBack, Waiting, ProxyInv, ProxyTypeOK
    <3>. QED  BY <2>1, <3>1, DieOrStutter
  <2>4. CASE msg.cmd # "error" /\ cb[msg.cmd] = "caller"
    <3>1. msg.cmd \in Cmd /\ CallBack(msg.cmd, msg.err)
      BY <1>2, <2>2, <2>4 DEF Receive, ChildMsg, Cmd
    <3>2. Waiting' = Waiting \ {msg.cmd} /\ msg.cmd \in Waiting
      BY <2>4, <3>1 DEF CallBack, Waiting, ProxyInv, ProxyTypeOK
    <3>3. listening
      BY <3>2 DEF ProxyInv, ProxyTypeOK, AnsweredOnce
    <3>4. Contract!Answer(msg.cmd)
      BY <2>1, <3>1, <3>2, <3>3 DEF Contract!Answer
    <3>. QED  BY <3>1, <3>4 DEF Contract!ContractNext
  <2>. QED  BY <2>3, <2>4
<1>3. CASE ExitEvent
  <2>1. \E e \in BOOLEAN : OnExitUnlessCalled(e)
    BY <1>3 DEF ExitEvent, ProxyInv, ProxyTypeOK
  <2>. QED  BY <1>3, <2>1, ReportStep DEF ExitEvent, wrapper_vars
<1>4. CASE ErrorEvent
  <2>1. UNCHANGED proc
    BY <1>4 DEF ErrorEvent, SendKill
  <2>. QED  BY <1>4, <2>1, ReportStep DEF ErrorEvent
<1>5. CASE GiveUpOnChild
  <2>1. UNCHANGED <<Waiting, listening, parent>>
    BY <1>5 DEF GiveUpOnChild, Waiting
  <2>. QED  BY <1>5, <2>1, KillStep, DieOrStutter
    DEF GiveUpOnChild, ProxyInv, ProxyTypeOK
<1>6. CASE ParentDies
  <2>1. Contract!ParentDies
    BY <1>6 DEF ParentDies, Contract!ParentDies, wrapper_vars, proxy_vars, Waiting
  <2>. QED  BY <2>1 DEF Contract!ContractNext
<1>. QED  BY <1>1, <1>2, <1>3, <1>4, <1>5, <1>6 DEF ProxyStep

---------------------------------------------------------------------------
(* The theorems.                                                           *)

\* The state of the proxy and of its child has the types it is meant to have.
THEOREM ProxyTypes == ProxySpec => []ProxyTypeOK
BY ProxyInvariant, PTL DEF ProxyInv

\* Every callback is called once, however answers, exits, failed sends and
\* repeated calls compete for it.
THEOREM CallbacksAreCalledOnce == ProxySpec => []AnsweredOnce
BY ProxyInvariant, PTL DEF ProxyInv

\* Every behaviour of the proxy with its child is one that the contract allows:
\* nothing is called back twice, unasked or after the end was reported, the end
\* is reported once, and it calls back whatever waits.
THEOREM ProxyImplementsContract == ProxySpec => Contract!ContractSpec
<1>1. ProxyInit => Contract!ContractInit
  BY DEF ProxyInit, WrapperInit, Contract!ContractInit, Waiting
<1>2. ASSUME ProxyInv, [ProxyNext]_vars
      PROVE  [Contract!ContractNext]_(Contract!contract_vars)
  <2>1. CASE WrapperStep /\ UNCHANGED proxy_vars
    BY <2>1, ChildStep, DieOrStutter DEF proxy_vars, Waiting
  <2>2. CASE UNCHANGED vars
    BY <2>2 DEF vars, wrapper_vars, proxy_vars, Waiting, Contract!contract_vars
  <2>. QED  BY <1>2, <2>1, <2>2, CallsRefine, EventsRefine DEF ProxyNext
<1>. QED  BY <1>1, <1>2, ProxyInvariant, PTL DEF ProxySpec, Contract!ContractSpec

---------------------------------------------------------------------------
(* The quiet end: nothing fails, events come in order, and the worker makes *)
(* its calls as TopologyWorker does.  An error is then either excused by a  *)
(* signal to a child that does not know its topology, which stays so, or    *)
(* there is none anywhere, not even on its way.                             *)

Excused == signals # {} /\ exiting = "failed"

\* The child is told to run once, and after it was told to initialize.
Ordered ==
  /\ proc = "none" => to_child = << >> /\ ~topology_local
  /\ proc # "none" /\ ~topology_local => to_child # << >> /\ to_child[1] = "init"
  /\ \A i \in DOMAIN to_child :
       /\ to_child[i] = "init" => i = 1 /\ ~topology_local
       /\ to_child[i] # "pause"
       /\ to_child[i] = "run" => ~is_running /\ asked["run"] > 0
  /\ \A i, j \in DOMAIN to_child : to_child[i] = "run" /\ to_child[j] = "run" => i = j
  /\ is_running => asked["run"] > 0

\* A child that exits well has answered the shutdown, and nobody waits for one
\* that was answered.
Answered ==
  /\ (stopping \/ exiting = "ok") => topology_local
  /\ exiting = "ok" => \/ received_shutdown_response
                       \/ \E i \in DOMAIN to_parent : to_parent[i].cmd = "shutdown"
  /\ received_shutdown_response => cb["shutdown"] # "caller"

Ended ==
  /\ proc = "running" => pinging
  /\ proc # "exited" => exit_code = "none"
  /\ proc = "exited" => exit_code = "signal" \/ (exit_code = "ok" /\ exiting = "ok")
  /\ "shutdown" \in errors => exit_code = "signal"

NoErrors ==
  /\ exiting # "failed" /\ ~last_child_err /\ ~exit_err
  /\ \A i \in DOMAIN to_parent : ~to_parent[i].err

Orderly == Ordered /\ Answered /\ Ended /\ NoErrors
QuietInv == parent /\ (Excused \/ Orderly)

\* What the theorem assumes of the environment.
Quiet ==
  /\ Failures = {} /\ ~ExitOvertakes
  /\ MaxCalls["run"] <= 1 /\ MaxCalls["pause"] = 0

LEMMA ShutdownExits ==
  ASSUME WrapperTypeOK, Shutdown, exiting = "failed"
  PROVE  exiting' = "failed"
BY DEF Shutdown, SendAndExit

\* An excuse holds from then on.
LEMMA ExcusedStays ==
  ASSUME ProxyInv, Excused, ProxyNext
  PROVE  Excused'
<1>1. CASE WrapperStep
  <2>1. CASE Handle
    BY <2>1, ShutdownExits
    DEF Excused, Handle, HandleInit, HandleSwitch, SendAndExit, ProxyInv, ProxyTypeOK
  <2>2. CASE \E s \in Signals : Signal(s)
    BY <2>2, ShutdownExits DEF Excused, Signal, ProxyInv, ProxyTypeOK
  <2>3. CASE \/ InitDone \/ ShutdownDone \/ InternalError \/ GiveUpOnParent
             \/ Exit \/ Crash \/ \E s \in Signals : SignalAgain(s)
    BY <2>3
    DEF Excused, InitDone, ShutdownDone, InternalError, GiveUpOnParent, KillProcess,
        SendAndExit, Exit, Crash, SignalAgain
  <2>. QED  BY <1>1, <2>1, <2>2, <2>3 DEF WrapperStep
<1>2. CASE ~WrapperStep
  <2>1. UNCHANGED <<exiting, signals>>
    BY <1>2
    DEF ProxyNext, WorkerCalls, Init, Switch, ShutdownCall, Kill, SendKill, Fork,
        ProxyStep, KillTimer, Receive, ExitEvent, ErrorEvent, GiveUpOnChild,
        ParentDies, wrapper_vars
  <2>. QED  BY <2>1 DEF Excused
<1>. QED  BY <1>1, <1>2

---------------------------------------------------------------------------
(* The commands on their way to the child.                                 *)

LEMMA SendKeepsOrder ==
  ASSUME WrapperTypeOK, Ordered, NEW cmd \in {"run", "shutdown"}, proc # "none",
         Send(cmd), UNCHANGED <<proc, topology_local, is_running>>,
         asked["run"] > 0 => asked'["run"] > 0,
         cmd = "run" => ~(asked["run"] > 0) /\ asked'["run"] > 0
  PROVE  Ordered'
<1>1. CASE to_child' = to_child
  BY <1>1 DEF Ordered
<1>2. CASE to_child' = Append(to_child, cmd)
  <2>1. to_child \in Seq(ChildCmd)  BY DEF WrapperTypeOK
  <2>2. /\ to_child' # << >> /\ DOMAIN to_child' = DOMAIN to_child \cup {Len(to_child) + 1}
        /\ \A i \in DOMAIN to_child : to_child'[i] = to_child[i]
        /\ to_child'[Len(to_child) + 1] = cmd /\ Len(to_child) + 1 \notin DOMAIN to_child
        /\ to_child # << >> => 1 \in DOMAIN to_child
    BY <1>2, <2>1
  <2>. DEFINE n == Len(to_child) + 1
  <2>. HIDE DEF n
  <2>3. /\ DOMAIN to_child' = DOMAIN to_child \cup {n} /\ to_child'[n] = cmd
        /\ n \notin DOMAIN to_child
    BY <2>2 DEF n
  <2>4. cmd = "run" => ~is_running
    BY DEF Ordered
  <2>5. cmd = "run" => \A i \in DOMAIN to_child : to_child[i] # "run"
    BY DEF Ordered
  <2>6. proc' # "none" /\ ~topology_local' => to_child' # << >> /\ to_child'[1] = "init"
    BY <2>2 DEF Ordered
  <2>7. ASSUME NEW i \in DOMAIN to_child'
        PROVE  /\ to_child'[i] = "init" => i = 1 /\ ~topology_local'
               /\ to_child'[i] # "pause"
               /\ to_child'[i] = "run" => ~is_running' /\ asked'["run"] > 0
    BY <2>2, <2>3, <2>4 DEF Ordered
  <2>8. ASSUME NEW i \in DOMAIN to_child', NEW j \in DOMAIN to_child',
               to_child'[i] = "run", to_child'[j] = "run"
        PROVE  i = j
    BY <2>2, <2>3, <2>5, <2>8 DEF Ordered
  <2>. QED  BY <2>6, <2>7, <2>8 DEF Ordered
<1>. QED  BY <1>1, <1>2 DEF Send

\* The child takes the next command.
LEMMA TailKeepsOrder ==
  ASSUME WrapperTypeOK, Ordered, proc # "none", to_child # << >>,
         to_child' = Tail(to_child), UNCHANGED <<proc, asked>>, topology_local',
         is_running' => is_running \/ Head(to_child) = "run"
  PROVE  Ordered'
<1>1. to_child \in Seq(ChildCmd)  BY DEF WrapperTypeOK
<1>2. /\ 1 \in DOMAIN to_child /\ Head(to_child) = to_child[1]
      /\ \A i \in DOMAIN to_child' : /\ i + 1 \in DOMAIN to_child /\ i + 1 # 1 /\ i \in Nat
                                     /\ to_child'[i] = to_child[i + 1]
  BY <1>1
<1>3. \A i \in DOMAIN to_child' : to_child'[i] # "init" /\ to_child'[i] # "pause"
  BY <1>2 DEF Ordered
<1>4. \A i \in DOMAIN to_child' :
        to_child'[i] = "run" => ~is_running' /\ asked'["run"] > 0
  BY <1>2 DEF Ordered
<1>5. ASSUME NEW i \in DOMAIN to_child', NEW j \in DOMAIN to_child',
             to_child'[i] = "run", to_child'[j] = "run"
      PROVE  i = j
  <2>1. i + 1 = j + 1  BY <1>2, <1>5 DEF Ordered
  <2>. QED  BY <1>2, <2>1
<1>6. is_running' => asked'["run"] > 0
  BY <1>2 DEF Ordered
<1>. QED  BY <1>3, <1>4, <1>5, <1>6 DEF Ordered

LEMMA OrderFrame ==
  ASSUME Ordered, UNCHANGED <<to_child, topology_local>>, is_running' => is_running,
         (proc' = "none") = (proc = "none"),
         asked["run"] > 0 => asked'["run"] > 0
  PROVE  Ordered'
BY DEF Ordered

---------------------------------------------------------------------------
(* The messages of the child.                                              *)

\* An answer without an error is as good as what was sent before.
LEMMA GoodAnswer ==
  ASSUME WrapperTypeOK, parent, NEW cmd \in ChildCmd, SendToParent(cmd, FALSE),
         \A i \in DOMAIN to_parent : ~to_parent[i].err
  PROVE  /\ \A i \in DOMAIN to_parent' : ~to_parent'[i].err
         /\ \E i \in DOMAIN to_parent' : to_parent'[i].cmd = cmd
         /\ \A c : (\E i \in DOMAIN to_parent : to_parent[i].cmd = c)
                     => \E i \in DOMAIN to_parent' : to_parent'[i].cmd = c
<1>. DEFINE msg == [cmd |-> cmd, err |-> FALSE]
<1>1. to_parent \in Seq(ChildMsg) /\ to_parent' = Append(to_parent, msg)
  BY DEF WrapperTypeOK, SendToParent
<1>2. ~msg.err /\ msg.cmd = cmd  OBVIOUS
<1>. HIDE DEF msg
<1>3. /\ DOMAIN to_parent' = DOMAIN to_parent \cup {Len(to_parent) + 1}
      /\ \A i \in DOMAIN to_parent : to_parent'[i] = to_parent[i]
      /\ to_parent'[Len(to_parent) + 1] = msg
  BY <1>1
<1>. QED  BY <1>2, <1>3

\* What is on the way answers the shutdown, if anything does.
ShutdownSaid ==
  \/ received_shutdown_response
  \/ \E i \in DOMAIN to_parent : to_parent[i].cmd = "shutdown"

LEMMA ShutdownStays ==
  ASSUME ProxyInv, Orderly, parent, Shutdown, topology_local, UNCHANGED parent,
         UNCHANGED proxy_vars, UNCHANGED <<pinging, proc, exit_code>>
  PROVE  Answered' /\ Ended' /\ NoErrors' /\ topology_local' /\ (is_running' => is_running)
<1>1. \/ UNCHANGED <<to_parent, topology_vars, watching, exiting>>
      \/ is_running' = FALSE /\ UNCHANGED <<to_parent, topology_local, initializing, exiting>>
  BY DEF Shutdown
<1>2. UNCHANGED <<to_parent, exiting, topology_local>>
  BY <1>1, Zenon DEF topology_vars
<1>3. is_running' => is_running
  BY <1>1, Zenon DEF topology_vars
<1>. QED
  BY <1>2, <1>3 DEF Orderly, Answered, Ended, NoErrors, proxy_vars, call_vars

LEMMA HandleStaysOrderly ==
  ASSUME Quiet, ProxyInv, Orderly, parent, Handle, UNCHANGED proxy_vars
  PROVE  Orderly'
<1>. DEFINE cmd == Head(to_child)
<1>1. /\ proc = "running" /\ to_child # << >> /\ to_child' = Tail(to_child)
      /\ UNCHANGED <<parent, pinging, proc, exit_code, signals>>
      /\ WrapperTypeOK /\ UNCHANGED <<asked, received_shutdown_response, cb, errors,
                                      last_child_err, exit_err>>
  BY DEF Handle, Running, ProxyInv, ProxyTypeOK, proxy_vars, call_vars
<1>2. to_child \in Seq(ChildCmd) /\ cmd = to_child[1] /\ 1 \in DOMAIN to_child
  BY <1>1 DEF WrapperTypeOK
<1>. HIDE DEF cmd
<1>3. ~topology_local <=> cmd = "init"
  BY <1>1, <1>2 DEF Orderly, Ordered
<1>4. cmd # "pause"
  BY <1>2 DEF Orderly, Ordered
<1>5. CASE cmd = "init"
  <2>1. /\ topology_local' = TRUE /\ UNCHANGED <<to_parent, is_running, stopping, exiting>>
    BY <1>3, <1>5 DEF Quiet, Handle, HandleInit, cmd
  <2>2. Ordered'  BY <1>1, <2>1, TailKeepsOrder DEF Orderly
  <2>. QED  BY <1>1, <2>1, <2>2 DEF Orderly, Answered, Ended, NoErrors
<1>6. CASE cmd = "run"
  <2>1. topology_local /\ ~is_running
    BY <1>2, <1>3, <1>6 DEF Orderly, Ordered
  <2>2. /\ is_running' = TRUE /\ SendToParent("run", FALSE)
        /\ UNCHANGED <<exiting, topology_local, stopping>>
    BY <1>6, <2>1 DEF Handle, HandleSwitch, cmd
  <2>3. Ordered'  BY <1>1, <1>6, <2>1, <2>2, TailKeepsOrder DEF Orderly, cmd
  <2>4. /\ \A i \in DOMAIN to_parent' : ~to_parent'[i].err
        /\ ShutdownSaid => ShutdownSaid'
    BY <1>1, <2>2, GoodAnswer DEF Orderly, NoErrors, ChildCmd, ShutdownSaid
  <2>. QED
    BY <1>1, <2>2, <2>3, <2>4
    DEF Orderly, Answered, Ended, NoErrors, ShutdownSaid
<1>7. CASE cmd = "shutdown"
  <2>1. topology_local /\ Shutdown
    BY <1>3, <1>7 DEF Handle, cmd
  <2>2. Answered' /\ Ended' /\ NoErrors' /\ topology_local' /\ (is_running' => is_running)
    BY <1>1, <2>1, ShutdownStays
  <2>3. Ordered'  BY <1>1, <2>2, TailKeepsOrder DEF Orderly
  <2>. QED  BY <2>2, <2>3 DEF Orderly
<1>. QED  BY <1>2, <1>4, <1>5, <1>6, <1>7 DEF ChildCmd

LEMMA InitDoneStaysOrderly ==
  ASSUME Quiet, ProxyInv, Orderly, parent, InitDone, UNCHANGED proxy_vars
  PROVE  Orderly'
<1>1. /\ UNCHANGED <<parent, pinging, to_child, proc, exit_code, topology_local,
                     is_running, stopping, exiting>>
      /\ UNCHANGED <<asked, received_shutdown_response, cb, errors, last_child_err,
                     exit_err>>
      /\ SendToParent("init", FALSE)
  BY DEF InitDone, Quiet, proxy_vars, call_vars
<1>2. /\ \A i \in DOMAIN to_parent' : ~to_parent'[i].err
      /\ ShutdownSaid => ShutdownSaid'
  BY <1>1, GoodAnswer
  DEF Orderly, NoErrors, ChildCmd, ShutdownSaid, ProxyInv, ProxyTypeOK
<1>3. Ordered'  BY <1>1, OrderFrame DEF Orderly
<1>. QED
  BY <1>1, <1>2, <1>3 DEF Orderly, Answered, Ended, NoErrors, ShutdownSaid

LEMMA ShutdownDoneStaysOrderly ==
  ASSUME Quiet, ProxyInv, Orderly, parent, ShutdownDone, UNCHANGED proxy_vars
  PROVE  Orderly'
<1>1. /\ UNCHANGED <<parent, pinging, to_child, proc, exit_code, topology_local,
                     is_running>>
      /\ UNCHANGED <<asked, received_shutdown_response, cb, errors, last_child_err,
                     exit_err>>
      /\ SendToParent("shutdown", FALSE) /\ exiting' = IF exiting = "no" THEN "ok" ELSE exiting
      /\ stopping /\ stopping' = FALSE /\ proc = "running"
  BY DEF ShutdownDone, SendAndExit, Running, Quiet, proxy_vars, call_vars
<1>2. /\ \A i \in DOMAIN to_parent' : ~to_parent'[i].err
      /\ ShutdownSaid'
  BY <1>1, GoodAnswer
  DEF Orderly, NoErrors, ChildCmd, ShutdownSaid, ProxyInv, ProxyTypeOK
<1>3. Ordered'  BY <1>1, OrderFrame DEF Orderly
<1>. QED
  BY <1>1, <1>2, <1>3 DEF Orderly, Answered, Ended, NoErrors, ShutdownSaid

\* A signal is either like a shutdown or an excuse.
LEMMA SignalStaysQuiet ==
  ASSUME Quiet, ProxyInv, Orderly, parent, NEW s \in Signals, Signal(s),
         UNCHANGED proxy_vars
  PROVE  Excused' \/ Orderly'
<1>1. /\ UNCHANGED <<parent, pinging, to_child, proc, exit_code>> /\ Shutdown
      /\ signals' # {} /\ proc = "running" /\ UNCHANGED asked
  BY DEF Signal, Running, proxy_vars, call_vars
<1>2. CASE topology_local
  <2>1. Answered' /\ Ended' /\ NoErrors' /\ topology_local' /\ (is_running' => is_running)
    BY <1>1, <1>2, ShutdownStays
  <2>2. Ordered'  BY <1>1, <1>2, <2>1, OrderFrame DEF Orderly
  <2>. QED  BY <2>1, <2>2 DEF Orderly
<1>3. CASE ~topology_local
  <2>1. exiting' = IF exiting = "no" THEN "failed" ELSE exiting
    BY <1>1, <1>3 DEF Shutdown, SendAndExit
  <2>2. exiting = "no"
    BY <1>3 DEF Orderly, Answered, NoErrors, ProxyInv, ProxyTypeOK, WrapperTypeOK
  <2>. QED  BY <1>1, <2>1, <2>2 DEF Excused
<1>. QED  BY <1>2, <1>3

\* The process exits after an answer, or of a second signal.
LEMMA ExitStaysOrderly ==
  ASSUME ProxyInv, Orderly, Exit \/ \E s \in Signals : SignalAgain(s),
         UNCHANGED proxy_vars
  PROVE  Orderly'
<1>1. /\ UNCHANGED <<parent, pinging, channel_vars, topology_vars, exiting>>
      /\ UNCHANGED <<asked, received_shutdown_response, cb, errors, last_child_err,
                     exit_err>>
      /\ proc = "running" /\ proc' = "exited"
  BY DEF Exit, SignalAgain, Exits, Running, proxy_vars, call_vars
<1>2. exit_code' = "signal" \/ (exit_code' = "ok" /\ exiting = "ok")
  BY DEF Exit, SignalAgain, Exits, Orderly, NoErrors, ProxyInv, ProxyTypeOK, WrapperTypeOK
<1>3. Ordered'  BY <1>1, OrderFrame DEF Orderly, channel_vars, topology_vars
<1>. QED
  BY <1>1, <1>2, <1>3
  DEF Orderly, Answered, Ended, NoErrors, channel_vars, topology_vars

LEMMA ChildStaysQuiet ==
  ASSUME Quiet, ProxyInv, Orderly, parent, WrapperStep, UNCHANGED proxy_vars
  PROVE  Excused' \/ Orderly'
<1>1. ~InternalError /\ ~Crash /\ ~GiveUpOnParent
  BY DEF Quiet, InternalError, Crash, GiveUpOnParent, Abandoned, Running, Orderly, Ended
<1>. QED
  BY <1>1, HandleStaysOrderly, InitDoneStaysOrderly, ShutdownDoneStaysOrderly,
     SignalStaysQuiet, ExitStaysOrderly
  DEF WrapperStep

---------------------------------------------------------------------------
(* The calls of the worker and the events of the proxy.                    *)

LEMMA CallsStayOrderly ==
  ASSUME Quiet, ProxyInv, Orderly, WorkerCalls
  PROVE  Orderly'
<1>. USE DEF ProxyInv, ProxyTypeOK
<1>0. asked \in [Method -> Nat] /\ cb \in [Cmd -> Callback] /\ told \in [Method -> Nat]
      /\ WrapperTypeOK
  OBVIOUS
<1>1. CASE Init
  <2>0. /\ asked' = [asked EXCEPT !["init"] = @ + 1]
        /\ UNCHANGED <<to_parent, received_shutdown_response, errors, last_child_err,
                       exit_err>>
    BY <1>1 DEF Init, Called
  <2>1. asked'["run"] = asked["run"]
    BY <1>0, <2>0, Methods
  <2>2. CASE cb["init"] # "null" \/ proc # "none"
    <3>1. UNCHANGED <<pinging, to_child, wrapper_vars, cb>>
      BY <1>1, <2>2 DEF Init
    <3>2. Ordered'
      BY <2>1, <3>1, OrderFrame DEF Orderly, wrapper_vars, topology_vars
    <3>. QED
      BY <2>0, <3>1, <3>2
      DEF Orderly, Answered, Ended, NoErrors, wrapper_vars, topology_vars
  <2>3. CASE cb["init"] = "null" /\ proc = "none"
    <3>1. /\ pinging' = TRUE /\ to_child' = <<"init">> /\ Keep("init")
          /\ proc' = "running" /\ UNCHANGED <<exit_code, topology_vars, exiting>>
      BY <1>1, <2>3 DEF Init, Fork
    <3>2. ~topology_local /\ ~topology_local'
      BY <2>3, <3>1 DEF Orderly, Ordered, topology_vars
    <3>3. DOMAIN to_child' = {1} /\ to_child'[1] = "init" /\ to_child' # << >>
      BY <3>1
    <3>4. is_running' => asked'["run"] > 0
      BY <2>1, <3>1 DEF Orderly, Ordered, topology_vars
    <3>5. Ordered'
      BY <3>1, <3>2, <3>3, <3>4 DEF Ordered
    <3>6. cb'["shutdown"] = cb["shutdown"]
      BY <1>0, <3>1, Methods DEF Keep
    <3>. QED
      BY <2>0, <2>3, <3>1, <3>5, <3>6
      DEF Orderly, Answered, Ended, NoErrors, topology_vars
  <2>. QED  BY <2>2, <2>3
<1>2. CASE Switch("run") \/ Switch("pause")
  <2>1. ~Switch("pause")
    BY <1>0, Methods DEF Quiet, Switch, Called
  <2>2. /\ proc # "none" /\ asked["run"] < MaxCalls["run"]
        /\ asked' = [asked EXCEPT !["run"] = @ + 1]
        /\ UNCHANGED <<pinging, to_parent, wrapper_vars, received_shutdown_response,
                       last_child_err, errors, exit_err>>
        /\ \/ UNCHANGED <<to_child, cb>>
           \/ Keep("run") /\ Send("run")
    BY <1>2, <2>1 DEF Switch, Called
  <2>3. ~(asked["run"] > 0) /\ asked'["run"] > 0
    <3>1. "run" \in Method /\ asked["run"] \in Nat /\ MaxCalls["run"] \in Nat
      BY <1>0, Methods, CallsAreBounded
    <3>2. asked["run"] = 0
      BY <2>2, <3>1 DEF Quiet
    <3>3. asked'["run"] = 1
      BY <1>0, <2>2, <3>1, <3>2
    <3>. QED  BY <3>2, <3>3
  <2>4. cb'["shutdown"] = cb["shutdown"]
    BY <1>0, <2>2, Methods DEF Keep
  <2>5. Ordered'
    BY <1>0, <2>2, <2>3, OrderFrame, SendKeepsOrder DEF Orderly, wrapper_vars, topology_vars
  <2>. QED
    BY <2>2, <2>4, <2>5
    DEF Orderly, Answered, Ended, NoErrors, wrapper_vars, topology_vars
<1>3. CASE ShutdownCall
  <2>1. /\ proc # "none" /\ asked' = [asked EXCEPT !["shutdown"] = @ + 1]
        /\ UNCHANGED <<pinging, to_parent, wrapper_vars, received_shutdown_response,
                       last_child_err, errors, exit_err>>
        /\ to_child' = to_child \/ Send("shutdown")
    BY <1>3 DEF ShutdownCall, Called
  <2>2. asked'["run"] = asked["run"]
    BY <1>0, <2>1, Methods
  <2>3. received_shutdown_response => cb'["shutdown"] # "caller"
    BY <1>0, <1>3, Methods DEF ShutdownCall, Orderly, Answered, Keep
  <2>4. Ordered'
    BY <1>0, <2>1, <2>2, OrderFrame, SendKeepsOrder DEF Orderly, wrapper_vars, topology_vars
  <2>. QED
    BY <2>1, <2>3, <2>4
    DEF Orderly, Answered, Ended, NoErrors, wrapper_vars, topology_vars
<1>4. CASE Kill
  <2>1. /\ asked' = [asked EXCEPT !["kill"] = @ + 1] /\ SendKill(has_exited)
        /\ UNCHANGED <<pinging, channel_vars, cb, received_shutdown_response,
                       last_child_err, errors, exit_err>>
    BY <1>4 DEF Kill, Called
  <2>2. asked'["run"] = asked["run"]
    BY <1>0, <2>1, Methods
  <2>3. /\ UNCHANGED <<topology_vars, exiting>>
        /\ \/ UNCHANGED <<proc, exit_code>>
           \/ proc = "running" /\ proc' = "exited" /\ exit_code' = "signal"
    BY <2>1 DEF SendKill, Exits, Running
  <2>4. Ordered'
    BY <2>1, <2>2, <2>3, OrderFrame DEF Orderly, channel_vars, topology_vars
  <2>. QED
    BY <2>1, <2>3, <2>4
    DEF Orderly, Answered, Ended, NoErrors, channel_vars, topology_vars
<1>. QED  BY <1>1, <1>2, <1>3, <1>4 DEF WorkerCalls

LEMMA ReceiveStaysOrderly ==
  ASSUME ProxyInv, Orderly, Receive
  PROVE  Orderly'
<1>. DEFINE msg == Head(to_parent)
<1>1. /\ to_parent # << >> /\ to_parent' = Tail(to_parent)
      /\ UNCHANGED <<pinging, to_child, wrapper_vars, asked, exit_err>>
      /\ last_child_err' = (last_child_err \/ msg.err)
      /\ received_shutdown_response' =
           (received_shutdown_response \/ msg.cmd = "shutdown")
      /\ \/ msg.cmd = "error" /\ UNCHANGED <<cb, errors>>
         \/ msg.cmd # "error" /\ CallBack(msg.cmd, msg.err)
  BY DEF Receive
<1>2. /\ to_parent \in Seq(ChildMsg) /\ cb \in [Cmd -> Callback]
  BY DEF ProxyInv, ProxyTypeOK, WrapperTypeOK
<1>3. /\ msg = to_parent[1] /\ 1 \in DOMAIN to_parent /\ msg \in ChildMsg
      /\ \A i \in DOMAIN to_parent' : /\ i + 1 \in DOMAIN to_parent
                                      /\ to_parent'[i] = to_parent[i + 1]
      /\ \A i \in DOMAIN to_parent : i = 1 \/ (/\ i - 1 \in DOMAIN to_parent'
                                               /\ to_parent'[i - 1] = to_parent[i])
  BY <1>1, <1>2
<1>. HIDE DEF msg
<1>4. ~msg.err  BY <1>3 DEF Orderly, NoErrors
<1>5. \A i \in DOMAIN to_parent' : ~to_parent'[i].err
  BY <1>3 DEF Orderly, NoErrors
<1>6. ShutdownSaid => ShutdownSaid'
  BY <1>1, <1>3 DEF ShutdownSaid
<1>7. UNCHANGED errors
  BY <1>1, <1>4 DEF CallBack
<1>8. received_shutdown_response' => cb'["shutdown"] # "caller"
  <2>1. CASE msg.cmd = "error"
    BY <1>1, <2>1 DEF Orderly, Answered
  <2>2. CASE msg.cmd # "error"
    <3>1. cb' = [cb EXCEPT ![msg.cmd] = "null"]
      BY <1>1, <2>2 DEF CallBack
    <3>. QED  BY <1>1, <1>2, <3>1, Methods DEF Orderly, Answered
  <2>. QED  BY <2>1, <2>2
<1>9. Ordered'
  BY <1>1, OrderFrame DEF Orderly, wrapper_vars, topology_vars
<1>. QED
  BY <1>1, <1>4, <1>5, <1>6, <1>7, <1>8, <1>9
  DEF Orderly, Answered, Ended, NoErrors, ShutdownSaid, wrapper_vars, topology_vars

\* The exit comes after all messages.
LEMMA ExitEventStaysOrderly ==
  ASSUME Quiet, ProxyInv, Orderly, ExitEvent
  PROVE  Orderly'
<1>1. /\ proc = "exited" /\ to_parent = << >>
      /\ UNCHANGED <<channel_vars, wrapper_vars, received_shutdown_response,
                     last_child_err, asked>>
      /\ OnExitUnlessCalled(last_child_err \/ exit_code = "failed")
  BY DEF ExitEvent, Quiet
<1>2. Ordered'
  BY <1>1, OrderFrame DEF Orderly, channel_vars, wrapper_vars, topology_vars
<1>3. ~(last_child_err \/ exit_code = "failed")
  BY <1>1 DEF Orderly, NoErrors, Ended
<1>4. exit_code = "ok" => "shutdown" \notin Waiting
  <2>1. exit_code = "ok" => exiting = "ok"  BY <1>1 DEF Orderly, Ended
  <2>2. DOMAIN to_parent = {}  BY <1>1
  <2>. QED  BY <2>1, <2>2 DEF Orderly, Answered, Waiting
<1>5. "shutdown" \in errors' => exit_code = "signal"
  BY <1>1, <1>4 DEF OnExitUnlessCalled, OnExit, Orderly, Ended
<1>6. ~exit_err'
  BY <1>1, <1>3 DEF OnExitUnlessCalled, OnExit, Orderly, NoErrors
<1>7. cb' = cb \/ cb' = [c \in Cmd |-> "null"]
  BY <1>1 DEF OnExitUnlessCalled, OnExit
<1>8. received_shutdown_response => cb'["shutdown"] # "caller"
  BY <1>7, Methods DEF Orderly, Answered
<1>. QED
  BY <1>1, <1>2, <1>5, <1>6, <1>8
  DEF Orderly, Answered, Ended, NoErrors, channel_vars, wrapper_vars, topology_vars

LEMMA TimerStaysOrderly ==
  ASSUME Orderly, KillTimer
  PROVE  Orderly'
<1>1. UNCHANGED <<pinging, channel_vars, wrapper_vars, cb, received_shutdown_response,
                  last_child_err, asked, errors, exit_err>>
  BY DEF KillTimer
<1>2. Ordered'
  BY <1>1, OrderFrame DEF Orderly, channel_vars, wrapper_vars, topology_vars
<1>. QED
  BY <1>1, <1>2
  DEF Orderly, Answered, Ended, NoErrors, channel_vars, wrapper_vars, topology_vars

LEMMA QuietStep ==
  ASSUME Quiet, ProxyInv, QuietInv, [ProxyNext]_vars
  PROVE  QuietInv'
<1>1. CASE UNCHANGED vars
  <2>1. Ordered => Ordered'
    BY <1>1, OrderFrame
    DEF vars, channel_vars, wrapper_vars, topology_vars, proxy_vars, call_vars
  <2>. QED
    BY <1>1, <2>1
    DEF vars, channel_vars, wrapper_vars, topology_vars, proxy_vars, call_vars,
        QuietInv, Excused, Orderly, Answered, Ended, NoErrors
<1>2. CASE ProxyNext
  <2>1. ~ErrorEvent /\ ~GiveUpOnChild /\ ~ParentDies
    BY DEF Quiet, ErrorEvent, GiveUpOnChild, ParentDies
  <2>2. UNCHANGED parent
    BY <1>2, <2>1, ChildStep
    DEF ProxyNext, WorkerCalls, Init, Switch, ShutdownCall, Kill, ProxyStep, KillTimer,
        Receive, ExitEvent
  <2>3. CASE Excused
    BY <1>2, <2>2, <2>3, ExcusedStays DEF QuietInv
  <2>4. CASE Orderly
    BY <1>2, <2>1, <2>2, <2>4, ChildStaysQuiet, CallsStayOrderly, ReceiveStaysOrderly,
       ExitEventStaysOrderly, TimerStaysOrderly
    DEF QuietInv, ProxyNext, ProxyStep
  <2>. QED  BY <2>3, <2>4 DEF QuietInv
<1>. QED  BY <1>1, <1>2

\* If nothing fails, events come in order and the worker runs a topology once,
\* then however often it shuts it down or kills it, and whatever signals come, the
\* end is reported as an error only for a child that was signalled before it knew
\* its topology, and a shutdown fails only for that or for a kill.
THEOREM EndsAreQuiet ==
  ASSUME Failures = {}, ~ExitOvertakes, MaxCalls["run"] <= 1, MaxCalls["pause"] = 0
  PROVE  ProxySpec => []QuietEnd
<1>1. Quiet  BY DEF Quiet
<1>2. ProxyInit => QuietInv
  BY DEF ProxyInit, WrapperInit, QuietInv, Orderly, Ordered, Answered, Ended, NoErrors
<1>3. ProxyInv /\ QuietInv /\ [ProxyNext]_vars => QuietInv'
  BY <1>1, QuietStep
<1>4. QuietInv => QuietEnd
  BY DEF QuietInv, Excused, Orderly, Ended, NoErrors, QuietEnd
<1>. QED  BY <1>2, <1>3, <1>4, ProxyInvariant, PTL DEF ProxySpec
=============================================================================
