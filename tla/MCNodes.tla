------------------------------- MODULE MCNodes -------------------------------
(***************************************************************************)
(* The standard nodes and the utilities that keep state of their own, each *)
(* alone: a behaviour is one of a single part, chosen at the start.  The   *)
(* constants of the modules have the same names here.                      *)
(***************************************************************************)
EXTENDS FileAppendBolt, FileAppendBoltEx, AccumulatorBolt, LoadBalancer,
        ChildProcRestarter, QueueSpouts, TaskBolt, StorageFrontends, TopologyCompiler

VARIABLE part

\* Two sets of tags, two values, one of them negative, and two partitions.
MCMessages ==
  {[ptags |-> p, tags |-> t, values |-> [f \in {"m"} |-> v]] :
     p \in {<< >>, <<"p">>}, t \in {{1}, {1, 2}}, v \in {-2, 4}}
  \cup {[ptags |-> <<"q">>, tags |-> {1}, values |-> [f \in {"m"} |-> 4]]}
\* No affinity, or to the first worker.
MCAffinities == {{}, {1}}

\* Variables that refer to each other in many ways, and one spout and two bolts
\* whose names and sources are any.
MCVariableNames == <<"A", "B", "C">>
MCSymbols == {"A", "B", "C", "true"}
MCTexts == {<<"true">>, <<"A">>, <<"B", "A">>, <<"A", "A">>, <<"C">>}
MCNode(text, name, inputs) ==
  [name |-> name, text |-> text, disabled |-> text, inputs |-> inputs]
MCConfig(vars, text, names, source) ==
  [variables |-> vars, tasks |-> <<MCNode(text, "init", {})>>,
   spouts |-> <<MCNode(text, names[1], {})>>,
   bolts |-> <<MCNode(text, names[2], {source}), MCNode(text, names[3], {names[1]})>>]
MCConfigs ==
  {MCConfig(vars, text, <<"s", "b", "c">>, "c") :
     vars \in [{"A", "B", "C"} -> MCTexts], text \in MCTexts}
  \cup {MCConfig([v \in {"A", "B", "C"} |-> <<"true">>], <<"A">>, names, source) :
     names \in [1..3 -> {"s", "b", "c"}], source \in {"s", "b", "c"}}
SomeConfig ==
  MCConfig([v \in {"A", "B", "C"} |-> <<"C">>], <<"C">>, <<"s", "b", "c">>, "c")

\* The zip of a file of the third period may fail.
MCFailingZips == {<<2, "x">>}

Parts == {"frontends", "compiler", "append", "csv", "buckets", "accumulator", "balancer", "restarter", "spout", "task"}

\* A part that does not take part has one initial state.
NodesInit ==
  /\ part \in Parts
  /\ BucketInit
  /\ FileAppendInit /\ (part # "append" => propagate_errors)
  /\ CsvInit /\ (part # "csv" => direct_fields = "known")
  /\ AccumulatorInit /\ (part # "accumulator" => ~emit_zero_counts /\ ~partitioned)
  /\ BalanceInit /\ (part # "balancer" => alive = {})
  /\ RestarterInit /\ (part # "restarter" => stop_score = 0)
  /\ SpoutInit /\ (part # "spout" => spout = "dir")
  /\ TaskInit
  /\ FrontendInit /\ (part # "frontends" => ~over_http)
  /\ given \in (IF part = "compiler" THEN Configs ELSE {SomeConfig})
  /\ CompilerInit

NodesNext ==
  /\ UNCHANGED part
  /\ \/ part = "append" /\ FileAppendNext
     \/ part # "append" /\ UNCHANGED append_vars
  /\ \/ part = "csv" /\ CsvNext
     \/ part # "csv" /\ UNCHANGED csv_vars
  /\ \/ part = "buckets" /\ BucketNext
     \/ part # "buckets" /\ UNCHANGED bucket_vars
  /\ \/ part = "accumulator" /\ AccumulatorNext
     \/ part # "accumulator" /\ UNCHANGED accumulator_vars
  /\ \/ part = "balancer" /\ BalanceNext
     \/ part # "balancer" /\ UNCHANGED balance_vars
  /\ \/ part = "restarter" /\ RestarterNext
     \/ part # "restarter" /\ UNCHANGED restarter_vars
  /\ \/ part = "spout" /\ SpoutNext
     \/ part # "spout" /\ UNCHANGED spout_vars
  /\ \/ part = "task" /\ TaskNext
     \/ part # "task" /\ UNCHANGED task_vars
  /\ \/ part = "frontends" /\ FrontendNext
     \/ part # "frontends" /\ UNCHANGED frontend_vars
  /\ \/ part = "compiler" /\ CompilerNext
     \/ part # "compiler" /\ UNCHANGED compiler_vars

NodesSpec ==
  NodesInit /\ [][NodesNext]_<<part, append_vars, csv_vars, bucket_vars, accumulator_vars,
                               balance_vars, restarter_vars, spout_vars, task_vars,
                               frontend_vars, compiler_vars>>
=============================================================================
