-------------------------- MODULE TopologyCompiler --------------------------
(***************************************************************************)
(* TopologyCompiler (topology_compiler.ts): variables are injected into    *)
(* each other and into the texts of the nodes, and the nodes' names are    *)
(* checked.  A text is a sequence of symbols; a symbol that is a variable  *)
(* stands for ${variable}.  A node has one text, for its working_dir, cmd  *)
(* and init, and another that says whether it is disabled; an input that   *)
(* is disabled is treated like a node.  The tasks of initialization and    *)
(* shutdown have no text for their cmd, which the code leaves as it is.    *)
(***************************************************************************)
EXTENDS Naturals, Sequences, FiniteSets

CONSTANTS
  VariableNames,   \* a sequence: the order in which the variables are defined
  Symbols,         \* what texts are made of
  Configs          \* records: variables, tasks, spouts and bolts

Names == {VariableNames[n] : n \in DOMAIN VariableNames}
Text == Seq(Symbols)

IsNode(node) ==
  /\ node = [name |-> node.name, text |-> node.text, disabled |-> node.disabled,
             inputs |-> node.inputs]
  /\ node.text \in Text

IsNodes(nodes) ==
  /\ nodes \in Seq({nodes[i] : i \in DOMAIN nodes})
  /\ \A i \in DOMAIN nodes : IsNode(nodes[i])

ASSUME CompilerAssumption ==
  /\ VariableNames \in Seq(Names)
  /\ \A m, n \in DOMAIN VariableNames : VariableNames[m] = VariableNames[n] => m = n
  /\ \A c \in Configs :
       /\ c = [variables |-> c.variables, tasks |-> c.tasks, spouts |-> c.spouts,
               bolts |-> c.bolts]
       /\ c.variables \in [Names -> Text]
       /\ IsNodes(c.tasks) /\ IsNodes(c.spouts) /\ IsNodes(c.bolts)

VARIABLES
  given,    \* the configuration that was given
  config,   \* ... and what became of it
  compile   \* "no", "done" or the error

compiler_vars == <<given, config, compile>>

CompilerInit == given \in Configs /\ config = given /\ compile = "no"

---------------------------------------------------------------------------
\* String.replace with a pattern that is not global.
ReplaceFirst(text, v, value) ==
  IF \A i \in DOMAIN text : text[i] # v THEN text
  ELSE LET first == CHOOSE i \in DOMAIN text : text[i] = v /\ \A j \in 1..(i - 1) : text[j] # v
       IN  SubSeq(text, 1, first - 1) \o value \o SubSeq(text, first + 1, Len(text))

InjectVars(text, vars) ==
  LET after[n \in 0..Len(VariableNames)] ==
        IF n = 0 THEN text
        ELSE ReplaceFirst(after[n - 1], VariableNames[n], vars[VariableNames[n]])
  IN  after[Len(VariableNames)]

\* Fault: the variables are used as they are written (breaks CompilerResolves).
VarsAsWritten(vars) == vars

\* The variables one after the other, each with those before it resolved.
ResolveAllVars(vars) ==
  LET after[n \in 0..Len(VariableNames)] ==
        IF n = 0 THEN vars
        ELSE LET resolved == after[n - 1]
             IN  [resolved EXCEPT ![VariableNames[n]] = InjectVars(@, resolved)]
  IN  after[Len(VariableNames)]

\* A node after injection.
Injected(node, vars) ==
  [node EXCEPT !.text = InjectVars(@, vars),
               !.disabled = (InjectVars(@, vars) = <<"true">>)]

\* The names of the first nodes; spouts come before bolts.
NodesOf(c) == c.spouts \o c.bolts

OccursTwice(c) ==
  \E i, j \in DOMAIN NodesOf(c) : i < j /\ NodesOf(c)[i].name = NodesOf(c)[j].name

UnknownSource(c) ==
  \E i \in DOMAIN c.bolts : \E source \in c.bolts[i].inputs :
    \A j \in DOMAIN NodesOf(c) : NodesOf(c)[j].name # source

\* Nodes before the one whose name occurs again have been changed already when
\* compile throws; nobody uses the configuration then.
Compile ==
  /\ compile = "no"
  /\ IF OccursTwice(config)
     THEN compile' = "occurs several times" /\ UNCHANGED config
     ELSE LET vars == ResolveAllVars(config.variables)
              All(nodes) == [i \in DOMAIN nodes |-> Injected(nodes[i], vars)]
          IN  /\ config' = [config EXCEPT !.variables = vars, !.tasks = All(@),
                                          !.spouts = All(@), !.bolts = All(@)]
              /\ compile' = IF UnknownSource(config) THEN "unknown input source" ELSE "done"
  /\ UNCHANGED given

CompilerNext == Compile

CompilerSpec == CompilerInit /\ [][CompilerNext]_compiler_vars

---------------------------------------------------------------------------
(* Properties.                                                             *)

PositionOf(v) == CHOOSE i \in DOMAIN VariableNames : VariableNames[i] = v

\* A text with the values of variables in their place.
Substituted(text, values) ==
  LET upto[n \in 0..Len(text)] ==
        IF n = 0 THEN << >>
        ELSE upto[n - 1] \o (IF text[n] \in DOMAIN values THEN values[text[n]] ELSE <<text[n]>>)
  IN  upto[Len(text)]

\* What a text means, with all its variables replaced as long as there are any.
Meaning(text, vars) ==
  LET after[n \in 0..Len(VariableNames)] ==
        IF n = 0 THEN text ELSE Substituted(after[n - 1], vars)
  IN  after[Len(VariableNames)]

OnceEach(text, vars) ==
  \A i, j \in DOMAIN text : i # j /\ text[i] = text[j] => text[i] \notin DOMAIN vars

\* Where variables refer to earlier ones and no text has the same variable twice,
\* all texts of the compiled topology mean what they meant, with no variable
\* left, and what is disabled follows from it; a compiled topology has nodes with
\* different names that take their data from nodes.
CompilerResolves ==
  compile = "done" =>
    /\ Cardinality({NodesOf(config)[i].name : i \in DOMAIN NodesOf(config)})
         = Len(NodesOf(config))
    /\ \A i \in DOMAIN config.bolts :
         config.bolts[i].inputs \subseteq {NodesOf(config)[j].name : j \in DOMAIN NodesOf(config)}
    /\ LET vars == given.variables
           before == given.tasks \o NodesOf(given)
           after == config.tasks \o NodesOf(config)
       IN  /\ \A v \in DOMAIN vars :
                /\ OnceEach(vars[v], vars)
                /\ \A i \in DOMAIN vars[v] :
                     vars[v][i] \in DOMAIN vars => PositionOf(vars[v][i]) < PositionOf(v)
           => \A i \in DOMAIN before :
                OnceEach(before[i].text, vars) =>
                  /\ after[i].text = Meaning(before[i].text, vars)
                  /\ before[i].disabled = before[i].text =>
                       after[i].disabled = (Meaning(before[i].text, vars) = <<"true">>)
=============================================================================
