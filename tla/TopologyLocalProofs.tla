------------------------ MODULE TopologyLocalProofs ------------------------
(***************************************************************************)
(* What waits for what in a topology: bolts work on one datum at a time,   *)
(* queues move, bolts are shut down when they are done, and an             *)
(* acknowledgement covers all that followed from a datum; for any topology *)
(* and any number of loops of its spouts.                                  *)
(***************************************************************************)
EXTENDS TopologyLocal, FiniteSetTheorems, SequenceTheorems, TLAPS

Parts == ToSet(StopOrder)
Names == [root : Roots, path : Seq(Bolts) \ {<< >>}]

\* The call that the datum of call c came from, after i bolts.
Above(c, i) == [root |-> c.root, path |-> SubSeq(c.path, 1, i)]

---------------------------------------------------------------------------
(* The inductive invariant.                                                *)

\* The variables other than the counters, the queues and the calls.
ControlTypes ==
  /\ router \in Graphs
  /\ isInitialized \in BOOLEAN /\ isRunning \in BOOLEAN
  /\ initialize \in Seq(Nodes \cup {"context"}) /\ init_answer \in Answer
  /\ isShuttingDown \in BOOLEAN /\ shutdownHardCalled \in BOOLEAN
  /\ heartbeatTimer \in BOOLEAN /\ onErrorHandler \in BOOLEAN
  /\ stop_tasks \in Seq(Parts) /\ stop_answer \in Answer
  /\ isError \in [Parts -> BOOLEAN] /\ closing \in [Parts -> BOOLEAN]
  /\ inner \in [Parts -> {"open", "closing", "closed"}]
  /\ isPaused \in [Spouts -> BOOLEAN]
  /\ pendingShutdownCallback \in [Bolts -> BOOLEAN]
  /\ pump \in [Pumps -> PumpState]

BoltTypes ==
  /\ inSend \in [Bolts -> Nat]
  /\ pendingSendRequests \in [Bolts -> Seq(Names)]
  /\ DOMAIN calls \subseteq Names
  /\ \A c \in DOMAIN calls : calls[c] \in CallState

\* The i-th bolt a datum passed waits for the next one, unless it has failed.
Linked(c, i) ==
  IF Above(c, i) \in DOMAIN calls
  THEN \/ calls[Above(c, i)] = "failed"
       \/ calls[Above(c, i)] = "emitted" /\ Above(c, i + 1) \in DOMAIN calls
  ELSE isError[BoltOf(Above(c, i))]

\* So does the loop of the spout it came from.
RootWaits(c) ==
  c.root \in Pumps =>
    IF pump[c.root] = "emitted" THEN Above(c, 1) \in DOMAIN calls
    ELSE pump[c.root] = "none" /\ isError[c.root[1]]

Chained ==
  \A c \in DOMAIN calls :
    RootWaits(c) /\ \A i \in 1..Len(c.path) - 1 : Linked(c, i)

\* What waits at a bolt is pending, for that bolt, and waits once.
Queued ==
  \A b \in Bolts :
    /\ \A i \in DOMAIN pendingSendRequests[b] :
         /\ pendingSendRequests[b][i] \in DOMAIN calls
         /\ calls[pendingSendRequests[b][i]] = "pending"
         /\ BoltOf(pendingSendRequests[b][i]) = b
    /\ \A i, j \in DOMAIN pendingSendRequests[b] :
         pendingSendRequests[b][i] = pendingSendRequests[b][j] => i = j

\* inSend counts the data the bolt works on, and those at which it failed.
Counts ==
  \A b \in Bolts :
    /\ IsFiniteSet(InProgress(b))
    /\ Cardinality(InProgress(b)) <= inSend[b]
    /\ ~isError[b] => inSend[b] = Cardinality(InProgress(b))
    /\ b \notin Parallel => inSend[b] <= 1

\* Who waits at a bolt waits for a datum it works on.
Awaited ==
  \A b \in Bolts :
    ~isError[b] => \/ inSend[b] > 0
                   \/ pendingSendRequests[b] = << >> /\ ~pendingShutdownCallback[b]

LocalInv == ControlTypes /\ BoltTypes /\ Chained /\ Queued /\ Counts /\ Awaited

---------------------------------------------------------------------------
(* Names.                                                                  *)

LEMMA PartsAre == /\ Parts = Spouts \cup Bolts \cup ToSet(Modules)
                  /\ StopOrder \in Seq(Parts) /\ Modules \in Seq(Parts)
                  /\ InitOrder \in Seq(Nodes \cup {"context"})
<1>1. /\ SpoutOrder \in Seq(Spouts) /\ BoltOrder \in Seq(Bolts)
      /\ Modules \in Seq(ToSet(Modules))
  BY LocalAssumption
<1> DEFINE All == Spouts \cup Bolts \cup ToSet(Modules)
<1>2. SpoutOrder \in Seq(All) /\ BoltOrder \in Seq(All) /\ Modules \in Seq(All)
  BY <1>1, SeqMonotonic
<1>3. StopOrder \in Seq(All)  BY <1>2, ConcatProperties DEF StopOrder
<1>4. Parts \subseteq All
  <2>1. \A i \in DOMAIN StopOrder : StopOrder[i] \in All  BY <1>3, LenProperties, ElementOfSeq
  <2> QED  BY <2>1 DEF Parts, ToSet
<1>5. All \subseteq Parts
  <2> DEFINE first == SpoutOrder \o BoltOrder
  <2>1. /\ first \in Seq(All) /\ Len(first) = Len(SpoutOrder) + Len(BoltOrder)
        /\ \A i \in 1..Len(first) :
             first[i] = IF i <= Len(SpoutOrder) THEN SpoutOrder[i]
                        ELSE BoltOrder[i - Len(SpoutOrder)]
    BY <1>2, ConcatProperties
  <2>2. StopOrder = first \o Modules  BY DEF StopOrder
  <2> HIDE DEF first
  <2>3. /\ Len(StopOrder) = Len(first) + Len(Modules)
        /\ \A i \in 1..Len(StopOrder) :
             StopOrder[i] = IF i <= Len(first) THEN first[i] ELSE Modules[i - Len(first)]
    <3>1. first \in Seq(All) /\ Modules \in Seq(All)  BY <1>2, <2>1
    <3> HIDE DEF All
    <3>2. DOMAIN (first \o Modules) = 1..Len(first) + Len(Modules)
      BY <3>1, ConcatProperties, LenProperties
    <3> QED  BY <2>2, <3>1, <3>2, ConcatProperties
  <2>4. /\ Len(SpoutOrder) \in Nat /\ Len(BoltOrder) \in Nat /\ Len(Modules) \in Nat
        /\ DOMAIN SpoutOrder = 1..Len(SpoutOrder) /\ DOMAIN BoltOrder = 1..Len(BoltOrder)
        /\ DOMAIN Modules = 1..Len(Modules) /\ DOMAIN StopOrder = 1..Len(StopOrder)
    BY <1>2, <1>3, LenProperties
  <2>5. ASSUME NEW i \in DOMAIN SpoutOrder PROVE SpoutOrder[i] \in Parts
    <3>1. i \in 1..Len(StopOrder) /\ StopOrder[i] = SpoutOrder[i]
      BY <2>1, <2>3, <2>4
    <3> QED  BY <2>4, <3>1 DEF Parts, ToSet
  <2>6. ASSUME NEW i \in DOMAIN BoltOrder PROVE BoltOrder[i] \in Parts
    <3> DEFINE j == Len(SpoutOrder) + i
    <3>1. j \in 1..Len(StopOrder) /\ StopOrder[j] = BoltOrder[i]
      BY <2>1, <2>3, <2>4
    <3> QED  BY <2>4, <3>1 DEF Parts, ToSet
  <2>7. ASSUME NEW i \in DOMAIN Modules PROVE Modules[i] \in Parts
    <3> DEFINE j == Len(first) + i
    <3>1. j \in 1..Len(StopOrder) /\ StopOrder[j] = Modules[i]
      BY <2>1, <2>3, <2>4
    <3> QED  BY <2>4, <3>1 DEF Parts, ToSet
  <2> QED  BY <2>5, <2>6, <2>7 DEF Spouts, Bolts, ToSet
<1>6. InitOrder \in Seq(Nodes \cup {"context"})
  <2> DEFINE All2 == Nodes \cup {"context"}
  <2>1. SpoutOrder \in Seq(All2) /\ BoltOrder \in Seq(All2)
    BY <1>1, SeqMonotonic DEF Nodes
  <2>2. <<"context">> \in Seq(All2)  OBVIOUS
  <2> QED  BY <2>1, <2>2, ConcatProperties DEF InitOrder
<1>7. Parts = All  BY <1>4, <1>5
<1> QED  BY <1>2, <1>3, <1>6, <1>7

LEMMA NodesAreParts ==
  /\ Bolts \subseteq Parts /\ Spouts \subseteq Parts /\ Nodes \subseteq Parts
  /\ \A p \in Pumps : p[1] \in Spouts
BY PartsAre DEF Nodes, Pumps

LEMMA BoltOfName == \A c \in Names : BoltOf(c) \in Bolts
<1> SUFFICES ASSUME NEW c \in Names PROVE BoltOf(c) \in Bolts
  OBVIOUS
<1>1. c.path \in Seq(Bolts) /\ c.path # << >>  BY DEF Names
<1> QED  BY <1>1 DEF BoltOf, Last

LEMMA NamesAbove ==
  ASSUME NEW c \in Names
  PROVE  /\ Len(c.path) \in Nat \ {0} /\ Above(c, Len(c.path)) = c
         /\ IsEmission(Above(c, 1), c.root)
         /\ \A i \in 1..Len(c.path) :
              /\ Above(c, i) \in Names /\ Len(Above(c, i).path) = i
              /\ \A j \in 1..i : Above(Above(c, i), j) = Above(c, j)
         /\ \A i \in 1..Len(c.path) - 1 : IsChild(Above(c, i + 1), Above(c, i))
<1>1. /\ c.path \in Seq(Bolts) /\ Len(c.path) \in Nat \ {0} /\ c.root \in Roots
      /\ c = [root |-> c.root, path |-> c.path]
      /\ \A i \in 1..Len(c.path) : c.path[i] \in Bolts
  BY ElementOfSeq DEF Names
<1> DEFINE Cut(i) == SubSeq(c.path, 1, i)
<1>2. ASSUME NEW i \in 1..Len(c.path)
      PROVE  /\ Cut(i) \in Seq(Bolts) /\ Len(Cut(i)) = i
             /\ \A j \in 1..i : Cut(i)[j] = c.path[j]
  BY <1>1, SubSeqProperties
<1>3. ASSUME NEW i \in 1..Len(c.path), NEW j \in 1..i
      PROVE  SubSeq(Cut(i), 1, j) = Cut(j)
  <2>1. j \in 1..Len(c.path)  BY <1>1
  <2>2. /\ SubSeq(Cut(i), 1, j) \in Seq(Bolts) /\ Len(SubSeq(Cut(i), 1, j)) = j
        /\ \A k \in 1..j : SubSeq(Cut(i), 1, j)[k] = Cut(i)[k]
    <3>1. \A k \in 1..j : Cut(i)[k] \in Bolts  BY <1>1, <1>2
    <3> HIDE DEF Cut
    <3> QED  BY <3>1, SubSeqProperties
  <2>3. \A k \in 1..j : SubSeq(Cut(i), 1, j)[k] = Cut(j)[k]  BY <1>1, <1>2, <2>1, <2>2
  <2> HIDE DEF Cut
  <2> QED  BY <1>2, <2>1, <2>2, <2>3, SeqEqual
<1>4. Cut(Len(c.path)) = c.path  BY <1>1, SubSeqFull
<1>5. \A i : Above(c, i) = [root |-> c.root, path |-> Cut(i)]  BY DEF Above
<1> HIDE DEF Cut
<1>6. ASSUME NEW i \in 1..Len(c.path)
      PROVE  /\ Above(c, i) \in Names /\ Len(Above(c, i).path) = i
             /\ \A j \in 1..i : Above(Above(c, i), j) = Above(c, j)
  <2>1. Above(c, i).root = c.root /\ Above(c, i).path = Cut(i)  BY <1>5
  <2>2. \A j \in 1..i : Above(Above(c, i), j) = [root |-> c.root, path |-> Cut(j)]
    BY <1>3, <2>1 DEF Above
  <2>3. Cut(i) # << >>  BY <1>2
  <2>4. Above(c, i) \in Names  BY <1>1, <1>2, <1>5, <2>3 DEF Names
  <2> QED  BY <1>2, <1>5, <2>1, <2>2, <2>4
<1>7. ASSUME NEW i \in 1..Len(c.path) - 1
      PROVE  IsChild(Above(c, i + 1), Above(c, i))
  <2>1. i + 1 \in 1..Len(c.path) /\ i \in 1..(i + 1)  BY <1>1
  <2>2. Above(c, i + 1).path = Cut(i + 1) /\ Len(Cut(i + 1)) = i + 1
    BY <1>2, <1>5, <2>1
  <2>3. Front(Cut(i + 1)) = Cut(i)  BY <1>3, <2>1, <2>2 DEF Front
  <2>4. [Above(c, i + 1) EXCEPT !.path = Front(@)] = [root |-> c.root, path |-> Cut(i)]
    BY <1>5, <2>3
  <2> QED  BY <1>5, <2>1, <2>2, <2>4 DEF IsChild
<1>8. IsEmission(Above(c, 1), c.root)
  <2>1. Len(Cut(1)) = 1
    <3>1. 1 \in 1..Len(c.path)  BY <1>1
    <3> QED  BY <1>2, <3>1
  <2>2. Above(c, 1).root = c.root /\ Above(c, 1).path = Cut(1)  BY <1>5
  <2> QED  BY <2>1, <2>2 DEF IsEmission
<1>9. Above(c, Len(c.path)) = c  BY <1>1, <1>4, <1>5
<1> QED  BY <1>1, <1>6, <1>7, <1>8, <1>9

\* A datum goes to a bolt once.
LEMMA ChildrenAreDistinct ==
  ASSUME router \in Graphs, NEW root \in Roots, NEW path \in Seq(Bolts), NEW stream
  PROVE  /\ Children(root, path, stream) \subseteq Names
         /\ \A c, d \in Children(root, path, stream) : BoltOf(c) = BoltOf(d) => c = d
         /\ \A c \in Children(root, path, stream) :
              /\ c.root = root /\ Len(c.path) = Len(path) + 1
              /\ \A i \in 1..Len(path) : SubSeq(c.path, 1, i) = SubSeq(path, 1, i)
<1> DEFINE Name(b) == [root |-> root, path |-> Append(path, b)]
<1>1. ASSUME NEW b \in Bolts
      PROVE  /\ Name(b) \in Names /\ BoltOf(Name(b)) = b
             /\ Name(b).root = root /\ Len(Name(b).path) = Len(path) + 1
             /\ \A i \in 1..Len(path) : SubSeq(Name(b).path, 1, i) = SubSeq(path, 1, i)
  <2> DEFINE longer == Append(path, b)
  <2>1. /\ longer \in Seq(Bolts) /\ longer # << >> /\ Len(longer) = Len(path) + 1
        /\ longer[Len(longer)] = b /\ \A i \in 1..Len(path) : longer[i] = path[i]
    OBVIOUS
  <2>2. ASSUME NEW i \in 1..Len(path) PROVE SubSeq(longer, 1, i) = SubSeq(path, 1, i)
    <3>1. \A j \in 1..i : path[j] \in Bolts /\ longer[j] = path[j]  BY <2>1, ElementOfSeq
    <3> HIDE DEF longer
    <3>2. /\ longer \in Seq(Bolts) /\ path \in Seq(Bolts) /\ i <= Len(path)
          /\ i \in 1..Len(path) + 1 /\ Len(longer) = Len(path) + 1
      BY <2>1
    <3>3. /\ SubSeq(longer, 1, i) \in Seq(Bolts) /\ Len(SubSeq(longer, 1, i)) = i
          /\ \A j \in 1..i : SubSeq(longer, 1, i)[j] = longer[j]
      BY <3>2, SubSeqProperties
    <3>4. /\ SubSeq(path, 1, i) \in Seq(Bolts) /\ Len(SubSeq(path, 1, i)) = i
          /\ \A j \in 1..i : SubSeq(path, 1, i)[j] = path[j]
      BY <3>2, SubSeqProperties
    <3> QED  BY <3>1, <3>3, <3>4, SeqEqual
  <2> QED  BY <2>1, <2>2 DEF Names, BoltOf, Last
<1>2. \A i \in router : i.bolt \in Bolts  BY LocalAssumption
<1>3. \A c \in Children(root, path, stream) : \E b \in Bolts : c = Name(b)
  BY <1>2 DEF Children
<1> HIDE DEF Name
<1> QED  BY <1>1, <1>3

LEMMA SetToSeqOfAtMostOne ==
  ASSUME NEW T, NEW S \in SUBSET T, \A x, y \in S : x = y
  PROVE  /\ SetToSeq(S) \in Seq(T) /\ (S = {} => SetToSeq(S) = << >>)
         /\ \A i \in DOMAIN SetToSeq(S) : i = 1 /\ SetToSeq(S)[i] \in S
<1>1. S = {} \/ \E x \in S : S = {x}  OBVIOUS
<1>2. Cardinality(S) \in {0, 1}  BY <1>1, FS_EmptySet, FS_Singleton
<1> DEFINE n == Cardinality(S)
<1>3. \E f \in [1..n -> S] : IsInjective(f)
  <2>1. CASE S = {}
    <3>1. n = 0  BY <2>1, FS_EmptySet
    <3>2. << >> \in [1..n -> S] /\ IsInjective(<< >>)
      BY <2>1, <3>1 DEF IsInjective
    <3> QED  BY <3>2
  <2>2. ASSUME NEW x \in S, S = {x} PROVE \E f \in [1..n -> S] : IsInjective(f)
    <3>1. n = 1  BY <2>2, FS_Singleton
    <3> DEFINE f == [i \in 1..1 |-> x]
    <3>2. f \in [1..n -> S] /\ IsInjective(f)  BY <3>1 DEF IsInjective
    <3> QED  BY <3>2
  <2> QED  BY <1>1, <2>1, <2>2
<1>4. SetToSeq(S) \in [1..n -> S]  BY <1>3 DEF SetToSeq
<1>5. S = {} => n = 0  BY FS_EmptySet
<1> HIDE DEF n
<1>6. n \in {0, 1}  BY <1>2 DEF n
<1>7. SetToSeq(S) \in Seq(T) /\ \A i \in DOMAIN SetToSeq(S) : i = 1 /\ SetToSeq(S)[i] \in S
  BY <1>4, <1>6
<1>8. n = 0 => SetToSeq(S) = << >>  BY <1>4
<1> QED  BY <1>5, <1>7, <1>8

---------------------------------------------------------------------------
(* Steps that leave the calls alone.                                       *)

\* Errors stay.
Worse == \A n \in Parts : isError[n] => isError'[n]

FlowInv == BoltTypes /\ Chained /\ Queued /\ Counts /\ Awaited

LEMMA FlowUnchanged ==
  ASSUME LocalInv, Worse, UNCHANGED <<inSend, pendingSendRequests, calls>>,
         \A c \in DOMAIN calls : c.root \in Pumps => pump'[c.root] = pump[c.root],
         \A b \in Bolts : pendingShutdownCallback'[b]
                            => pendingShutdownCallback[b] \/ inSend[b] > 0
  PROVE  FlowInv'
<1>1. BoltTypes'  BY DEF LocalInv, BoltTypes
<1>2. Chained'
  <2> SUFFICES ASSUME NEW c \in DOMAIN calls
               PROVE  RootWaits(c)' /\ \A i \in 1..Len(c.path) - 1 : Linked(c, i)'
    BY DEF Chained
  <2>1. RootWaits(c) /\ \A i \in 1..Len(c.path) - 1 : Linked(c, i)
    BY DEF LocalInv, Chained
  <2>2. c \in Names  BY DEF LocalInv, BoltTypes
  <2>3. RootWaits(c)'  BY <2>1, NodesAreParts DEF RootWaits, Worse
  <2>4. ASSUME NEW i \in 1..Len(c.path) - 1 PROVE Linked(c, i)'
    <3>1. Above(c, i) \in Names
      <4>1. i \in 1..Len(c.path)  BY <2>2, NamesAbove
      <4> QED  BY <2>2, <4>1, NamesAbove
    <3>2. BoltOf(Above(c, i)) \in Parts  BY <3>1, BoltOfName, NodesAreParts
    <3> QED  BY <2>1, <3>2 DEF Linked, Worse
  <2> QED  BY <2>3, <2>4
<1>3. Queued'  BY DEF LocalInv, Queued
<1>4. Counts'
  <2>1. \A b : InProgress(b)' = InProgress(b)  BY DEF InProgress
  <2> QED  BY <2>1, NodesAreParts DEF LocalInv, Counts, Worse
<1>5. Awaited'
  <2> SUFFICES ASSUME NEW b \in Bolts, ~isError'[b], ~(inSend[b] > 0)
               PROVE  pendingSendRequests[b] = << >> /\ ~pendingShutdownCallback'[b]
    BY DEF Awaited
  <2>1. ~isError[b]  BY NodesAreParts DEF Worse
  <2> QED  BY <2>1 DEF LocalInv, Awaited
<1> QED  BY <1>1, <1>2, <1>3, <1>4, <1>5 DEF FlowInv

---------------------------------------------------------------------------
(* redirect: a bolt gets one datum more at most, at once if it is idle or  *)
(* takes data in parallel.                                                 *)

LEMMA RedirectKeeps ==
  ASSUME LocalInv, Worse,
         NEW children \in SUBSET Names,
         \A c, d \in children : BoltOf(c) = BoltOf(d) => c = d,
         \A c \in children : c \notin DOMAIN calls,
         NEW base, DOMAIN base = DOMAIN calls,
         \A c \in DOMAIN calls : base[c] \in CallState
                                 /\ (base[c] = "pending" <=> calls[c] = "pending"),
         Redirect(children, base)
  PROVE  /\ BoltTypes' /\ Queued' /\ Counts' /\ Awaited'
         /\ DOMAIN calls' = DOMAIN calls \cup {c \in children : ~isError[BoltOf(c)]}
         /\ \A c \in DOMAIN calls : calls'[c] = base[c]
<1> DEFINE taken == {c \in children : ~isError[BoltOf(c)]}
           now == {c \in taken : TakesNow(BoltOf(c))}
           Waiting(b) == {c \in taken \ now : BoltOf(c) = b}
           Begun(b) == {c \in now : BoltOf(c) = b}
<1>1. /\ calls' = [c \in DOMAIN base \cup taken |->
                     IF c \in now THEN "receiving"
                     ELSE IF c \in taken THEN "pending" ELSE base[c]]
      /\ inSend' = [b \in Bolts |-> Counted(b, now)]
      /\ pendingSendRequests' =
           [b \in Bolts |-> pendingSendRequests[b] \o SetToSeq(Waiting(b))]
      /\ pendingShutdownCallback' = pendingShutdownCallback
  BY DEF Redirect
<1>2. BoltTypes /\ Queued /\ Counts /\ Awaited  BY DEF LocalInv
<1>3. /\ taken \subseteq Names /\ now \subseteq taken
      /\ \A c, d \in taken : BoltOf(c) = BoltOf(d) => c = d
      /\ \A c \in taken : c \notin DOMAIN calls
      /\ \A c \in now : TakesNow(BoltOf(c))
      /\ \A c \in taken \ now : ~TakesNow(BoltOf(c))
  OBVIOUS
<1>4. \A b : /\ Waiting(b) \subseteq Names /\ Begun(b) \subseteq Names
             /\ \A c, d \in Waiting(b) : c = d
             /\ \A c, d \in Begun(b) : c = d
             /\ \A c \in Waiting(b) : BoltOf(c) = b /\ c \in taken \ now
             /\ \A c \in Begun(b) : BoltOf(c) = b /\ c \in now
             /\ \A c \in now : BoltOf(c) = b => c \in Begun(b)
  BY <1>3
<1>5. \A b : Cardinality(Begun(b)) = IF Begun(b) = {} THEN 0 ELSE 1
  <2> TAKE b
  <2>1. Begun(b) = {} \/ \E x \in Begun(b) : Begun(b) = {x}  BY <1>4
  <2> QED  BY <2>1, FS_EmptySet, FS_Singleton
<1>6. ASSUME NEW b \in Bolts
      PROVE  inSend'[b] = inSend[b] + (IF Begun(b) = {} THEN 0 ELSE 1)
  <2>1. inSend'[b] = inSend[b] + Cardinality(Begun(b))
    BY <1>1 DEF Counted
  <2> QED  BY <1>5, <2>1
<1>7. /\ DOMAIN calls' = DOMAIN calls \cup taken
      /\ \A c \in DOMAIN calls : calls'[c] = base[c]
      /\ \A c \in taken : calls'[c] = IF c \in now THEN "receiving" ELSE "pending"
  <2> HIDE DEF taken, now
  <2> QED  BY <1>1, <1>3
<1>8. \A b : InProgress(b)' = InProgress(b) \cup Begun(b)
  <2>1. ASSUME NEW b, NEW c \in InProgress(b)' PROVE c \in InProgress(b) \cup Begun(b)
    BY <1>4, <1>7 DEF InProgress
  <2>2. ASSUME NEW b, NEW c \in InProgress(b) PROVE c \in InProgress(b)'
    <3> HIDE DEF taken, now
    <3> QED  BY <1>7 DEF InProgress
  <2>3. ASSUME NEW b, NEW c \in Begun(b) PROVE c \in InProgress(b)'
    <3>1. c \in now /\ c \in taken /\ BoltOf(c) = b  BY <1>3, <1>4
    <3> HIDE DEF taken, now, Begun
    <3> QED  BY <1>7, <3>1 DEF InProgress
  <2> QED  BY <2>1, <2>2, <2>3
<1>9. ASSUME NEW b \in Bolts
      PROVE  LET old == pendingSendRequests[b]
                 line == pendingSendRequests'[b]
             IN  /\ line \in Seq(Names) /\ (Waiting(b) = {} => line = old)
                 /\ \A i \in DOMAIN line :
                      \/ i \in 1..Len(old) /\ line[i] = old[i]
                      \/ i = Len(old) + 1 /\ line[i] \in Waiting(b)
  <2> DEFINE old == pendingSendRequests[b]
             new == SetToSeq(Waiting(b))
  <2>1. old \in Seq(Names)  BY <1>2 DEF BoltTypes
  <2>2. /\ new \in Seq(Names) /\ (Waiting(b) = {} => new = << >>)
        /\ \A i \in DOMAIN new : i = 1 /\ new[i] \in Waiting(b)
    <3> HIDE DEF Waiting
    <3> QED  BY <1>4, SetToSeqOfAtMostOne
  <2>3. pendingSendRequests'[b] = old \o new  BY <1>1
  <2> HIDE DEF old, new, Waiting
  <2>4. /\ old \o new \in Seq(Names)
        /\ \A i \in DOMAIN (old \o new) :
             \/ i \in 1..Len(old) /\ (old \o new)[i] = old[i]
             \/ /\ i \in Nat /\ i - Len(old) \in DOMAIN new
                /\ (old \o new)[i] = new[i - Len(old)]
    BY <2>1, <2>2
  <2>5. \A i \in DOMAIN (old \o new) :
          \/ i \in 1..Len(old) /\ (old \o new)[i] = old[i]
          \/ i = Len(old) + 1 /\ (old \o new)[i] \in Waiting(b)
    <3>1. Len(old) \in Nat  BY <2>1
    <3> QED  BY <2>2, <2>4, <3>1
  <2>6. Waiting(b) = {} => old \o new = old  BY <2>1, <2>2, ConcatEmptySeq
  <2> QED  BY <2>3, <2>4, <2>5, <2>6 DEF old
<1>10. BoltTypes'
  <2>1. inSend' \in [Bolts -> Nat]
    <3>1. inSend' = [b \in Bolts |-> inSend'[b]]  BY <1>1
    <3>2. \A b \in Bolts : inSend'[b] \in Nat  BY <1>2, <1>6 DEF BoltTypes
    <3> QED  BY <3>1, <3>2
  <2>2. pendingSendRequests' \in [Bolts -> Seq(Names)]
    <3>1. pendingSendRequests' = [b \in Bolts |-> pendingSendRequests'[b]]  BY <1>1
    <3> QED  BY <1>9, <3>1
  <2>3. DOMAIN calls' \subseteq Names
    <3> HIDE DEF taken
    <3> QED  BY <1>2, <1>3, <1>7 DEF BoltTypes
  <2>4. \A c \in DOMAIN calls' : calls'[c] \in CallState
    <3> HIDE DEF taken, now
    <3> QED  BY <1>7 DEF CallState
  <2> QED  BY <2>1, <2>2, <2>3, <2>4 DEF BoltTypes
<1>11. Queued'
  <2> SUFFICES ASSUME NEW b \in Bolts
               PROVE  LET line == pendingSendRequests'[b] IN
                      /\ \A i \in DOMAIN line :
                           /\ line[i] \in DOMAIN calls' /\ calls'[line[i]] = "pending"
                           /\ BoltOf(line[i]) = b
                      /\ \A i, j \in DOMAIN line : line[i] = line[j] => i = j
    BY DEF Queued
  <2> DEFINE old == pendingSendRequests[b]
             line == pendingSendRequests'[b]
  <2>1. /\ \A i \in 1..Len(old) : /\ old[i] \in DOMAIN calls /\ calls[old[i]] = "pending"
                                  /\ BoltOf(old[i]) = b
        /\ \A i, j \in 1..Len(old) : old[i] = old[j] => i = j
    <3>1. old \in Seq(Names)  BY <1>2 DEF BoltTypes
    <3> QED  BY <1>2, <3>1 DEF Queued
  <2>2. \A i \in DOMAIN line : \/ i \in 1..Len(old) /\ line[i] = old[i]
                               \/ i = Len(old) + 1 /\ line[i] \in Waiting(b)
    BY <1>9
  <2>3. \A c \in Waiting(b) : /\ c \in DOMAIN calls' /\ c \notin DOMAIN calls
                              /\ calls'[c] = "pending" /\ BoltOf(c) = b
    <3>1. \A c \in Waiting(b) : c \in taken \ now /\ BoltOf(c) = b  BY <1>4
    <3> HIDE DEF taken, now, Waiting
    <3> QED  BY <1>3, <1>7, <3>1
  <2>4. \A c \in DOMAIN calls : calls[c] = "pending" => calls'[c] = "pending"
    <3> HIDE DEF taken, now
    <3> QED  BY <1>7
  <2>5. DOMAIN calls \subseteq DOMAIN calls'
    <3> HIDE DEF taken
    <3> QED  BY <1>7
  <2> HIDE DEF old, line, Waiting
  <2>6. \A i \in DOMAIN line : /\ line[i] \in DOMAIN calls' /\ calls'[line[i]] = "pending"
                               /\ BoltOf(line[i]) = b
    BY <2>1, <2>2, <2>3, <2>4, <2>5
  <2>7. \A i, j \in DOMAIN line : line[i] = line[j] => i = j
    BY <2>1, <2>2, <2>3
  <2> QED  BY <2>6, <2>7 DEF line
<1>12. Counts'
  <2> SUFFICES ASSUME NEW b \in Bolts
               PROVE  /\ IsFiniteSet(InProgress(b)')
                      /\ Cardinality(InProgress(b)') <= inSend'[b]
                      /\ ~isError'[b] => inSend'[b] = Cardinality(InProgress(b)')
                      /\ b \notin Parallel => inSend'[b] <= 1
    BY DEF Counts
  <2>1. /\ IsFiniteSet(InProgress(b)) /\ Cardinality(InProgress(b)) <= inSend[b]
        /\ ~isError'[b] => inSend[b] = Cardinality(InProgress(b))
        /\ b \notin Parallel => inSend[b] <= 1
    BY <1>2, NodesAreParts DEF Counts, Worse
  <2>2. inSend[b] \in Nat /\ Cardinality(InProgress(b)) \in Nat
    BY <1>2, <2>1, FS_CardinalityType DEF BoltTypes
  <2>3. CASE Begun(b) = {}
    <3>1. inSend'[b] = inSend[b]  BY <1>6, <2>2, <2>3
    <3>2. InProgress(b)' = InProgress(b)  BY <1>8, <2>3
    <3> QED  BY <2>1, <3>1, <3>2
  <2>4. ASSUME NEW c \in Begun(b), Begun(b) = {c}
        PROVE  /\ IsFiniteSet(InProgress(b)')
               /\ Cardinality(InProgress(b)') = Cardinality(InProgress(b)) + 1
               /\ inSend'[b] = inSend[b] + 1
               /\ b \notin Parallel => inSend[b] = 0
    <3>1. InProgress(b)' = InProgress(b) \cup {c}  BY <1>8, <2>4
    <3>2. c \notin InProgress(b)
      <4>1. c \notin DOMAIN calls  BY <1>3, <1>4
      <4> QED  BY <4>1 DEF InProgress
    <3>3. inSend'[b] = inSend[b] + 1  BY <1>6, <2>4
    <3>4. b \notin Parallel => inSend[b] = 0  BY <1>3, <1>4 DEF TakesNow
    <3> QED  BY <2>1, <3>1, <3>2, <3>3, <3>4, FS_AddElement
  <2>5. Begun(b) = {} \/ \E c \in Begun(b) : Begun(b) = {c}  BY <1>4
  <2> HIDE DEF Begun
  <2>6. CASE Begun(b) # {}
    <3>1. PICK c \in Begun(b) : Begun(b) = {c}  BY <2>5, <2>6
    <3>2. /\ IsFiniteSet(InProgress(b)')
          /\ Cardinality(InProgress(b)') = Cardinality(InProgress(b)) + 1
          /\ inSend'[b] = inSend[b] + 1
          /\ b \notin Parallel => inSend[b] = 0
      BY <2>4, <3>1
    <3> QED  BY <2>1, <2>2, <3>2
  <2> QED  BY <2>3, <2>6
<1>13. Awaited'
  <2> SUFFICES ASSUME NEW b \in Bolts, ~isError'[b], ~(inSend'[b] > 0)
               PROVE  pendingSendRequests'[b] = << >> /\ ~pendingShutdownCallback'[b]
    BY DEF Awaited
  <2>1. inSend[b] \in Nat /\ inSend'[b] \in Nat  BY <1>2, <1>10 DEF BoltTypes
  <2>2. inSend[b] = 0  BY <1>6, <2>1
  <2>3. pendingSendRequests[b] = << >> /\ ~pendingShutdownCallback[b]
    BY <1>2, <2>2, NodesAreParts DEF Awaited, Worse
  <2>4. Waiting(b) = {}  BY <1>3, <1>4, <2>2 DEF TakesNow
  <2> HIDE DEF Waiting
  <2> QED  BY <1>1, <1>9, <2>3, <2>4
<1> QED  BY <1>7, <1>10, <1>11, <1>12, <1>13

LEMMA RedirectChains ==
  ASSUME LocalInv, Worse,
         NEW taken \in SUBSET Names, DOMAIN calls' = DOMAIN calls \cup taken,
         \A d \in DOMAIN calls : calls[d] \in {"emitted", "failed"} => calls'[d] = calls[d],
         \A c \in DOMAIN calls : \A i \in 1..Len(c.path) : Above(c, i) \notin taken,
         \A c \in DOMAIN calls : RootWaits(c)',
         \A c \in taken : RootWaits(c)' /\ \A i \in 1..Len(c.path) - 1 : Linked(c, i)'
  PROVE  Chained'
<1> SUFFICES ASSUME NEW c \in DOMAIN calls, NEW i \in 1..Len(c.path) - 1 PROVE Linked(c, i)'
  BY DEF Chained
<1>1. c \in Names /\ Linked(c, i)  BY DEF LocalInv, BoltTypes, Chained
<1>2. i \in 1..Len(c.path)  BY <1>1, NamesAbove
<1>3. BoltOf(Above(c, i)) \in Parts  BY <1>1, <1>2, NamesAbove, BoltOfName, NodesAreParts
<1>4. Above(c, i) \notin taken  BY <1>2
<1> QED  BY <1>1, <1>3, <1>4 DEF Linked, Worse

\* An emission of a loop, or telemetry: nothing of the same root is on its way.
LEMMA EmissionKeeps ==
  ASSUME LocalInv, Worse, NEW root \in Roots, NEW stream,
         Redirect(Children(root, << >>, stream), calls),
         \A c \in DOMAIN calls : c.root # root,
         \A p \in Pumps : p # root /\ pump[p] \in {"emitted", "none"} => pump'[p] = pump[p],
         root \in Pumps =>
           IF Refuses(Children(root, << >>, stream))
           THEN pump'[root] = "none" /\ isError'[root[1]]
           ELSE Children(root, << >>, stream) # {} => pump'[root] = "emitted"
  PROVE  FlowInv'
<1> DEFINE children == Children(root, << >>, stream)
           taken == {c \in children : ~isError[BoltOf(c)]}
<1>1. /\ ControlTypes /\ BoltTypes /\ Chained
      /\ router \in Graphs /\ << >> \in Seq(Bolts) /\ Len(<< >>) = 0
  BY DEF LocalInv, ControlTypes
<1>2. /\ children \subseteq Names
      /\ \A c, d \in children : BoltOf(c) = BoltOf(d) => c = d
      /\ \A c \in children : c.root = root /\ Len(c.path) = 1
  <2> HIDE DEF children
  <2>1. /\ children \subseteq Names
        /\ \A c, d \in children : BoltOf(c) = BoltOf(d) => c = d
        /\ \A c \in children : c.root = root /\ Len(c.path) = Len(<< >>) + 1
    BY <1>1, ChildrenAreDistinct DEF children
  <2> QED  BY <1>1, <2>1
<1>3. \A c \in children : c \notin DOMAIN calls
  <2> HIDE DEF children
  <2> QED  BY <1>2
<1>4. Redirect(children, calls) /\ \A c \in DOMAIN calls : calls[c] \in CallState
  BY <1>1 DEF BoltTypes
<1>5. root \in Pumps =>
        IF Refuses(children) THEN pump'[root] = "none" /\ isError'[root[1]]
        ELSE children # {} => pump'[root] = "emitted"
  OBVIOUS
<1> HIDE DEF children
<1>6. /\ BoltTypes' /\ Queued' /\ Counts' /\ Awaited'
      /\ DOMAIN calls' = DOMAIN calls \cup taken
      /\ \A c \in DOMAIN calls : calls'[c] = calls[c]
  BY <1>2, <1>3, <1>4, RedirectKeeps
<1>7. taken \subseteq children  OBVIOUS
<1>8. ASSUME NEW c \in DOMAIN calls PROVE RootWaits(c)'
  <2>1. c.root # root /\ RootWaits(c)  BY <1>1 DEF Chained
  <2>2. CASE c.root \in Pumps
    <3>1. pump'[c.root] = pump[c.root]  BY <2>1, <2>2 DEF RootWaits
    <3>2. c.root[1] \in Parts  BY <2>2, NodesAreParts
    <3> QED  BY <1>6, <2>1, <3>1, <3>2 DEF RootWaits, Worse
  <2> QED  BY <2>2 DEF RootWaits
<1>9. ASSUME NEW c \in DOMAIN calls, NEW i \in 1..Len(c.path)
      PROVE  Above(c, i) \notin taken
  BY <1>2, <1>7 DEF Above
<1>10. ASSUME NEW c \in taken
       PROVE  RootWaits(c)' /\ \A i \in 1..Len(c.path) - 1 : Linked(c, i)'
  <2>1. c \in Names /\ c.root = root /\ Len(c.path) = 1 /\ c \in children  BY <1>2, <1>7
  <2>2. Above(c, 1) = c  BY <2>1, NamesAbove
  <2>3. c \in DOMAIN calls'
    <3> HIDE DEF taken
    <3> QED  BY <1>6
  <2>4. root \in Pumps => pump'[root] = "emitted" \/ (pump'[root] = "none" /\ isError'[root[1]])
    BY <1>5, <2>1
  <2>5. RootWaits(c)'  BY <2>1, <2>2, <2>3, <2>4 DEF RootWaits
  <2> QED  BY <2>1, <2>5
<1> HIDE DEF taken
<1>11. Chained'  BY <1>2, <1>6, <1>7, <1>8, <1>9, <1>10, RedirectChains
<1> QED  BY <1>6, <1>11 DEF FlowInv

LEMMA BoltEmitsKeeps ==
  ASSUME LocalInv, NEW c \in DOMAIN calls, BoltEmits(c)
  PROVE  FlowInv'
<1> DEFINE children == Children(c.root, c.path, "data")
           base == [calls EXCEPT ![c] = IF Refuses(children) THEN "failed" ELSE "emitted"]
           taken == {e \in children : ~isError[BoltOf(e)]}
<1>1. /\ calls[c] = "receiving" /\ Redirect(children, base)
      /\ pump' = pump /\ isError' = isError
  BY DEF BoltEmits
<1>2. c \in Names /\ router \in Graphs /\ Worse /\ BoltTypes /\ Chained
  BY <1>1 DEF LocalInv, BoltTypes, ControlTypes, Worse
<1>3. c.root \in Roots /\ c.path \in Seq(Bolts) /\ Len(c.path) \in Nat \ {0}
  BY <1>2, NamesAbove DEF Names
<1>4. /\ children \subseteq Names
      /\ \A d, e \in children : BoltOf(d) = BoltOf(e) => d = e
      /\ \A e \in children :
           /\ e.root = c.root /\ Len(e.path) = Len(c.path) + 1
           /\ \A i \in 1..Len(c.path) : SubSeq(e.path, 1, i) = SubSeq(c.path, 1, i)
  <2> HIDE DEF children
  <2> QED  BY <1>2, <1>3, ChildrenAreDistinct DEF children
<1>5. \A e \in children : \A i \in 1..Len(c.path) : Above(e, i) = Above(c, i)
  <2> HIDE DEF children
  <2> QED  BY <1>4 DEF Above
<1>6. /\ DOMAIN base = DOMAIN calls /\ base[c] \in {"failed", "emitted"}
      /\ Refuses(children) \/ base[c] = "emitted"
      /\ \A d \in DOMAIN calls : d # c => base[d] = calls[d]
      /\ \A d \in DOMAIN calls : base[d] \in CallState
                                 /\ (base[d] = "pending" <=> calls[d] = "pending")
  BY <1>1, <1>2 DEF BoltTypes, CallState
<1> HIDE DEF children, base
\* A datum that is received was not passed on yet.
<1>7. ASSUME NEW d \in DOMAIN calls, NEW i \in 1..Len(d.path)
      PROVE  Above(d, i) \notin children
  <2> SUFFICES ASSUME Above(d, i) \in children PROVE FALSE
    OBVIOUS
  <2> DEFINE n == Len(c.path)
  <2>1. d \in Names  BY <1>2 DEF BoltTypes
  <2>2. Len(Above(d, i).path) = i /\ \A j \in 1..i : Above(Above(d, i), j) = Above(d, j)
    BY <2>1, NamesAbove
  <2>3. i = n + 1  BY <1>4, <2>2
  <2>4. n \in 1..i /\ n \in 1..Len(d.path) - 1 /\ n \in 1..n
    BY <1>3, <2>1, <2>3, NamesAbove
  <2>5. Above(d, n) = c
    <3>1. Above(Above(d, i), n) = Above(c, n)  BY <1>5, <2>4
    <3> QED  BY <1>2, <2>2, <2>4, <3>1, NamesAbove
  <2>6. Linked(d, n)  BY <1>2, <2>4 DEF Chained
  <2> QED  BY <1>1, <2>5, <2>6 DEF Linked
<1>8. \A e \in children : e \notin DOMAIN calls
  <2> SUFFICES ASSUME NEW e \in children, e \in DOMAIN calls PROVE FALSE
    OBVIOUS
  <2>1. e \in Names /\ Above(e, Len(e.path)) = e /\ Len(e.path) \in 1..Len(e.path)
    BY <1>4, NamesAbove
  <2> QED  BY <1>7, <2>1
<1>9. /\ BoltTypes' /\ Queued' /\ Counts' /\ Awaited'
      /\ DOMAIN calls' = DOMAIN calls \cup taken
      /\ \A d \in DOMAIN calls : calls'[d] = base[d]
  BY <1>1, <1>2, <1>4, <1>6, <1>8, RedirectKeeps
<1>10. taken \subseteq children  OBVIOUS
<1> HIDE DEF taken
<1>11. \A d \in DOMAIN calls : calls[d] \in {"emitted", "failed"} => calls'[d] = calls[d]
  BY <1>1, <1>6, <1>9
<1>12. \A d \in DOMAIN calls : RootWaits(d)'
  BY <1>1, <1>2, <1>9 DEF Chained, RootWaits
<1>13. ASSUME NEW e \in taken
       PROVE  RootWaits(e)' /\ \A i \in 1..Len(e.path) - 1 : Linked(e, i)'
  <2>1. /\ e \in Names /\ e.root = c.root /\ Len(e.path) = Len(c.path) + 1
        /\ Above(e, 1) = Above(c, 1) /\ Above(c, Len(c.path)) = c
        /\ Above(e, Len(e.path)) = e
    <3>1. e \in children /\ e \in Names /\ 1 \in 1..Len(c.path)  BY <1>3, <1>4, <1>10
    <3> QED  BY <1>2, <1>4, <1>5, <3>1, NamesAbove
  <2>2. RootWaits(e)'  BY <1>1, <1>2, <1>9, <2>1 DEF Chained, RootWaits
  <2>3. ASSUME NEW i \in 1..Len(e.path) - 1 PROVE Linked(e, i)'
    <3>1. i \in 1..Len(c.path) /\ Above(e, i) = Above(c, i)
      BY <1>3, <1>5, <1>10, <2>1
    <3>2. CASE i = Len(c.path)
      <4>1. Above(e, i) = c /\ Above(e, i + 1) = e  BY <2>1, <3>1, <3>2
      <4>2. /\ c \in DOMAIN calls' /\ e \in DOMAIN calls'
            /\ calls'[c] \in {"failed", "emitted"}
        BY <1>6, <1>9
      <4> QED  BY <4>1, <4>2 DEF Linked
    <3>3. CASE i # Len(c.path)
      <4>1. i \in 1..Len(c.path) - 1 /\ i + 1 \in 1..Len(c.path)  BY <1>3, <3>1, <3>3
      <4>2. Above(e, i + 1) = Above(c, i + 1)  BY <1>5, <1>10, <4>1
      <4>3. Linked(c, i)  BY <1>2, <4>1 DEF Chained
      <4>4. Above(c, i) \notin taken  BY <1>7, <1>10, <3>1
      <4> QED  BY <1>1, <1>9, <1>11, <3>1, <4>2, <4>3, <4>4 DEF Linked
    <3> QED  BY <3>2, <3>3
  <2> QED  BY <2>2, <2>3
<1>14. \A d \in DOMAIN calls : \A i \in 1..Len(d.path) : Above(d, i) \notin taken
  BY <1>7, <1>10
<1>15. taken \subseteq Names  BY <1>4, <1>10
<1>16. Chained'  BY <1>2, <1>9, <1>11, <1>12, <1>13, <1>14, <1>15, RedirectChains
<1> QED  BY <1>9, <1>16 DEF FlowInv

---------------------------------------------------------------------------
(* Answers.                                                                *)

\* Whoever is answered has passed nothing on that is still on its way, or has
\* failed.
MayAnswer(answered, failed, begun, broken) ==
  /\ answered \subseteq DOMAIN calls /\ failed \subseteq answered
  /\ begun \subseteq DOMAIN calls \ answered /\ broken \subseteq Bolts
  /\ \A d \in begun : calls[d] = "pending"
  /\ \A d \in answered : calls[d] \in {"emitted", "failed"}
                           => d \in failed /\ BoltOf(d) \in broken

\* The calls after these answers.
AnswerLeaves(answered, begun, broken) ==
  /\ Chained' /\ Worse /\ DOMAIN calls' = DOMAIN calls \ answered
  /\ \A d \in DOMAIN calls' :
       /\ calls'[d] \in CallState
       /\ calls'[d] = "pending" <=> calls[d] = "pending" /\ d \notin begun
  /\ \A b \in broken : isError'[b]

LEMMA AnsweredKeeps ==
  ASSUME LocalInv, NEW answered, NEW failed, NEW begun, NEW broken,
         MayAnswer(answered, failed, begun, broken),
         Answered(answered, failed, begun, broken)
  PROVE  AnswerLeaves(answered, begun, broken)
<1> DEFINE ChildrenOf(d) == {c \in DOMAIN calls : IsChild(c, d)}
           Emissions(p) == {c \in DOMAIN calls : IsEmission(c, p)}
           failing == {p \in Pumps : pump[p] = "emitted" /\ Emissions(p) \cap failed # {}}
<1>1. /\ DOMAIN calls' = DOMAIN calls \ answered
      /\ \A d \in DOMAIN calls \ answered :
           calls'[d] = IF d \in begun THEN "receiving"
                       ELSE IF calls[d] # "emitted" THEN calls[d]
                       ELSE IF ChildrenOf(d) \cap failed # {} THEN "failed"
                       ELSE IF LastAnswer(answered, ChildrenOf(d)) THEN "done"
                       ELSE "emitted"
  BY DEF Answered
<1>2. \A p \in Pumps :
        pump'[p] = IF pump[p] # "emitted" THEN pump[p]
                   ELSE IF p \in failing THEN "none"
                   ELSE IF LastAnswer(answered, Emissions(p)) THEN NextRound(p)
                   ELSE "emitted"
  BY DEF Answered
<1>3. /\ DOMAIN isError = Parts
      /\ isError' = [n \in DOMAIN isError |->
                      isError[n] \/ n \in broken \/ \E p \in failing : p[1] = n]
  BY DEF Answered, Fail, Err, LocalInv, ControlTypes
<1>4. BoltTypes /\ Chained  BY DEF LocalInv
<1>0. /\ answered \subseteq DOMAIN calls /\ failed \subseteq answered
      /\ begun \subseteq DOMAIN calls \ answered /\ broken \subseteq Bolts
      /\ \A d \in begun : calls[d] = "pending"
      /\ \A d \in answered : calls[d] \in {"emitted", "failed"}
                               => d \in failed /\ BoltOf(d) \in broken
  BY DEF MayAnswer
<1> HIDE DEF ChildrenOf, Emissions, failing
<1>5. Worse /\ \A b \in broken : isError'[b]
  BY <1>0, <1>3, NodesAreParts DEF Worse
<1>6. \A p \in failing : p \in Pumps /\ isError'[p[1]]
  BY <1>3, NodesAreParts DEF failing
<1>7. \A d \in DOMAIN calls' : /\ calls'[d] \in CallState
                               /\ calls'[d] = "pending"
                                    <=> calls[d] = "pending" /\ d \notin begun
  BY <1>0, <1>1, <1>4 DEF BoltTypes, CallState
<1>8. Chained'
  <2> SUFFICES ASSUME NEW c \in DOMAIN calls'
               PROVE  RootWaits(c)' /\ \A i \in 1..Len(c.path) - 1 : Linked(c, i)'
    BY DEF Chained
  <2>1. c \in DOMAIN calls /\ c \notin answered /\ c \in Names
    BY <1>1, <1>4 DEF BoltTypes
  <2>2. RootWaits(c) /\ \A i \in 1..Len(c.path) - 1 : Linked(c, i)
    BY <1>4, <2>1 DEF Chained
  \* Above c, what is answered has failed.
  <2>3. ASSUME NEW i \in 1..Len(c.path), Above(c, i) \in answered
        PROVE  Above(c, i) \in failed /\ isError'[BoltOf(Above(c, i))]
    <3>1. i # Len(c.path)  BY <2>1, <2>3, NamesAbove
    <3>2. i \in 1..Len(c.path) - 1  BY <2>1, <3>1, NamesAbove
    <3>3. calls[Above(c, i)] \in {"emitted", "failed"}
      BY <1>0, <2>2, <2>3, <3>2 DEF Linked
    <3> QED  BY <1>0, <1>5, <2>3, <3>3
  <2>4. ASSUME NEW i \in 1..Len(c.path) - 1 PROVE Linked(c, i)'
    <3> DEFINE d == Above(c, i)
               e == Above(c, i + 1)
    <3>1. Linked(c, i)  BY <2>2
    <3>2. /\ i \in 1..Len(c.path) /\ i + 1 \in 1..Len(c.path) /\ IsChild(e, d)
          /\ BoltOf(d) \in Parts
      <4>1. i \in 1..Len(c.path) /\ i + 1 \in 1..Len(c.path)  BY <2>1, NamesAbove
      <4> QED  BY <2>1, <4>1, NamesAbove, BoltOfName, NodesAreParts
    <3>3. e \in answered => e \in failed  BY <2>3, <3>2
    <3>4. d \in answered => isError'[BoltOf(d)]  BY <2>3, <3>2
    <3>5. Linked(c, i) <=>
            IF d \in DOMAIN calls
            THEN calls[d] = "failed" \/ (calls[d] = "emitted" /\ e \in DOMAIN calls)
            ELSE isError[BoltOf(d)]
      BY DEF Linked
    <3>6. Linked(c, i)' <=>
            IF d \in DOMAIN calls'
            THEN calls'[d] = "failed" \/ (calls'[d] = "emitted" /\ e \in DOMAIN calls')
            ELSE isError'[BoltOf(d)]
      BY DEF Linked
    <3> HIDE DEF d, e
    <3>7. CASE d \notin DOMAIN calls'
      BY <1>1, <1>5, <3>1, <3>2, <3>4, <3>5, <3>6, <3>7 DEF Worse
    <3>8. CASE d \in DOMAIN calls' /\ calls[d] = "failed"
      <4>1. calls'[d] = "failed"  BY <1>0, <1>1, <3>8
      <4> QED  BY <3>6, <3>8, <4>1
    <3>9. CASE d \in DOMAIN calls' /\ calls[d] = "emitted" /\ e \in DOMAIN calls
      <4>1. e \in ChildrenOf(d)  BY <3>2, <3>9 DEF ChildrenOf
      <4>2. CASE e \in answered
        <5>1. calls'[d] = "failed"  BY <1>0, <1>1, <3>3, <3>9, <4>1, <4>2
        <5> QED  BY <3>6, <3>9, <5>1
      <4>3. CASE e \notin answered
        <5>1. ~LastAnswer(answered, ChildrenOf(d))  BY <4>1, <4>3 DEF LastAnswer
        <5>2. calls'[d] \in {"failed", "emitted"}  BY <1>0, <1>1, <3>9, <5>1
        <5> QED  BY <1>1, <3>6, <3>9, <4>3, <5>2
      <4> QED  BY <4>2, <4>3
    <3> QED  BY <1>1, <3>1, <3>5, <3>7, <3>8, <3>9
  <2>5. RootWaits(c)'
    <3> SUFFICES ASSUME c.root \in Pumps
                 PROVE  IF pump'[c.root] = "emitted" THEN Above(c, 1) \in DOMAIN calls'
                        ELSE pump'[c.root] = "none" /\ isError'[c.root[1]]
      BY DEF RootWaits
    <3> DEFINE p == c.root
               e == Above(c, 1)
    <3>1. IF pump[p] = "emitted" THEN e \in DOMAIN calls
          ELSE pump[p] = "none" /\ isError[p[1]]
      BY <2>2 DEF RootWaits
    <3>2. 1 \in 1..Len(c.path) /\ IsEmission(e, p) /\ p[1] \in Parts
      BY <2>1, NamesAbove, NodesAreParts
    <3>3. e \in answered => e \in failed  BY <2>3, <3>2
    <3> HIDE DEF p, e
    <3>4. CASE pump[p] # "emitted"
      BY <1>2, <1>5, <3>1, <3>2, <3>4 DEF Worse, p
    <3>5. CASE p \in failing
      <4>1. pump'[p] = "none"  BY <1>2, <1>6, <3>5 DEF failing
      <4> QED  BY <1>6, <3>5, <4>1 DEF p
    <3>6. CASE pump[p] = "emitted" /\ p \notin failing
      <4>1. e \in Emissions(p) /\ p \in Pumps  BY <3>1, <3>2, <3>6 DEF Emissions, p
      <4>2. e \notin failed  BY <3>6, <4>1 DEF failing
      <4>3. e \notin answered  BY <3>3, <4>2
      <4>4. ~LastAnswer(answered, Emissions(p))  BY <4>1, <4>3 DEF LastAnswer
      <4>5. pump'[p] = "emitted"  BY <1>2, <3>6, <4>1, <4>4
      <4> QED  BY <1>1, <3>1, <3>6, <4>3, <4>5 DEF p, e
    <3> QED  BY <3>4, <3>5, <3>6
  <2> QED  BY <2>4, <2>5
<1> QED  BY <1>1, <1>5, <1>7, <1>8 DEF AnswerLeaves

LEMMA BoltFailsKeeps ==
  ASSUME LocalInv, NEW c \in DOMAIN calls, BoltFails(c)
  PROVE  FlowInv'
<1>1. /\ Answered({c}, {c}, {}, {BoltOf(c)})
      /\ UNCHANGED <<inSend, pendingSendRequests, pendingShutdownCallback>>
      /\ calls[c] \in {"receiving", "failed"}
  BY DEF BoltFails
<1>2. /\ BoltTypes /\ Queued /\ Counts /\ Awaited /\ BoltOf(c) \in Bolts
  BY BoltOfName DEF LocalInv, BoltTypes
<1>3. /\ Chained' /\ Worse /\ DOMAIN calls' = DOMAIN calls \ {c}
      /\ \A d \in DOMAIN calls' : /\ calls'[d] \in CallState
                                  /\ calls'[d] = "pending" <=> calls[d] = "pending"
      /\ isError'[BoltOf(c)]
  <2>1. MayAnswer({c}, {c}, {}, {BoltOf(c)})  BY <1>2 DEF MayAnswer
  <2>2. AnswerLeaves({c}, {}, {BoltOf(c)})  BY <1>1, <2>1, AnsweredKeeps
  <2> QED  BY <2>2 DEF AnswerLeaves
<1>4. BoltTypes'  BY <1>1, <1>2, <1>3 DEF BoltTypes
<1>5. Queued'  BY <1>1, <1>2, <1>3 DEF Queued
<1>6. Counts'
  <2> SUFFICES ASSUME NEW b \in Bolts
               PROVE  /\ IsFiniteSet(InProgress(b)')
                      /\ Cardinality(InProgress(b)') <= inSend[b]
                      /\ ~isError'[b] => inSend[b] = Cardinality(InProgress(b)')
    BY <1>1, <1>2 DEF Counts
  <2>1. /\ IsFiniteSet(InProgress(b)) /\ Cardinality(InProgress(b)) <= inSend[b]
        /\ ~isError'[b] => inSend[b] = Cardinality(InProgress(b))
    BY <1>2, <1>3, NodesAreParts DEF Counts, Worse
  <2>2. inSend[b] \in Nat /\ Cardinality(InProgress(b)) \in Nat
    BY <1>2, <2>1, FS_CardinalityType DEF BoltTypes
  <2>3. InProgress(b)' = InProgress(b) \ {c}  BY <1>3 DEF InProgress
  <2>4. CASE b = BoltOf(c)
    <3>1. InProgress(b)' \in SUBSET InProgress(b)  BY <2>3
    <3>2. IsFiniteSet(InProgress(b)') /\ Cardinality(InProgress(b)') <= Cardinality(InProgress(b))
      BY <2>1, <3>1, FS_Subset
    <3>3. Cardinality(InProgress(b)') \in Nat  BY <3>2, FS_CardinalityType
    <3> QED  BY <1>3, <2>1, <2>2, <2>4, <3>2, <3>3
  <2>5. CASE b # BoltOf(c)
    <3>1. InProgress(b)' = InProgress(b)  BY <2>3, <2>5 DEF InProgress
    <3> QED  BY <2>1, <3>1
  <2> QED  BY <2>4, <2>5
<1>7. Awaited'
  <2> SUFFICES ASSUME NEW b \in Bolts, ~isError'[b], ~(inSend[b] > 0)
               PROVE  pendingSendRequests[b] = << >> /\ ~pendingShutdownCallback[b]
    BY <1>1 DEF Awaited
  <2>1. ~isError[b]  BY <1>3, NodesAreParts DEF Worse
  <2> QED  BY <1>2, <2>1 DEF Awaited
<1> QED  BY <1>3, <1>4, <1>5, <1>6, <1>7 DEF FlowInv

LEMMA BoltSucceedsKeeps ==
  ASSUME LocalInv, NEW c \in DOMAIN calls, BoltSucceeds(c)
  PROVE  FlowInv'
<1> DEFINE b == BoltOf(c)
           stops == StopsNow(b)
           line == pendingSendRequests[b]
           next == IF inSend[b] = 1 /\ ~stops /\ line # << >> THEN {Head(line)} ELSE {}
           refused == IF isError[b] THEN next ELSE {}
<1>1. /\ calls[c] \in {"receiving", "done"}
      /\ Answered({c} \cup refused, refused, next \ refused, {})
      /\ inSend' = [inSend EXCEPT ![b] = IF next = refused THEN @ - 1 ELSE @]
      /\ pendingSendRequests' =
           [pendingSendRequests EXCEPT ![b] = IF next = {} THEN @ ELSE Tail(@)]
      /\ pendingShutdownCallback' = [pendingShutdownCallback EXCEPT ![b] = @ /\ ~stops]
  BY DEF BoltSucceeds
<1>2. /\ BoltTypes /\ Queued /\ Counts /\ Awaited /\ b \in Bolts
      /\ pendingShutdownCallback \in [Bolts -> BOOLEAN]
  BY BoltOfName DEF LocalInv, BoltTypes, ControlTypes
<1>3. /\ line \in Seq(Names)
      /\ \A i \in DOMAIN line : /\ line[i] \in DOMAIN calls /\ calls[line[i]] = "pending"
                                /\ BoltOf(line[i]) = b
      /\ \A i, j \in DOMAIN line : line[i] = line[j] => i = j
  BY <1>2 DEF BoltTypes, Queued
<1>4. line # << >> => /\ 1 \in DOMAIN line /\ Head(line) = line[1]
                      /\ Tail(line) \in Seq(Names) /\ Len(Tail(line)) = Len(line) - 1
                      /\ DOMAIN Tail(line) = 1..Len(Tail(line))
                      /\ \A i \in DOMAIN Tail(line) :
                           i + 1 \in DOMAIN line /\ i + 1 # 1 /\ Tail(line)[i] = line[i + 1]
  BY <1>3
<1>5. /\ next = {} \/ (line # << >> /\ next = {Head(line)} /\ inSend[b] = 1)
      /\ refused = {} \/ refused = next
      /\ ~isError[b] => refused = {}
      /\ isError[b] => refused = next
      /\ ~isError[b] /\ next = {} /\ inSend[b] = 1 => stops \/ line = << >>
  OBVIOUS
<1>6. stops <=> inSend[b] = 1 /\ line = << >> /\ pendingShutdownCallback[b]
  BY DEF StopsNow
<1> HIDE DEF stops, line, next, refused
<1>7. \A d \in next : d \in DOMAIN calls /\ calls[d] = "pending" /\ BoltOf(d) = b
  BY <1>3, <1>4, <1>5
<1> DEFINE answered == {c} \cup refused
           begun == next \ refused
<1>8. AnswerLeaves(answered, begun, {})
  <2>1. MayAnswer(answered, refused, begun, {})
    <3>1. \A d \in refused : d \in next  BY <1>5
    <3>2. c \notin next  BY <1>1, <1>7
    <3> QED  BY <1>1, <1>7, <3>1, <3>2 DEF MayAnswer
  <2> HIDE DEF answered, begun
  <2> QED  BY <1>1, <2>1, AnsweredKeeps DEF answered, begun
<1>9. /\ Chained' /\ Worse /\ DOMAIN calls' = DOMAIN calls \ answered
      /\ \A d \in DOMAIN calls' :
           /\ calls'[d] \in CallState
           /\ calls'[d] = "pending" <=> calls[d] = "pending" /\ d \notin begun
  BY <1>8 DEF AnswerLeaves
<1>10. /\ \A a \in Bolts : inSend'[a] = IF a = b /\ next = refused THEN inSend[b] - 1
                                        ELSE inSend[a]
       /\ \A a \in Bolts : pendingSendRequests'[a] =
                             IF a = b /\ next # {} THEN Tail(line)
                             ELSE pendingSendRequests[a]
  BY <1>1, <1>2 DEF BoltTypes, line
<1>11. \A a \in Bolts : pendingShutdownCallback'[a] =>
                          pendingShutdownCallback[a] /\ ~(a = b /\ stops)
  BY <1>1, <1>2
<1> HIDE DEF b
<1>12. c \in InProgress(b)  BY <1>1 DEF InProgress, b
<1>13. \A a \in Bolts : InProgress(a)' = IF a = b THEN (InProgress(b) \ {c}) \cup begun
                                         ELSE InProgress(a)
  <2>1. ASSUME NEW a \in Bolts, a # b PROVE InProgress(a)' = InProgress(a)
    <3>1. \A d \in answered : BoltOf(d) # a  BY <1>5, <1>7, <2>1 DEF b
    <3>2. \A d \in begun : BoltOf(d) # a  BY <1>7, <2>1
    <3> HIDE DEF answered, begun
    <3> QED  BY <1>9, <3>1, <3>2 DEF InProgress
  <2>2. InProgress(b)' = (InProgress(b) \ {c}) \cup begun
    <3>1. \A d \in refused : calls[d] = "pending"  BY <1>5, <1>7
    <3>2. \A d \in begun : /\ d \in DOMAIN calls /\ d \notin answered
                           /\ BoltOf(d) = b
      BY <1>1, <1>7
    <3>3. \A d \in InProgress(b) : d # c => d \notin answered
      BY <3>1 DEF InProgress
    <3>4. c \in answered  OBVIOUS
    <3> HIDE DEF answered, begun
    <3> QED  BY <1>9, <3>2, <3>3, <3>4 DEF InProgress
  <2> QED  BY <2>1, <2>2
<1>14. /\ IsFiniteSet(InProgress(b)) /\ Cardinality(InProgress(b)) <= inSend[b]
       /\ inSend[b] \in Nat /\ Cardinality(InProgress(b)) \in Nat \ {0}
       /\ ~isError[b] => inSend[b] = Cardinality(InProgress(b))
       /\ b \notin Parallel => inSend[b] <= 1
  <2>1. IsFiniteSet(InProgress(b))  BY <1>2 DEF Counts, b
  <2>2. Cardinality(InProgress(b)) \in Nat /\ Cardinality(InProgress(b)) # 0
    BY <1>12, <2>1, FS_CardinalityType, FS_EmptySet
  <2> QED  BY <1>2, <2>1, <2>2 DEF Counts, BoltTypes, b
<1>15. /\ IsFiniteSet(InProgress(b)')
       /\ Cardinality(InProgress(b)') =
            IF next = refused THEN Cardinality(InProgress(b)) - 1
            ELSE Cardinality(InProgress(b))
  <2> DEFINE rest == InProgress(b) \ {c}
  <2>1. IsFiniteSet(rest) /\ Cardinality(rest) = Cardinality(InProgress(b)) - 1
    BY <1>12, <1>14, FS_RemoveElement
  <2>2. InProgress(b)' = rest \cup begun  BY <1>2, <1>13 DEF b
  <2>3. CASE next = refused
    <3>1. rest \cup begun = rest  BY <2>3
    <3> QED  BY <2>1, <2>2, <2>3, <3>1
  <2>4. CASE next # refused
    <3>1. begun = {Head(line)} /\ Head(line) \in next  BY <1>5, <2>4
    <3>2. Head(line) \notin rest  BY <1>7, <3>1 DEF InProgress
    <3>3. InProgress(b)' = rest \cup {Head(line)}  BY <2>2, <3>1
    <3> HIDE DEF rest
    <3>4. /\ IsFiniteSet(rest \cup {Head(line)})
          /\ Cardinality(rest \cup {Head(line)}) = Cardinality(rest) + 1
      BY <2>1, <3>2, FS_AddElement
    <3> QED  BY <1>14, <2>1, <2>4, <3>3, <3>4
  <2> QED  BY <2>3, <2>4
<1>16. BoltTypes'
  <2>1. inSend' \in [Bolts -> Nat]
    <3>1. inSend' = [a \in Bolts |-> inSend'[a]]  BY <1>1, <1>2 DEF BoltTypes
    <3>2. \A a \in Bolts : inSend'[a] \in Nat  BY <1>2, <1>10, <1>14 DEF BoltTypes
    <3> QED  BY <3>1, <3>2
  <2>2. pendingSendRequests' \in [Bolts -> Seq(Names)]
    <3>1. pendingSendRequests' = [a \in Bolts |-> pendingSendRequests'[a]]
      BY <1>1, <1>2 DEF BoltTypes
    <3>2. \A a \in Bolts : pendingSendRequests'[a] \in Seq(Names)
      BY <1>2, <1>4, <1>5, <1>10 DEF BoltTypes
    <3> QED  BY <3>1, <3>2
  <2> HIDE DEF answered, begun
  <2> QED  BY <1>2, <1>9, <2>1, <2>2 DEF BoltTypes
<1>17. Queued'
  <2> SUFFICES ASSUME NEW a \in Bolts
               PROVE  LET now == pendingSendRequests'[a] IN
                      /\ \A i \in DOMAIN now :
                           /\ now[i] \in DOMAIN calls' /\ calls'[now[i]] = "pending"
                           /\ BoltOf(now[i]) = a
                      /\ \A i, j \in DOMAIN now : now[i] = now[j] => i = j
    BY DEF Queued
  <2>1. CASE a = b /\ next # {}
    <3>1. pendingSendRequests'[a] = Tail(line) /\ line # << >> /\ next = {line[1]}
      BY <1>4, <1>5, <1>10, <2>1
    <3>2. \A i \in DOMAIN Tail(line) :
            /\ Tail(line)[i] \in DOMAIN calls /\ calls[Tail(line)[i]] = "pending"
            /\ BoltOf(Tail(line)[i]) = b /\ Tail(line)[i] \notin next
      BY <1>3, <1>4, <3>1
    <3>3. \A i, j \in DOMAIN Tail(line) : Tail(line)[i] = Tail(line)[j] => i = j
      BY <1>3, <1>4, <3>1
    <3>4. \A d \in DOMAIN calls : calls[d] = "pending" /\ d \notin next
                                    => d \notin answered /\ d \notin begun
      BY <1>1, <1>5
    <3> HIDE DEF answered, begun
    <3> QED  BY <1>9, <2>1, <3>1, <3>2, <3>3, <3>4
  <2>2. CASE ~(a = b /\ next # {})
    <3>1. pendingSendRequests'[a] = pendingSendRequests[a]  BY <1>10, <2>2
    <3>2. /\ \A i \in DOMAIN pendingSendRequests[a] :
               /\ pendingSendRequests[a][i] \in DOMAIN calls
               /\ calls[pendingSendRequests[a][i]] = "pending"
               /\ BoltOf(pendingSendRequests[a][i]) = a
          /\ \A i, j \in DOMAIN pendingSendRequests[a] :
               pendingSendRequests[a][i] = pendingSendRequests[a][j] => i = j
      BY <1>2 DEF Queued
    <3>3. \A d \in next : BoltOf(d) # a  BY <1>7, <2>2
    <3>4. \A d \in DOMAIN calls : calls[d] = "pending" /\ BoltOf(d) = a
                                    => d \notin answered /\ d \notin begun
      BY <1>1, <1>5, <3>3
    <3> HIDE DEF answered, begun
    <3> QED  BY <1>9, <3>1, <3>2, <3>4
  <2> QED  BY <2>1, <2>2
<1>18. Counts'
  <2> SUFFICES ASSUME NEW a \in Bolts
               PROVE  /\ IsFiniteSet(InProgress(a)')
                      /\ Cardinality(InProgress(a)') <= inSend'[a]
                      /\ ~isError'[a] => inSend'[a] = Cardinality(InProgress(a)')
                      /\ a \notin Parallel => inSend'[a] <= 1
    BY DEF Counts
  <2>1. ~isError'[a] => ~isError[a]  BY <1>9, NodesAreParts DEF Worse
  <2>2. CASE a # b
    <3>1. InProgress(a)' = InProgress(a) /\ inSend'[a] = inSend[a]
      BY <1>10, <1>13, <2>2
    <3> QED  BY <1>2, <2>1, <3>1 DEF Counts
  <2>3. CASE a = b
    <3>1. inSend'[a] = IF next = refused THEN inSend[b] - 1 ELSE inSend[b]
      BY <1>10, <2>3
    <3>2. Cardinality(InProgress(a)') <= inSend'[a]  BY <1>14, <1>15, <2>3, <3>1
    <3>3. ~isError'[a] => inSend'[a] = Cardinality(InProgress(a)')
      BY <1>14, <1>15, <2>1, <2>3, <3>1
    <3>4. a \notin Parallel => inSend'[a] <= 1  BY <1>14, <2>3, <3>1
    <3> QED  BY <1>15, <2>3, <3>2, <3>3, <3>4
  <2> QED  BY <2>2, <2>3
<1>19. Awaited'
  <2> SUFFICES ASSUME NEW a \in Bolts, ~isError'[a], ~(inSend'[a] > 0)
               PROVE  pendingSendRequests'[a] = << >> /\ ~pendingShutdownCallback'[a]
    BY DEF Awaited
  <2>1. ~isError[a]  BY <1>9, NodesAreParts DEF Worse
  <2>2. CASE a # b
    <3>1. inSend'[a] = inSend[a] /\ pendingSendRequests'[a] = pendingSendRequests[a]
      BY <1>10, <2>2
    <3>2. pendingSendRequests[a] = << >> /\ ~pendingShutdownCallback[a]
      BY <1>2, <2>1, <3>1 DEF Awaited
    <3> QED  BY <1>11, <3>1, <3>2
  <2>3. CASE a = b
    <3>1. refused = {}  BY <1>5, <2>1, <2>3
    <3>2. inSend[b] = 1 /\ next = {}
      <4>1. next = refused  BY <1>10, <1>14, <2>3
      <4> QED  BY <1>10, <1>14, <2>3, <3>1, <4>1
    <3>3. stops \/ line = << >>  BY <1>5, <2>1, <2>3, <3>2
    <3>4. line = << >>  BY <1>6, <3>3
    <3>5. pendingSendRequests'[a] = << >>  BY <1>10, <2>3, <3>2, <3>4 DEF line
    <3>6. ~pendingShutdownCallback'[a]  BY <1>6, <1>11, <2>3, <3>2, <3>4
    <3> QED  BY <3>5, <3>6
  <2> QED  BY <2>2, <2>3
<1> QED  BY <1>9, <1>16, <1>17, <1>18, <1>19 DEF FlowInv

---------------------------------------------------------------------------
(* The types.                                                              *)

LEMMA FailTypes ==
  ASSUME ControlTypes, NEW nodes, NEW loops, Fail(nodes, loops)
  PROVE  isError' \in [Parts -> BOOLEAN] /\ onErrorHandler' \in BOOLEAN /\ Worse
<1>1. /\ isError' = [n \in DOMAIN isError |->
                      isError[n] \/ n \in nodes \/ \E p \in loops : p[1] = n]
      /\ onErrorHandler' = (onErrorHandler \/ loops # {})
  BY DEF Fail, Err
<1>2. DOMAIN isError = Parts  BY DEF ControlTypes
<1> QED  BY <1>1, <1>2 DEF Worse

LEMMA PumpTypes == ASSUME NEW p \in Pumps PROVE NextRound(p) \in PumpState
BY DEF NextRound, PumpState

LEMMA TurnControl ==
  ASSUME LocalInv, NEW root \in Roots, Turn(root)
  PROVE  ControlTypes' /\ Worse
<1>1. ControlTypes  BY DEF LocalInv
<1>2. UNCHANGED <<life_vars, stop_vars, run_vars>>  BY DEF Turn
<1>3. SUFFICES /\ isError' \in [Parts -> BOOLEAN] /\ onErrorHandler' \in BOOLEAN /\ Worse
               /\ inner' \in [Parts -> {"open", "closing", "closed"}]
               /\ pendingShutdownCallback' \in [Bolts -> BOOLEAN]
               /\ pump' \in [Pumps -> PumpState]
  BY <1>1, <1>2 DEF ControlTypes, life_vars, stop_vars, run_vars
<1>4. ASSUME UNCHANGED <<isError, onErrorHandler>>
      PROVE  isError' \in [Parts -> BOOLEAN] /\ onErrorHandler' \in BOOLEAN /\ Worse
  BY <1>1, <1>4 DEF ControlTypes, Worse
<1>5. ASSUME NEW p \in Pumps, NEW x \in PumpState, pump' = [pump EXCEPT ![p] = x]
      PROVE  pump' \in [Pumps -> PumpState]
  BY <1>1, <1>5 DEF ControlTypes
<1>6. ASSUME UNCHANGED <<pendingShutdownCallback, inner>>
      PROVE  /\ inner' \in [Parts -> {"open", "closing", "closed"}]
             /\ pendingShutdownCallback' \in [Bolts -> BOOLEAN]
  BY <1>1, <1>6 DEF ControlTypes
<1>7. CASE root \in Pumps /\ SpoutEmits(root)
  <2> DEFINE children == Children(root, << >>, "data")
             fails == Refuses(children)
             next == IF fails THEN "none"
                     ELSE IF children = {} THEN NextRound(root) ELSE "emitted"
  <2>1. /\ Fail({}, IF fails THEN {root} ELSE {}) /\ pump' = [pump EXCEPT ![root] = next]
        /\ UNCHANGED <<pendingShutdownCallback, inner>>
    BY <1>7 DEF SpoutEmits, Redirect
  <2>2. next \in PumpState  BY <1>7, PumpTypes DEF PumpState
  <2> HIDE DEF fails, next
  <2> QED  BY <1>1, <1>5, <1>6, <1>7, <2>1, <2>2, FailTypes
<1>8. CASE root \in Pumps /\ (SpoutRests(root) \/ Wake(root))
  <2>1. /\ UNCHANGED <<isError, onErrorHandler, pendingShutdownCallback, inner>>
        /\ \E x \in PumpState : pump' = [pump EXCEPT ![root] = x]
    BY <1>8 DEF SpoutRests, Wake, bolt_vars, PumpState
  <2> QED  BY <1>4, <1>5, <1>6, <1>8, <2>1
<1>9. CASE root \in Pumps /\ SpoutFails(root)
  <2>1. /\ Fail({}, {root}) /\ UNCHANGED <<pendingShutdownCallback, inner>>
        /\ pump' = [pump EXCEPT ![root] = "none"] /\ "none" \in PumpState
    BY <1>9 DEF SpoutFails, bolt_vars, PumpState
  <2> QED  BY <1>1, <1>5, <1>6, <1>9, <2>1, FailTypes
<1>10. ASSUME NEW c \in DOMAIN calls, BoltEmits(c)
       PROVE  /\ isError' \in [Parts -> BOOLEAN] /\ onErrorHandler' \in BOOLEAN /\ Worse
              /\ inner' \in [Parts -> {"open", "closing", "closed"}]
              /\ pendingShutdownCallback' \in [Bolts -> BOOLEAN]
              /\ pump' \in [Pumps -> PumpState]
  <2>1. UNCHANGED <<isError, onErrorHandler, pendingShutdownCallback, inner, pump>>
    BY <1>10 DEF BoltEmits, Redirect
  <2> QED  BY <1>1, <1>4, <1>6, <2>1 DEF ControlTypes
<1>11. ASSUME NEW answered, NEW failed, NEW begun, NEW broken,
              Answered(answered, failed, begun, broken)
       PROVE  /\ isError' \in [Parts -> BOOLEAN] /\ onErrorHandler' \in BOOLEAN /\ Worse
              /\ pump' \in [Pumps -> PumpState]
  <2> DEFINE Emissions(p) == {d \in DOMAIN calls : IsEmission(d, p)}
             failing == {p \in Pumps : pump[p] = "emitted" /\ Emissions(p) \cap failed # {}}
             next == [p \in Pumps |->
               IF pump[p] # "emitted" THEN pump[p]
               ELSE IF p \in failing THEN "none"
               ELSE IF LastAnswer(answered, Emissions(p)) THEN NextRound(p)
               ELSE "emitted"]
  <2>1. Fail(broken, failing) /\ pump' = next  BY <1>11 DEF Answered
  <2> HIDE DEF failing, Emissions
  <2>2. next \in [Pumps -> PumpState]
    <3>1. \A p \in Pumps : pump[p] \in PumpState /\ NextRound(p) \in PumpState
      BY <1>1, PumpTypes DEF ControlTypes
    <3> QED  BY <3>1 DEF PumpState
  <2> QED  BY <1>1, <2>1, <2>2, FailTypes
<1>12. ASSUME NEW c \in DOMAIN calls, BoltFails(c)
       PROVE  /\ isError' \in [Parts -> BOOLEAN] /\ onErrorHandler' \in BOOLEAN /\ Worse
              /\ inner' \in [Parts -> {"open", "closing", "closed"}]
              /\ pendingShutdownCallback' \in [Bolts -> BOOLEAN]
              /\ pump' \in [Pumps -> PumpState]
  <2>1. /\ UNCHANGED <<pendingShutdownCallback, inner>>
        /\ Answered({c}, {c}, {}, {BoltOf(c)})
    BY <1>12 DEF BoltFails
  <2> QED  BY <1>6, <1>11, <2>1
<1>13. ASSUME NEW c \in DOMAIN calls, BoltSucceeds(c)
       PROVE  /\ isError' \in [Parts -> BOOLEAN] /\ onErrorHandler' \in BOOLEAN /\ Worse
              /\ inner' \in [Parts -> {"open", "closing", "closed"}]
              /\ pendingShutdownCallback' \in [Bolts -> BOOLEAN]
              /\ pump' \in [Pumps -> PumpState]
  <2> DEFINE stops == StopsNow(BoltOf(c))
  <2>1. \E answered, failed, begun, broken : Answered(answered, failed, begun, broken)
    BY <1>13 DEF BoltSucceeds
  <2>2. /\ pendingShutdownCallback' =
             [pendingShutdownCallback EXCEPT ![BoltOf(c)] = @ /\ ~stops]
        /\ inner' = [inner EXCEPT ![BoltOf(c)] = IF stops THEN "closing" ELSE @]
    BY <1>13 DEF BoltSucceeds
  <2> HIDE DEF stops
  <2>3. BoltOf(c) \in Bolts /\ BoltOf(c) \in Parts
    BY BoltOfName, NodesAreParts DEF LocalInv, BoltTypes
  <2>4. inner' \in [Parts -> {"open", "closing", "closed"}]
    BY <1>1, <2>2, <2>3 DEF ControlTypes
  <2>5. pendingShutdownCallback' \in [Bolts -> BOOLEAN]
    BY <1>1, <2>2, <2>3 DEF ControlTypes
  <2> QED  BY <1>11, <2>1, <2>4, <2>5
<1>14. \/ root \in Pumps /\ (SpoutAnswers(root) \/ Wake(root))
       \/ \E c \in DOMAIN calls : BoltEmits(c) \/ BoltAnswers(c)
  BY DEF Turn
<1> QED  BY <1>7, <1>8, <1>9, <1>10, <1>12, <1>13, <1>14 DEF SpoutAnswers, BoltAnswers

\* The series of shutdowns: a bolt that works on data waits for its turn.
LEMMA StopNextKeeps ==
  ASSUME ControlTypes, BoltTypes, NEW tasks \in Seq(Parts),
         NEW nodes \in [Parts -> {"open", "closing", "closed"}],
         StopNext(tasks, nodes)
  PROVE  /\ stop_tasks' \in Seq(Parts) /\ stop_answer' \in Answer
         /\ shutdownHardCalled' \in BOOLEAN
         /\ isError' \in [Parts -> BOOLEAN] /\ closing' \in [Parts -> BOOLEAN] /\ Worse
         /\ inner' \in [Parts -> {"open", "closing", "closed"}]
         /\ pendingShutdownCallback' \in [Bolts -> BOOLEAN]
         /\ \A b \in Bolts : /\ pendingShutdownCallback'[b]
                                  => pendingShutdownCallback[b] \/ inSend[b] > 0
                             /\ inner'[b] = "closing"
                                  => nodes[b] = "closing" \/ inSend[b] = 0
<1>1. "ok" \in Answer /\ "error" \in Answer /\ << >> \in Seq(Parts)  BY DEF Answer
<1>2. CASE tasks = << >>
  BY <1>1, <1>2 DEF StopNext, EndStop, ControlTypes, Worse
<1>3. CASE tasks # << >> /\ (isError[Head(tasks)] \/ closing[Head(tasks)])
  <2>1. Head(tasks) \in Parts  BY <1>3
  <2>2. /\ EndStop("error") /\ inner' = nodes
        /\ isError' = [isError EXCEPT ![Head(tasks)] = TRUE]
        /\ UNCHANGED <<closing, pendingShutdownCallback>>
    BY <1>3 DEF StopNext
  <2> QED  BY <1>1, <2>1, <2>2 DEF EndStop, ControlTypes, Worse
<1>4. CASE tasks # << >> /\ ~(isError[Head(tasks)] \/ closing[Head(tasks)])
  <2> DEFINE n == Head(tasks)
  <2>1. n \in Parts  BY <1>4
  <2>2. /\ stop_tasks' = tasks
        /\ closing' = [closing EXCEPT ![n] = TRUE]
        /\ pendingShutdownCallback' =
             [b \in Bolts |-> pendingShutdownCallback[b] \/ (b = n /\ Waits(n))]
        /\ inner' = IF Waits(n) THEN nodes ELSE [nodes EXCEPT ![n] = "closing"]
        /\ UNCHANGED <<isError, stop_answer, shutdownHardCalled>>
    BY <1>4 DEF StopNext
  <2> HIDE DEF n
  <2>3. \A b \in Bolts : Waits(b) <=> inSend[b] > 0  BY DEF Waits
  <2>4. /\ stop_tasks' \in Seq(Parts) /\ stop_answer' \in Answer
        /\ shutdownHardCalled' \in BOOLEAN /\ isError' \in [Parts -> BOOLEAN]
        /\ Worse /\ closing' \in [Parts -> BOOLEAN]
        /\ inner' \in [Parts -> {"open", "closing", "closed"}]
    BY <2>1, <2>2 DEF ControlTypes, Worse
  <2>5. pendingShutdownCallback' \in [Bolts -> BOOLEAN]  BY <2>2
  <2>6. ASSUME NEW b \in Bolts, pendingShutdownCallback'[b]
        PROVE  pendingShutdownCallback[b] \/ inSend[b] > 0
    BY <2>2, <2>3, <2>6
  <2>7. ASSUME NEW b \in Bolts, inner'[b] = "closing"
        PROVE  nodes[b] = "closing" \/ inSend[b] = 0
    <3>1. inSend[b] \in Nat /\ b \in Parts  BY NodesAreParts DEF BoltTypes
    <3>2. CASE b = n /\ ~Waits(n)
      <4>1. ~(inSend[b] > 0)  BY <2>3, <3>2
      <4> QED  BY <3>1, <4>1
    <3>3. CASE ~(b = n /\ ~Waits(n))  BY <2>2, <2>7, <3>1, <3>3
    <3> QED  BY <3>2, <3>3
  <2> QED  BY <2>4, <2>5, <2>6, <2>7
<1> QED  BY <1>2, <1>3, <1>4

---------------------------------------------------------------------------
(* The steps.                                                              *)

LEMMA TurnKeeps == ASSUME LocalInv, NEW root \in Roots, Turn(root) PROVE LocalInv'
<1>1. ControlTypes' /\ Worse  BY TurnControl
<1>2. CASE root \in Pumps /\ SpoutEmits(root)
  <2> DEFINE children == Children(root, << >>, "data")
  <2>1. /\ pump[root] = "asked" /\ Redirect(children, calls)
        /\ Fail({}, IF Refuses(children) THEN {root} ELSE {})
        /\ pump' = [pump EXCEPT ![root] = IF Refuses(children) THEN "none"
                                          ELSE IF children = {} THEN NextRound(root)
                                          ELSE "emitted"]
    BY <1>2 DEF SpoutEmits
  <2>2. /\ pump \in [Pumps -> PumpState] /\ root[1] \in DOMAIN isError
    BY <1>2, NodesAreParts DEF LocalInv, ControlTypes
  <2>3. \A c \in DOMAIN calls : c.root # root
    BY <1>2, <2>1 DEF LocalInv, Chained, RootWaits
  <2> HIDE DEF children
  <2>4. \A p \in Pumps : p # root => pump'[p] = pump[p]  BY <1>2, <2>1, <2>2
  <2>5. IF Refuses(children) THEN pump'[root] = "none" /\ isError'[root[1]]
        ELSE children # {} => pump'[root] = "emitted"
    BY <1>2, <2>1, <2>2 DEF Fail, Err
  <2>6. FlowInv'  BY <1>1, <2>1, <2>3, <2>4, <2>5, EmissionKeeps DEF children
  <2> QED  BY <1>1, <2>6 DEF LocalInv, FlowInv
<1>3. CASE root \in Pumps /\ (SpoutRests(root) \/ SpoutFails(root) \/ Wake(root))
  <2>1. /\ UNCHANGED bolt_vars /\ pump[root] \in {"asked", "sleep"}
        /\ \E x : pump' = [pump EXCEPT ![root] = x]
    BY <1>3 DEF SpoutRests, SpoutFails, Wake
  <2>2. \A c \in DOMAIN calls : c.root # root
    BY <1>3, <2>1 DEF LocalInv, Chained, RootWaits
  <2>3. \A p \in Pumps : p # root => pump'[p] = pump[p]
    BY <1>3, <2>1 DEF LocalInv, ControlTypes
  <2>4. FlowInv'  BY <1>1, <2>1, <2>2, <2>3, FlowUnchanged DEF bolt_vars
  <2> QED  BY <1>1, <2>4 DEF LocalInv, FlowInv
<1>4. ASSUME NEW c \in DOMAIN calls, BoltEmits(c) \/ BoltAnswers(c) PROVE LocalInv'
  <2>1. FlowInv'
    BY <1>4, BoltEmitsKeeps, BoltSucceedsKeeps, BoltFailsKeeps DEF BoltAnswers
  <2> QED  BY <1>1, <2>1 DEF LocalInv, FlowInv
<1> QED  BY <1>2, <1>3, <1>4 DEF Turn, SpoutAnswers

LEMMA HeartbeatKeeps == ASSUME LocalInv, NEW n \in Nodes, Heartbeat(n) PROVE LocalInv'
<1> DEFINE root == <<n, 0>>
           children == Children(root, << >>, "telemetry")
<1>1. UNCHANGED <<life_vars, stop_vars, run_vars, pump>>  BY DEF Heartbeat
<1>2. CASE /\ isError' = [isError EXCEPT ![n] = TRUE] /\ onErrorHandler' = TRUE
           /\ UNCHANGED bolt_vars
  <2>1. isError' \in [Parts -> BOOLEAN] /\ Worse
    BY <1>2 DEF LocalInv, ControlTypes, Worse
  <2>2. ControlTypes'
    BY <1>1, <1>2, <2>1
    DEF LocalInv, ControlTypes, life_vars, stop_vars, run_vars, bolt_vars
  <2>3. FlowInv'  BY <1>1, <1>2, <2>1, FlowUnchanged DEF bolt_vars
  <2> QED  BY <2>2, <2>3 DEF LocalInv, FlowInv
<1>3. CASE /\ \A c \in DOMAIN calls : c.root # root
           /\ Redirect(children, calls)
           /\ UNCHANGED <<isError, onErrorHandler>>
  <2>1. Worse /\ UNCHANGED <<pendingShutdownCallback, inner>>
    BY <1>3 DEF Worse, Redirect
  <2>2. ControlTypes'
    BY <1>1, <1>3, <2>1 DEF LocalInv, ControlTypes, life_vars, stop_vars, run_vars
  <2>3. root \notin Pumps  BY LocalAssumption DEF Pumps
  <2>4. CASE root \in Roots
    <3>1. /\ \A c \in DOMAIN calls : c.root # root
          /\ \A p \in Pumps : p # root /\ pump[p] \in {"emitted", "none"} => pump'[p] = pump[p]
      BY <1>1, <1>3
    <3>2. Redirect(Children(root, << >>, "telemetry"), calls)  BY <1>3
    <3> HIDE DEF root, children
    <3>3. FlowInv'  BY <2>1, <2>3, <2>4, <3>1, <3>2, EmissionKeeps
    <3> QED  BY <2>2, <3>3 DEF LocalInv, FlowInv
  <2>5. CASE root \notin Roots
    <3>1. children = {}
      <4>1. router \in Graphs  BY DEF LocalInv, ControlTypes
      <4>2. \A i \in router : ~(i.source = n /\ i.stream = "telemetry")
        BY <2>5, <4>1 DEF Roots
      <4> QED  BY <4>2 DEF Children
    <3> HIDE DEF children
    <3>2. /\ BoltTypes' /\ Queued' /\ Counts' /\ Awaited'
          /\ DOMAIN calls' = DOMAIN calls \cup {c \in children : ~isError[BoltOf(c)]}
          /\ \A c \in DOMAIN calls : calls'[c] = calls[c]
      <4>1. \A c \in DOMAIN calls : calls[c] \in CallState  BY DEF LocalInv, BoltTypes
      <4>2. children \in SUBSET Names /\ \A c \in children : FALSE  BY <3>1
      <4> QED  BY <1>3, <2>1, <4>1, <4>2, RedirectKeeps
    <3>3. {c \in children : ~isError[BoltOf(c)]} = {}  BY <3>1
    <3>4. Chained'
      BY <1>1, <1>3, <3>2, <3>3 DEF LocalInv, Chained, RootWaits, Linked
    <3> QED  BY <2>2, <3>2, <3>4 DEF LocalInv
  <2> QED  BY <2>4, <2>5
<1> QED  BY <1>2, <1>3 DEF Heartbeat

\* Steps of the life of the topology.
LEMMA StopsKeep == ASSUME LocalInv, Shutdown \/ NodeStopped PROVE LocalInv'
<1>1. ControlTypes /\ BoltTypes  BY DEF LocalInv
<1>2. UNCHANGED <<life_vars, onErrorHandler, inSend, pendingSendRequests, calls, pump>>
  BY DEF Shutdown, NodeStopped
<1>3. isRunning' \in BOOLEAN /\ heartbeatTimer' \in BOOLEAN /\ isShuttingDown' \in BOOLEAN
      /\ isPaused' \in [Spouts -> BOOLEAN]
  BY <1>1 DEF ControlTypes, Shutdown, NodeStopped, run_vars
<1>4. /\ stop_tasks' \in Seq(Parts) /\ stop_answer' \in Answer
      /\ shutdownHardCalled' \in BOOLEAN
      /\ isError' \in [Parts -> BOOLEAN] /\ closing' \in [Parts -> BOOLEAN] /\ Worse
      /\ inner' \in [Parts -> {"open", "closing", "closed"}]
      /\ pendingShutdownCallback' \in [Bolts -> BOOLEAN]
      /\ \A b \in Bolts : pendingShutdownCallback'[b]
                            => pendingShutdownCallback[b] \/ inSend[b] > 0
  <2>1. CASE Shutdown
    <3> DEFINE tasks == IF Created THEN StopOrder ELSE Modules
    <3>1. tasks \in Seq(Parts) /\ StopNext(tasks, inner)
      BY <2>1, PartsAre DEF Shutdown
    <3>2. inner \in [Parts -> {"open", "closing", "closed"}]  BY <1>1 DEF ControlTypes
    <3> HIDE DEF tasks
    <3> QED  BY <1>1, <3>1, <3>2, StopNextKeeps
  <2>2. CASE NodeStopped
    <3> DEFINE n == Head(stop_tasks)
               nodes == [inner EXCEPT ![n] = "closed"]
               rest == Tail(stop_tasks)
    <3>1. n \in Parts /\ rest \in Seq(Parts)  BY <1>1, <2>2 DEF ControlTypes, NodeStopped
    <3>2. nodes \in [Parts -> {"open", "closing", "closed"}]  BY <1>1, <3>1 DEF ControlTypes
    <3>3. \/ StopNext(rest, nodes)
          \/ /\ EndStop("error") /\ inner' = nodes
             /\ isError' = [isError EXCEPT ![n] = TRUE]
             /\ UNCHANGED <<closing, pendingShutdownCallback>>
      BY <2>2 DEF NodeStopped
    <3> HIDE DEF rest, nodes
    <3>4. CASE StopNext(rest, nodes)  BY <1>1, <3>1, <3>2, <3>4, StopNextKeeps
    <3>5. CASE /\ EndStop("error") /\ inner' = nodes
               /\ isError' = [isError EXCEPT ![n] = TRUE]
               /\ UNCHANGED <<closing, pendingShutdownCallback>>
      BY <1>1, <3>1, <3>2, <3>5 DEF EndStop, ControlTypes, Worse, Answer
    <3> QED  BY <3>3, <3>4, <3>5
  <2> QED  BY <2>1, <2>2
<1>5. ControlTypes'  BY <1>1, <1>2, <1>3, <1>4 DEF ControlTypes, life_vars
<1>6. FlowInv'  BY <1>2, <1>4, FlowUnchanged
<1> QED  BY <1>5, <1>6 DEF LocalInv, FlowInv

LEMMA InitStepsKeep ==
  ASSUME LocalInv, InitTopology \/ NodeInitialized \/ NodeInitFails
  PROVE  LocalInv'
<1>1. ControlTypes  BY DEF LocalInv
<1>2. /\ UNCHANGED <<router, stop_vars, bolt_vars, isRunning, isPaused, onErrorHandler, pump>>
      /\ isInitialized' \in BOOLEAN /\ initialize' \in Seq(Nodes \cup {"context"})
      /\ init_answer' \in Answer /\ heartbeatTimer' \in BOOLEAN
      /\ isError' \in [Parts -> BOOLEAN] /\ Worse
  <2>1. CASE InitTopology
    BY <1>1, <2>1, PartsAre DEF InitTopology, ControlTypes, run_vars, Worse
  <2>2. CASE NodeInitialized
    <3>1. /\ initialize # << >> /\ initialize' = Tail(initialize)
          /\ \/ init_answer' = "ok" /\ heartbeatTimer' = TRUE
             \/ init_answer' \in {"error", init_answer} /\ UNCHANGED heartbeatTimer
          /\ UNCHANGED <<router, isInitialized, stop_vars, bolt_vars, isRunning, isPaused,
                         isError, onErrorHandler, pump>>
      BY <2>2 DEF NodeInitialized
    <3>2. initialize' \in Seq(Nodes \cup {"context"})  BY <1>1, <3>1 DEF ControlTypes
    <3>3. init_answer' \in Answer /\ heartbeatTimer' \in BOOLEAN
      BY <1>1, <3>1 DEF ControlTypes, Answer
    <3> QED  BY <1>1, <3>1, <3>2, <3>3 DEF ControlTypes, Worse
  <2>3. CASE NodeInitFails
    <3> DEFINE n == Head(initialize)
    <3>1. /\ isError' = [m \in DOMAIN isError |-> isError[m] \/ m = n]
          /\ DOMAIN isError = Parts /\ init_answer' = "error"
          /\ UNCHANGED <<router, isInitialized, initialize, stop_vars, bolt_vars, run_vars,
                         onErrorHandler, pump>>
      BY <1>1, <2>3 DEF NodeInitFails, ControlTypes
    <3> HIDE DEF n
    <3>2. isError' \in [Parts -> BOOLEAN] /\ Worse  BY <3>1 DEF Worse
    <3> QED  BY <1>1, <3>1, <3>2 DEF ControlTypes, run_vars, Answer
  <2> QED  BY <2>1, <2>2, <2>3
<1>3. ControlTypes'  BY <1>1, <1>2 DEF ControlTypes, stop_vars, bolt_vars
<1>4. FlowInv'  BY <1>2, FlowUnchanged DEF bolt_vars
<1> QED  BY <1>3, <1>4 DEF LocalInv, FlowInv

LEMMA RunKeeps == ASSUME LocalInv, Run \/ Pause PROVE LocalInv'
<1>1. ControlTypes /\ Chained  BY DEF LocalInv
<1>2. UNCHANGED <<life_vars, stop_vars, bolt_vars, heartbeatTimer, isError, onErrorHandler>>
  BY DEF Run, Pause
<1>3. Worse  BY <1>2 DEF Worse
<1>4. isRunning' \in BOOLEAN /\ isPaused' \in [Spouts -> BOOLEAN]  BY DEF Run, Pause
<1>5. /\ pump' \in [Pumps -> PumpState]
      /\ \A c \in DOMAIN calls : c.root \in Pumps => pump'[c.root] = pump[c.root]
  <2>1. CASE Pause  BY <1>1, <2>1 DEF Pause, ControlTypes
  <2>2. CASE Run
    <3> DEFINE Free(s) == {k \in 1..MaxPumps : pump[<<s, k>>] = "none"}
               Woken(p) == /\ ~isError[p[1]] /\ p[2] \in Free(p[1])
                           /\ \A k \in Free(p[1]) : p[2] <= k
               Sleeps(p) == \E q \in Pumps : q[1] = p[1] /\ pump[q] = "sleep"
    <3>1. pump' = [p \in Pumps |-> IF Woken(p)
                                   THEN IF Sleeps(p) THEN "sleep" ELSE "asked"
                                   ELSE pump[p]]
      BY <2>2 DEF Run
    <3>2. \A p \in Pumps : Woken(p) => pump[p] = "none" /\ ~isError[p[1]]
      BY DEF Pumps
    <3> HIDE DEF Woken, Sleeps
    <3>3. pump' \in [Pumps -> PumpState]
      <4>1. \A p \in Pumps : pump[p] \in PumpState  BY <1>1 DEF ControlTypes
      <4> QED  BY <3>1, <4>1 DEF PumpState
    <3>4. ASSUME NEW c \in DOMAIN calls, c.root \in Pumps PROVE pump'[c.root] = pump[c.root]
      BY <1>1, <3>1, <3>2, <3>4 DEF Chained, RootWaits
    <3> QED  BY <3>3, <3>4
  <2> QED  BY <2>1, <2>2
<1>6. ControlTypes'
  BY <1>1, <1>2, <1>4, <1>5 DEF ControlTypes, life_vars, stop_vars, bolt_vars
<1>7. FlowInv'  BY <1>2, <1>3, <1>5, FlowUnchanged DEF bolt_vars
<1> QED  BY <1>6, <1>7 DEF LocalInv, FlowInv

LEMMA InitIsLocal == Init => LocalInv
<1> SUFFICES ASSUME Init PROVE LocalInv
  OBVIOUS
<1>1. NewNodes /\ NewSpouts /\ NewBolts  BY DEF Init
<1>2. \A b : InProgress(b) = {}  BY <1>1 DEF InProgress, NewBolts
<1>3. ControlTypes
  <2>1. /\ isError \in [Parts -> BOOLEAN] /\ closing \in [Parts -> BOOLEAN]
        /\ inner \in [Parts -> {"open", "closing", "closed"}]
    BY <1>1 DEF NewNodes, Parts
  <2>2. isPaused \in [Spouts -> BOOLEAN] /\ pump \in [Pumps -> PumpState]
    BY <1>1 DEF NewSpouts, PumpState
  <2>3. pendingShutdownCallback \in [Bolts -> BOOLEAN]  BY <1>1 DEF NewBolts
  <2>4. /\ initialize \in Seq(Nodes \cup {"context"}) /\ init_answer \in Answer
        /\ stop_tasks \in Seq(Parts) /\ stop_answer \in Answer
    BY DEF Init, Answer
  <2> QED  BY <2>1, <2>2, <2>3, <2>4 DEF Init, ControlTypes
<1>4. BoltTypes  BY <1>1 DEF NewBolts, BoltTypes
<1>5. Chained  BY <1>1 DEF NewBolts, Chained
<1>6. Queued  BY <1>1 DEF NewBolts, Queued
<1>7. Counts
  <2>1. \A b : IsFiniteSet(InProgress(b)) /\ Cardinality(InProgress(b)) = 0
    BY <1>2, FS_EmptySet
  <2>2. \A b \in Bolts : inSend[b] = 0  BY <1>1 DEF NewBolts
  <2> QED  BY <2>1, <2>2 DEF Counts
<1>8. Awaited  BY <1>1 DEF NewBolts, Awaited
<1> QED  BY <1>3, <1>4, <1>5, <1>6, <1>7, <1>8 DEF LocalInv

LEMMA NextKeeps == LocalInv /\ [Next]_vars => LocalInv'
<1> SUFFICES ASSUME LocalInv, [Next]_vars PROVE LocalInv'
  OBVIOUS
<1>1. CASE InitTopology \/ LifeStep \/ Shutdown
  BY <1>1, InitStepsKeep, StopsKeep DEF LifeStep
<1>2. CASE Run \/ Pause  BY <1>2, RunKeeps
<1>3. ASSUME NEW n \in Nodes, Heartbeat(n) PROVE LocalInv'  BY <1>3, HeartbeatKeeps
<1>4. ASSUME NEW root \in Roots, Turn(root) PROVE LocalInv'  BY <1>4, TurnKeeps
<1>5. CASE UNCHANGED vars
  <2>1. UNCHANGED <<life_vars, stop_vars, bolt_vars, run_vars, isError, onErrorHandler, pump>>
    BY <1>5 DEF vars
  <2>2. ControlTypes'
    BY <2>1 DEF LocalInv, ControlTypes, life_vars, stop_vars, bolt_vars, run_vars
  <2>3. FlowInv'  BY <2>1, FlowUnchanged DEF bolt_vars, Worse
  <2> QED  BY <2>2, <2>3 DEF LocalInv, FlowInv
<1> QED  BY <1>1, <1>2, <1>3, <1>4, <1>5 DEF Next

\* Calls, queues and inSend agree: what a call has passed on is under way or failed,
\* what is queued belongs to its bolt and has something to wait for, and inSend counts
\* at least the data at a bolt.
THEOREM LocalInvariant == Spec => []LocalInv
BY InitIsLocal, NextKeeps, PTL DEF Spec

---------------------------------------------------------------------------
(* What follows.                                                           *)

\* Every variable keeps to the values the code can give it; in particular the
\* counter of a bolt never goes below zero, and calls come from emissions and
\* telemetry only.
THEOREM LocalTypesAreKept == Spec => []LocalTypeOK
<1>1. LocalInv => LocalTypeOK
  <2> SUFFICES ASSUME LocalInv PROVE LocalTypeOK
    OBVIOUS
  <2> DEFINE Data == [root : Roots, path : Seq(Bolts)]
  <2>1. Names \subseteq Data  BY DEF Names
  <2>2. DOMAIN calls \subseteq Data  BY <2>1 DEF LocalInv, BoltTypes
  <2>3. pendingSendRequests \in [Bolts -> Seq(Data)]
    <3>1. Seq(Names) \subseteq Seq(Data)  BY <2>1, SeqMonotonic
    <3> HIDE DEF Data
    <3> QED  BY <3>1 DEF LocalInv, BoltTypes
  <2> HIDE DEF Data
  <2>4. ControlTypes /\ inSend \in [Bolts -> Nat] /\ \A c \in DOMAIN calls : calls[c] \in CallState
    BY DEF LocalInv, BoltTypes
  <2> QED  BY <2>2, <2>3, <2>4 DEF LocalTypeOK, ControlTypes, Parts, Data
<1> QED  BY <1>1, LocalInvariant, PTL

\* In any topology, with any number of loops of the same spout, whatever fails and
\* whenever nodes are paused, run and shut down, a bolt that does not allow
\* parallel calls works on one datum at most.
THEOREM BoltsWorkOneAtATime == Spec => []OneAtATime
<1>1. LocalInv => OneAtATime
  <2> SUFFICES ASSUME LocalInv, NEW b \in Bolts \ Parallel
               PROVE  Cardinality(InProgress(b)) <= 1
    BY DEF OneAtATime
  <2>1. /\ IsFiniteSet(InProgress(b)) /\ inSend[b] \in Nat
        /\ Cardinality(InProgress(b)) <= inSend[b] /\ inSend[b] <= 1
    BY DEF LocalInv, BoltTypes, Counts
  <2> QED  BY <2>1, FS_CardinalityType
<1> QED  BY <1>1, LocalInvariant, PTL

\* An acknowledgement covers all that followed from a datum: whoever emitted it
\* waits for every bolt it went to, or has failed, however deep the topology is
\* and in whatever order bolts answer and fail.
THEOREM AcknowledgementsAreComplete == Spec => []AcksAreComplete
<1>1. LocalInv => AcksAreComplete
  <2> SUFFICES ASSUME LocalInv, NEW c \in DOMAIN calls
               PROVE  IF Len(c.path) = 1
                      THEN \/ c.root \notin Pumps
                           \/ pump[c.root] = "emitted"
                           \/ isError[c.root[1]]
                      ELSE LET d == [c EXCEPT !.path = Front(@)]
                           IN  \/ isError[BoltOf(d)]
                               \/ d \in DOMAIN calls /\ calls[d] \in {"emitted", "failed"}
    BY DEF AcksAreComplete
  <2>1. c \in Names /\ RootWaits(c) /\ \A i \in 1..Len(c.path) - 1 : Linked(c, i)
    BY DEF LocalInv, BoltTypes, Chained
  <2>2. CASE Len(c.path) = 1  BY <2>1, <2>2 DEF RootWaits
  <2>3. CASE Len(c.path) # 1
    <3> DEFINE d == [c EXCEPT !.path = Front(@)]
               n == Len(c.path) - 1
    <3>1. n \in 1..Len(c.path) - 1 /\ Above(c, n + 1) = c
      <4>1. Len(c.path) \in Nat \ {0} /\ Above(c, Len(c.path)) = c  BY <2>1, NamesAbove
      <4>2. \A k \in Nat \ {0} : k # 1 => (k - 1) + 1 = k /\ k - 1 \in 1..(k - 1)
        OBVIOUS
      <4>3. n + 1 = Len(c.path) /\ n \in 1..Len(c.path) - 1  BY <2>3, <4>1, <4>2
      <4> QED  BY <4>1, <4>3
    <3>2. IsChild(c, Above(c, n))  BY <2>1, <3>1, NamesAbove
    <3>3. d = Above(c, n)  BY <3>2 DEF IsChild
    <3>4. Linked(c, n)  BY <2>1, <3>1
    <3> HIDE DEF d, n
    <3>5. \/ isError[BoltOf(d)]
          \/ d \in DOMAIN calls /\ calls[d] \in {"emitted", "failed"}
      BY <3>3, <3>4 DEF Linked
    <3> QED  BY <2>3, <3>5 DEF d
  <2> QED  BY <2>2, <2>3
<1> QED  BY <1>1, LocalInvariant, PTL

\* Nothing is left at a bolt that nobody sees to: data and a shutdown wait only
\* while the bolt works on a datum, or when it has failed.
THEOREM QueuesAreServed == Spec => []QueuesMove
<1>1. LocalInv => QueuesMove
  <2> SUFFICES ASSUME LocalInv, NEW b \in Bolts, ~isError[b],
                      pendingSendRequests[b] # << >> \/ pendingShutdownCallback[b]
               PROVE  InProgress(b) # {}
    BY DEF QueuesMove
  <2>1. inSend[b] > 0 /\ inSend[b] = Cardinality(InProgress(b))
    BY DEF LocalInv, Awaited, Counts
  <2>2. InProgress(b) = {} => Cardinality(InProgress(b)) = 0  BY FS_EmptySet
  <2> QED  BY <2>1, <2>2
<1> QED  BY <1>1, LocalInvariant, PTL

\* A bolt whose inner bolt starts to shut down has nothing left to do: neither
\* the series of shutdowns nor the end of the last datum shuts it down earlier.
LEMMA ClosingBoltIsIdle ==
  ASSUME LocalInv, [Next]_vars, NEW b \in Bolts, inner[b] = "open", inner'[b] = "closing"
  PROVE  inSend'[b] = 0
<1>1. ControlTypes /\ BoltTypes /\ b \in Parts  BY NodesAreParts DEF LocalInv
<1>2. CASE Shutdown
  <2> DEFINE tasks == IF Created THEN StopOrder ELSE Modules
  <2>1. tasks \in Seq(Parts) /\ StopNext(tasks, inner) /\ inSend' = inSend
    BY <1>2, PartsAre DEF Shutdown
  <2>2. inner \in [Parts -> {"open", "closing", "closed"}]  BY <1>1 DEF ControlTypes
  <2> HIDE DEF tasks
  <2>3. inner[b] = "closing" \/ inSend[b] = 0  BY <1>1, <2>1, <2>2, StopNextKeeps
  <2> QED  BY <2>1, <2>3
<1>3. CASE NodeStopped
  <2> DEFINE n == Head(stop_tasks)
             nodes == [inner EXCEPT ![n] = "closed"]
             rest == Tail(stop_tasks)
  <2>1. n \in Parts /\ rest \in Seq(Parts) /\ inSend' = inSend
    BY <1>1, <1>3 DEF ControlTypes, NodeStopped
  <2>2. nodes \in [Parts -> {"open", "closing", "closed"}] /\ nodes[b] # "closing"
    BY <1>1, <2>1 DEF ControlTypes
  <2>3. StopNext(rest, nodes) \/ inner' = nodes  BY <1>3 DEF NodeStopped
  <2> HIDE DEF rest, nodes
  <2>4. inSend[b] = 0  BY <1>1, <2>1, <2>2, <2>3, StopNextKeeps
  <2> QED  BY <2>1, <2>4
<1>4. ASSUME NEW c \in DOMAIN calls, BoltSucceeds(c) PROVE inSend'[b] = 0
  <2> DEFINE a == BoltOf(c)
             next == IF inSend[a] = 1 /\ ~StopsNow(a) /\ pendingSendRequests[a] # << >>
                     THEN {Head(pendingSendRequests[a])} ELSE {}
             refused == IF isError[a] THEN next ELSE {}
  <2>1. /\ inSend' = [inSend EXCEPT ![a] = IF next = refused THEN @ - 1 ELSE @]
        /\ inner' = [inner EXCEPT ![a] = IF StopsNow(a) THEN "closing" ELSE @]
    BY <1>4 DEF BoltSucceeds
  <2>2. StopsNow(a) => inSend[a] = 1 /\ next = {} /\ next = refused
    BY DEF StopsNow
  <2> HIDE DEF a, next, refused
  <2>3. b = a /\ StopsNow(a)  BY <1>1, <2>1 DEF ControlTypes
  <2> QED  BY <1>1, <2>1, <2>2, <2>3 DEF BoltTypes
<1>5. CASE inner' = inner  BY <1>5
<1>6. \/ inner' = inner \/ Shutdown \/ NodeStopped
      \/ \E c \in DOMAIN calls : BoltSucceeds(c)
  <2>1. CASE UNCHANGED bolt_vars \/ UNCHANGED vars  BY <2>1 DEF bolt_vars, vars
  <2>2. CASE InitTopology \/ NodeInitialized \/ NodeInitFails \/ Run \/ Pause
    BY <2>2 DEF InitTopology, NodeInitialized, NodeInitFails, Run, Pause, bolt_vars
  <2>3. ASSUME NEW n \in Nodes, Heartbeat(n) PROVE inner' = inner
    BY <2>3 DEF Heartbeat, Redirect, bolt_vars
  <2>4. ASSUME NEW root \in Roots, Turn(root)
        PROVE  inner' = inner \/ \E c \in DOMAIN calls : BoltSucceeds(c)
    <3>1. \/ SpoutAnswers(root) \/ Wake(root)
          \/ \E c \in DOMAIN calls : BoltEmits(c) \/ BoltAnswers(c)
      BY <2>4 DEF Turn
    <3> QED  BY <3>1 DEF SpoutAnswers, SpoutEmits, SpoutRests, SpoutFails, Wake, BoltEmits,
                         BoltAnswers, BoltFails, Redirect, bolt_vars
  <2> QED  BY <2>1, <2>2, <2>3, <2>4 DEF Next, LifeStep
<1> QED  BY <1>2, <1>3, <1>4, <1>5, <1>6

THEOREM BoltsAreDoneBeforeTheyStop == Spec => BoltsFinishFirst
<1> DEFINE Finishes == \A b \in Bolts : inner[b] = "open" /\ inner'[b] = "closing"
                                          => InProgress(b)' = {}
<1>1. LocalInv /\ LocalInv' /\ [Next]_vars => [Finishes]_vars
  <2> SUFFICES ASSUME LocalInv, LocalInv', [Next]_vars, NEW b \in Bolts,
                      inner[b] = "open", inner'[b] = "closing"
               PROVE  InProgress(b)' = {}
    OBVIOUS
  <2>1. inSend'[b] = 0  BY ClosingBoltIsIdle
  <2>2. IsFiniteSet(InProgress(b)') /\ Cardinality(InProgress(b)') <= inSend'[b]
    BY DEF LocalInv, Counts
  <2>3. Cardinality(InProgress(b)') = 0  BY <2>1, <2>2, FS_CardinalityType
  <2> QED  BY <2>2, <2>3, FS_EmptySet
<1>2. Spec => [][Finishes]_vars  BY <1>1, LocalInvariant, PTL DEF Spec
<1> QED  BY <1>2 DEF BoltsFinishFirst
=============================================================================
