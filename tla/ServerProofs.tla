---------------------------- MODULE ServerProofs ----------------------------
(* Proofs about ShutdownManager, for any sets of names and handlers, and     *)
(* then about Server, which is composed of it, for any connections.          *)
EXTENDS Server, TLAPS

-----------------------------------------------------------------------------
(* _testForCycles: what the depth-first search establishes *)

Search == Module \X SUBSET Module

\* One unfolding of the search for given results of the recursive calls.
Unfold(tree, f) ==
  [p \in Search |-> \/ p[1] \in p[2]
                    \/ \E dep \in tree[p[1]] : f[<<dep, p[2] \cup {p[1]}>>]]

\* The searches that every set of positive searches contains.
Positive(tree, F) ==
  \A p \in Search :
    (p[1] \in p[2] \/ \E dep \in tree[p[1]] : <<dep, p[2] \cup {p[1]}>> \in F) => p \in F

LeastPositive(tree) == {p \in Search : \A F \in SUBSET Search : Positive(tree, F) => p \in F}

\* The recursive definition of the search has a solution: the least fixed point.
LEMMA SearchExists ==
  ASSUME NEW tree \in [Module -> SUBSET Module]
  PROVE  \E f : f = Unfold(tree, f)
<1> DEFINE L == LeastPositive(tree)
           f == [p \in Search |-> p \in L]
           g == Unfold(tree, f)
<1>1. Positive(tree, L)
  <2> SUFFICES ASSUME NEW p \in Search,
                      p[1] \in p[2] \/ \E dep \in tree[p[1]] : <<dep, p[2] \cup {p[1]}>> \in L,
                      NEW F \in SUBSET Search, Positive(tree, F)
               PROVE  p \in F
    BY DEF Positive, LeastPositive
  <2>1. L \subseteq F
    BY DEF LeastPositive
  <2> QED
    BY <2>1 DEF Positive
<1>2. ASSUME NEW p \in L
      PROVE  p[1] \in p[2] \/ \E dep \in tree[p[1]] : <<dep, p[2] \cup {p[1]}>> \in L
  <2> SUFFICES ASSUME ~ (p[1] \in p[2]),
                      ~ \E dep \in tree[p[1]] : <<dep, p[2] \cup {p[1]}>> \in L
               PROVE  FALSE
    OBVIOUS
  <2> DEFINE F == L \ {p}
  <2>1. Positive(tree, F)
    BY <1>1 DEF Positive
  <2>2. F \in SUBSET Search
    BY DEF LeastPositive
  <2> QED
    BY <2>1, <2>2 DEF LeastPositive
<1>3. ASSUME NEW p \in Search, NEW dep \in tree[p[1]]
      PROVE  <<dep, p[2] \cup {p[1]}>> \in Search
  BY DEF Search
<1>4. ASSUME NEW p \in Search
      PROVE  f[p] = g[p]
  <2>1. f[p] = (p \in L)
    OBVIOUS
  <2>2. g[p] = (p[1] \in p[2] \/ \E dep \in tree[p[1]] : f[<<dep, p[2] \cup {p[1]}>>])
    BY DEF Unfold
  <2>3. \A dep \in tree[p[1]] : f[<<dep, p[2] \cup {p[1]}>>] = (<<dep, p[2] \cup {p[1]}>> \in L)
    BY <1>3
  <2>4. p \in L <=> (p[1] \in p[2] \/ \E dep \in tree[p[1]] : <<dep, p[2] \cup {p[1]}>> \in L)
    <3>1. ASSUME p[1] \in p[2] \/ \E dep \in tree[p[1]] : <<dep, p[2] \cup {p[1]}>> \in L
          PROVE  p \in L
      BY <1>1, <3>1 DEF Positive
    <3>2. ASSUME p \in L
          PROVE  p[1] \in p[2] \/ \E dep \in tree[p[1]] : <<dep, p[2] \cup {p[1]}>> \in L
      BY <1>2, <3>2
    <3> QED
      BY <3>1, <3>2
  <2>5. g[p] = (p[1] \in p[2] \/ \E dep \in tree[p[1]] : <<dep, p[2] \cup {p[1]}>> \in L)
    BY <2>2, <2>3, Zenon
  <2>6. g[p] = (p \in L)
    <3> DEFINE found == p[1] \in p[2] \/ \E dep \in tree[p[1]] : <<dep, p[2] \cup {p[1]}>> \in L
               inL == p \in L
    <3> HIDE DEF f, g
    <3>1. g[p] = found
      BY <2>5
    <3>2. inL <=> found
      BY <2>4
    <3>3. found \in BOOLEAN /\ inL \in BOOLEAN
      OBVIOUS
    <3> HIDE DEF found, inL
    <3>4. g[p] = inL
      BY <3>1, <3>2, <3>3
    <3> QED
      BY <3>4 DEF inL
  <2> QED
    BY <2>1, <2>6, Zenon
<1>5. f = g
  BY <1>4 DEF Unfold
<1> QED
  BY <1>5

Dfs(tree) == CHOOSE f : f = Unfold(tree, f)

LEMMA SearchUnfolds ==
  ASSUME NEW tree \in [Module -> SUBSET Module],
         NEW n \in Module, NEW visited \in SUBSET Module
  PROVE  Dfs(tree)[<<n, visited>>] =
           (n \in visited \/ \E dep \in tree[n] : Dfs(tree)[<<dep, visited \cup {n}>>])
<1>1. Dfs(tree) = Unfold(tree, Dfs(tree))
  BY SearchExists DEF Dfs
<1>2. <<n, visited>> \in Search
  BY DEF Search
<1> QED
  BY <1>1, <1>2 DEF Unfold

LEMMA TestIsSearch ==
  ASSUME NEW tree \in [Module -> SUBSET Module], NEW name \in Module
  PROVE  TestForCycles(tree, name) = Dfs(tree)[<<name, {}>>]
BY DEF TestForCycles, Dfs, Unfold, Search

\* No closed set of names that avoids a name contains its dependencies: the
\* negation of the search's result.
LEMMA NegativeSearch ==
  ASSUME NEW tree \in [Module -> SUBSET Module], NEW name \in Module,
         ~ TestForCycles(tree, name)
  PROVE  \E S \in SUBSET Module :
           /\ tree[name] \subseteq S
           /\ Closed(tree, S)
           /\ name \notin S
<1> DEFINE S == {x \in Module : \E V \in SUBSET Module : name \in V /\ ~ Dfs(tree)[<<x, V>>]}
<1>1. tree[name] \subseteq S
  <2> SUFFICES ASSUME NEW d \in tree[name]
               PROVE  d \in S
    OBVIOUS
  <2>1. ~ Dfs(tree)[<<name, {}>>]
    BY TestIsSearch
  <2>2. ~ Dfs(tree)[<<d, {} \cup {name}>>]
    BY <2>1, SearchUnfolds
  <2>3. {} \cup {name} \in SUBSET Module
    OBVIOUS
  <2> QED
    BY <2>2, <2>3
<1>2. Closed(tree, S)
  <2> SUFFICES ASSUME NEW x \in S, NEW d \in tree[x]
               PROVE  d \in S
    BY DEF Closed
  <2>1. PICK V \in SUBSET Module : name \in V /\ ~ Dfs(tree)[<<x, V>>]
    OBVIOUS
  <2>2. ~ Dfs(tree)[<<d, V \cup {x}>>]
    BY <2>1, SearchUnfolds
  <2> QED
    BY <2>1, <2>2
<1>3. name \notin S
  BY SearchUnfolds
<1> QED
  BY <1>1, <1>2, <1>3

-----------------------------------------------------------------------------
(* Dependencies stay acyclic *)

\* Every non-empty set of names has one without dependencies in the set.
WellFoundedTree(tree) ==
  \A T \in SUBSET Module : T # {} => \E m \in T : tree[m] \cap T = {}

LEMMA WellFoundedIsAcyclic ==
  ASSUME NEW tree \in [Module -> SUBSET Module], WellFoundedTree(tree),
         NEW m \in Module, Reaches(tree, m, m)
  PROVE  FALSE
<1> DEFINE T == {x \in Module : Reaches(tree, m, x) /\ Reaches(tree, x, m)}
<1>1. PICK y \in T : tree[y] \cap T = {}
  BY DEF WellFoundedTree
<1>2. ASSUME NEW d \in tree[y]
      PROVE  Reaches(tree, m, d)
  BY <1>2 DEF Reaches, Closed
<1>3. \E d \in tree[y] : d = m \/ Reaches(tree, d, m)
  <2> SUFFICES ASSUME \A d \in tree[y] : d # m /\ ~ Reaches(tree, d, m)
               PROVE  FALSE
    OBVIOUS
  <2> DEFINE U == {x \in Module : x # m /\ ~ Reaches(tree, x, m)}
  <2>1. tree[y] \subseteq U
    OBVIOUS
  <2>2. Closed(tree, U)
    <3> SUFFICES ASSUME NEW x \in U, NEW e \in tree[x]
                 PROVE  e \in U
      BY DEF Closed
    <3>1. PICK S \in SUBSET Module : tree[x] \subseteq S /\ Closed(tree, S) /\ m \notin S
      BY DEF Reaches
    <3> QED
      BY <3>1 DEF Reaches, Closed
  <2> QED
    BY <2>1, <2>2 DEF Reaches
<1>4. PICK d \in tree[y] : d = m \/ Reaches(tree, d, m)
  BY <1>3
<1>5. d \in T
  BY <1>2, <1>4
<1> QED
  BY <1>1, <1>5

\* Adding dependencies to a name the search does not object to.
LEMMA AddingPreserves ==
  ASSUME NEW tree \in [Module -> SUBSET Module], WellFoundedTree(tree),
         NEW name \in Module, NEW dependencies \in SUBSET Module,
         NEW new, new = [tree EXCEPT ![name] = @ \cup dependencies],
         ~ TestForCycles(new, name)
  PROVE  WellFoundedTree(new)
<1>0. new \in [Module -> SUBSET Module]
  OBVIOUS
<1>1. PICK S \in SUBSET Module : new[name] \subseteq S /\ Closed(new, S) /\ name \notin S
  BY <1>0, NegativeSearch
<1> SUFFICES ASSUME NEW T \in SUBSET Module, T # {}
             PROVE  \E m \in T : new[m] \cap T = {}
  BY DEF WellFoundedTree
<1>2. CASE T \cap S # {}
  <2>1. PICK m \in T \cap S : tree[m] \cap (T \cap S) = {}
    BY <1>2 DEF WellFoundedTree
  <2>2. new[m] = tree[m] /\ new[m] \subseteq S
    BY <1>1, <2>1 DEF Closed
  <2> QED
    BY <2>1, <2>2
<1>3. CASE T \cap S = {} /\ name \in T
  BY <1>1, <1>3
<1>4. CASE T \cap S = {} /\ name \notin T
  <2>1. PICK m \in T : tree[m] \cap T = {}
    BY DEF WellFoundedTree
  <2> QED
    BY <1>4, <2>1
<1> QED
  BY <1>2, <1>3, <1>4

-----------------------------------------------------------------------------
(* Type correctness *)

LEMMA TypeInit == Init => TypeOK
BY DEF Init, TypeOK, Status, HandlerState, Execution

LEMMA LaunchType ==
  ASSUME TypeOK, NEW m \in Module, Launch(m)
  PROVE  /\ status' \in [Module -> Status]
         /\ launched' \in [Module -> SUBSET Handler]
         /\ hstate' \in [Handler -> HandlerState]
BY DEF TypeOK, Launch, Status, HandlerState

LEMMA TypeStep == TypeOK /\ [Next]_vars => TypeOK'
<1> SUFFICES ASSUME TypeOK, [Next]_vars
             PROVE  TypeOK'
  OBVIOUS
<1>1. ASSUME NEW name \in Module, NEW dependencies \in SUBSET Module, NEW h \in Handler,
             AddHook(name, dependencies, h)
      PROVE  TypeOK'
  BY <1>1 DEF AddHook, MergedTree, graphVars, runVars, TypeOK
<1>2. CASE ExecuteAll
  BY <1>2 DEF ExecuteAll, Keys, graphVars, TypeOK, Execution
<1>3. ASSUME NEW m \in Module, Visit(m)
      PROVE  TypeOK'
  <2>1. /\ status' \in [Module -> Status]
        /\ launched' \in [Module -> SUBSET Handler]
        /\ hstate' \in [Handler -> HandlerState]
    BY <1>3, LaunchType DEF Visit, TypeOK, Status
  <2> QED
    BY <1>3, <2>1 DEF Visit, graphVars, TypeOK
<1>4. ASSUME NEW m \in Module, RunHandlers(m)
      PROVE  TypeOK'
  <2>1. /\ status' \in [Module -> Status]
        /\ launched' \in [Module -> SUBSET Handler]
        /\ hstate' \in [Handler -> HandlerState]
    BY <1>4, LaunchType DEF RunHandlers
  <2> QED
    BY <1>4, <2>1 DEF RunHandlers, graphVars, TypeOK
<1>5. ASSUME NEW m \in Module, DependencyFailed(m)
      PROVE  TypeOK'
  BY <1>5 DEF DependencyFailed, graphVars, TypeOK, Status
<1>6. ASSUME NEW m \in Module, NEW h \in Handler, NEW outcome \in {"ok", "failed"},
             HandlerSettles(m, h, outcome)
      PROVE  TypeOK'
  BY <1>6 DEF HandlerSettles, graphVars, TypeOK, Status, HandlerState
<1>7. CASE ExecuteAllSettles
  BY <1>7 DEF ExecuteAllSettles, graphVars, TypeOK, Execution
<1>8. CASE UNCHANGED vars
  BY <1>8 DEF vars, TypeOK
<1> QED
  BY <1>1, <1>2, <1>3, <1>4, <1>5, <1>6, <1>7, <1>8 DEF Next, Settling

\* Every variable keeps its type.
THEOREM TypeCorrect == Spec => []TypeOK
BY TypeInit, TypeStep, PTL DEF Spec

-----------------------------------------------------------------------------
(* Acyclicity *)

LEMMA TreeInit == Init => WellFoundedTree(dependencyTree)
BY DEF Init, WellFoundedTree

LEMMA TreeStep ==
  TypeOK /\ WellFoundedTree(dependencyTree) /\ [Next]_vars => WellFoundedTree(dependencyTree)'
<1> SUFFICES ASSUME TypeOK, WellFoundedTree(dependencyTree), [Next]_vars
             PROVE  WellFoundedTree(dependencyTree)'
  OBVIOUS
<1>1. ASSUME NEW name \in Module, NEW dependencies \in SUBSET Module, NEW h \in Handler,
             AddHook(name, dependencies, h)
      PROVE  WellFoundedTree(dependencyTree)'
  <2>1. CASE TestForCycles(MergedTree(name, dependencies), name)
    BY <1>1, <2>1 DEF AddHook, graphVars, WellFoundedTree
  <2>2. CASE ~ TestForCycles(MergedTree(name, dependencies), name)
    <3>1. dependencyTree' = MergedTree(name, dependencies)
      BY <1>1, <2>2 DEF AddHook
    <3>2. WellFoundedTree(MergedTree(name, dependencies))
      BY <2>2, AddingPreserves DEF MergedTree, TypeOK
    <3> QED
      BY <3>1, <3>2 DEF WellFoundedTree
  <2> QED
    BY <2>1, <2>2
<1>2. CASE UNCHANGED dependencyTree
  BY <1>2 DEF WellFoundedTree
<1> QED
  BY <1>1, <1>2 DEF Next, ExecuteAll, Visit, RunHandlers, DependencyFailed, Settling,
                    HandlerSettles, ExecuteAllSettles, graphVars, vars

\* No sequence of registrations, also while hooks are executing, makes the
\* dependencies that _executeModule recurses along cyclic.
THEOREM TreeAcyclic == Spec => []AcyclicTree
<1>1. TypeOK /\ WellFoundedTree(dependencyTree) => AcyclicTree
  BY WellFoundedIsAcyclic DEF AcyclicTree, TypeOK
<1> QED
  BY <1>1, TypeInit, TypeStep, TreeInit, TreeStep, PTL DEF Spec

-----------------------------------------------------------------------------
(* The inductive invariant *)

LEMMA IInvInit == Init => IInv
<1> SUFFICES ASSUME Init
             PROVE  IInv
  OBVIOUS
<1>1. OneOwner
  BY DEF Init, OneOwner, Registered
<1>2. StatusMeaning
  BY DEF Init, StatusMeaning
<1>3. TraversalComplete
  BY DEF Init, TraversalComplete, AwaitedKeys
<1>4. PhaseMeaning
  BY DEF Init, PhaseMeaning, AwaitedKeys
<1> QED
  BY <1>1, <1>2, <1>3, <1>4, TypeInit DEF IInv

\* What calling the handlers of a module does to the state of its promise.
LEMMA LaunchEffect ==
  ASSUME TypeOK, NEW m \in Module, Launch(m), launched[m] = {}
  PROVE  /\ \A n \in Module \ {m} : status'[n] = status[n] /\ launched'[n] = launched[n]
         /\ status'[m] \in {"running", "done", "failed"}
         /\ launched'[m] \subseteq hooks[m]
         /\ status'[m] \in {"running", "done"} => launched'[m] = hooks[m]
         /\ status'[m] = "done" => launched'[m] = {}
         /\ \A h \in Handler : hstate'[h] # hstate[h] => h \in launched'[m]
         /\ \A h \in Handler : h \notin hooks[m] => hstate'[h] = hstate[h]
<1>1. CASE hooks[m] = {} /\ status' = [status EXCEPT ![m] = "done"] /\ UNCHANGED <<launched, hstate>>
  BY <1>1 DEF TypeOK
<1>2. CASE /\ hooks[m] # {}
           /\ status' = [status EXCEPT ![m] = "running"]
           /\ launched' = [launched EXCEPT ![m] = hooks[m]]
           /\ hstate' = [h \in Handler |-> IF h \in hooks[m] THEN "running" ELSE hstate[h]]
  BY <1>2 DEF TypeOK
<1>3. ASSUME NEW thrower \in hooks[m], NEW before \in SUBSET (hooks[m] \ {thrower}),
             status' = [status EXCEPT ![m] = "failed"],
             launched' = [launched EXCEPT ![m] = before \cup {thrower}],
             hstate' = [h \in Handler |-> IF h = thrower THEN "failed"
                                          ELSE IF h \in before THEN "running"
                                          ELSE hstate[h]]
      PROVE  /\ \A n \in Module \ {m} : status'[n] = status[n] /\ launched'[n] = launched[n]
             /\ status'[m] = "failed"
             /\ launched'[m] \subseteq hooks[m]
             /\ \A h \in Handler : hstate'[h] # hstate[h] => h \in launched'[m]
             /\ \A h \in Handler : h \notin hooks[m] => hstate'[h] = hstate[h]
  BY <1>3 DEF TypeOK
<1> QED
  BY <1>1, <1>2, <1>3 DEF Launch

\* The invariant's part on handlers and statuses, for a step that calls the
\* handlers of a module whose awaited promises have resolved.
LEMMA LaunchStep ==
  ASSUME IInv, TypeOK', NEW m \in Module, Launch(m), UNCHANGED <<graphVars, expected>>,
         status[m] \in {"idle", "waiting"},
         \A n \in Module \ {m} : awaited'[n] = awaited[n],
         \A d \in awaited'[m] : d # m /\ status[d] = "done"
  PROVE  OneOwner' /\ StatusMeaning'
<1> USE DEF graphVars
<1>0. launched[m] = {} /\ TypeOK
  BY DEF IInv, StatusMeaning
<1>1. /\ \A n \in Module \ {m} : status'[n] = status[n] /\ launched'[n] = launched[n]
      /\ status'[m] \in {"running", "done", "failed"}
      /\ launched'[m] \subseteq hooks[m]
      /\ status'[m] \in {"running", "done"} => launched'[m] = hooks[m]
      /\ status'[m] = "done" => launched'[m] = {}
      /\ \A h \in Handler : hstate'[h] # hstate[h] => h \in launched'[m]
      /\ \A h \in Handler : h \notin hooks[m] => hstate'[h] = hstate[h]
  BY <1>0, LaunchEffect
<1>2. OneOwner'
  <2>1. \A n \in Module : launched'[n] \subseteq hooks'[n]
    BY <1>1 DEF IInv, OneOwner
  <2>2. \A h \in Handler : hstate'[h] # "idle" => \E n \in Module : h \in launched'[n]
    <3> SUFFICES ASSUME NEW h \in Handler, hstate'[h] # "idle", h \notin launched'[m]
                 PROVE  \E n \in Module \ {m} : h \in launched'[n]
      OBVIOUS
    <3>1. hstate[h] # "idle"
      BY <1>1
    <3> QED
      BY <1>0, <1>1, <3>1 DEF IInv, OneOwner
  <2> QED
    BY <2>1, <2>2 DEF IInv, OneOwner, Registered
<1>3. StatusMeaning'
  <2> SUFFICES ASSUME NEW n \in Module
               PROVE  (/\ status[n] \in {"idle", "waiting"} => launched[n] = {}
                       /\ status[n] = "idle" => awaited[n] = {}
                       /\ status[n] \in {"running", "done"} => hooks[n] \cap expected \subseteq launched[n]
                       /\ status[n] = "done" => \A h \in launched[n] : hstate[h] = "ok"
                       /\ status[n] \in {"running", "done"} \/ launched[n] # {}
                            => \A d \in awaited[n] : status[d] = "done")'
    BY DEF StatusMeaning
  <2>0. \A d \in Module : status[d] = "done" => status'[d] = "done"
    BY <1>1
  <2>1. CASE n = m
    BY <1>1, <2>0, <2>1 DEF TypeOK
  <2>2. CASE n # m
    <3>1. status'[n] = status[n] /\ launched'[n] = launched[n] /\ awaited'[n] = awaited[n]
      BY <1>1, <2>2
    <3>2. \A h \in launched[n] : hstate'[h] = hstate[h]
      BY <1>0, <1>1, <2>2 DEF IInv, OneOwner, TypeOK
    <3>3. \A d \in awaited[n] : d \in Module
      BY <1>0 DEF TypeOK
    <3> QED
      BY <2>0, <3>1, <3>2, <3>3 DEF IInv, StatusMeaning
  <2> QED
    BY <2>1, <2>2
<1> QED
  BY <1>2, <1>3

LEMMA AddHookStep ==
  ASSUME IInv, TypeOK', NEW name \in Module, NEW dependencies \in SUBSET Module,
         NEW h \in Handler, AddHook(name, dependencies, h)
  PROVE  IInv'
<1> USE DEF graphVars, runVars
<1>1. CASE UNCHANGED graphVars
  BY <1>1 DEF AddHook, IInv, OneOwner, StatusMeaning, TraversalComplete, PhaseMeaning,
              Registered, AwaitedKeys, Closed
<1>2. CASE hooks' = [hooks EXCEPT ![name] = @ \cup {h}]
  <2>0. UNCHANGED runVars /\ ~ Registered(h) /\ h \notin expected
    BY DEF AddHook, IInv, OneOwner
  <2>1. \A m \in Module : /\ hooks[m] \subseteq hooks'[m]
                           /\ hooks'[m] \cap expected = hooks[m] \cap expected
    BY <1>2, <2>0 DEF IInv, TypeOK
  <2>2. AwaitedKeys' = AwaitedKeys
    BY <2>0, <2>1 DEF AwaitedKeys
  <2>3. OneOwner'
    <3>1. \A m, n \in Module : hooks'[m] \cap hooks'[n] # {} => m = n
      BY <1>2, <2>0 DEF IInv, TypeOK, OneOwner, Registered
    <3> QED
      BY <2>0, <2>1, <3>1 DEF IInv, OneOwner, Registered
  <2>4. StatusMeaning'
    BY <2>0, <2>1 DEF IInv, StatusMeaning
  <2>5. TraversalComplete'
    BY <2>0, <2>2 DEF IInv, TraversalComplete, Closed
  <2>6. PhaseMeaning'
    BY <2>0, <2>2 DEF IInv, PhaseMeaning
  <2> QED
    BY <2>3, <2>4, <2>5, <2>6 DEF IInv
<1> QED
  BY <1>1, <1>2 DEF AddHook

LEMMA ExecuteAllStep ==
  ASSUME IInv, TypeOK', ExecuteAll
  PROVE  IInv'
<1> USE DEF graphVars
<1>0. /\ \A m \in Module : status[m] = "idle" /\ status'[m] = "idle"
      /\ UNCHANGED <<dependencyTree, hooks, awaited, status, launched, hstate>>
  BY DEF ExecuteAll, IInv, PhaseMeaning
<1>1. AwaitedKeys' = Keys /\ toVisit' = Keys
  BY <1>0 DEF ExecuteAll, AwaitedKeys, Keys
<1>2. OneOwner'
  BY <1>0 DEF ExecuteAll, IInv, OneOwner, Registered, TypeOK
<1>3. StatusMeaning'
  BY <1>0 DEF IInv, StatusMeaning
<1>4. TraversalComplete'
  BY <1>0, <1>1 DEF TraversalComplete, Keys
<1>5. PhaseMeaning'
  BY <1>0, <1>1 DEF ExecuteAll, PhaseMeaning
<1> QED
  BY <1>2, <1>3, <1>4, <1>5 DEF IInv

LEMMA VisitStep ==
  ASSUME IInv, TypeOK', NEW m \in Module, Visit(m)
  PROVE  IInv'
<1> USE DEF graphVars
<1>0. /\ UNCHANGED <<dependencyTree, hooks, execution, expected>>
      /\ status[m] = "idle" /\ awaited[m] = {} /\ launched[m] = {}
      /\ awaited' = [awaited EXCEPT ![m] = dependencyTree[m]]
      /\ toVisit' = (toVisit \cup dependencyTree[m]) \cap (Unvisited \ {m})
      /\ m \in toVisit
  BY DEF Visit, IInv, TraversalComplete, StatusMeaning
<1>1. AwaitedKeys' = AwaitedKeys
  BY <1>0 DEF AwaitedKeys
<1>2. OneOwner' /\ StatusMeaning'
  <2>1. CASE dependencyTree[m] = {} /\ Launch(m)
    <3>1. awaited'[m] = {} /\ \A n \in Module \ {m} : awaited'[n] = awaited[n]
      BY <1>0, <2>1 DEF IInv, TypeOK
    <3> QED
      BY <1>0, <2>1, <3>1, LaunchStep
  <2>2. CASE status' = [status EXCEPT ![m] = "waiting"] /\ UNCHANGED <<launched, hstate>>
    BY <1>0, <2>2 DEF IInv, TypeOK, OneOwner, StatusMeaning, Registered
  <2> QED
    BY <2>1, <2>2 DEF Visit
<1>3. status'[m] # "idle" /\ \A n \in Module \ {m} : status'[n] = status[n]
  <2>1. CASE Launch(m)
    BY <1>0, <2>1, LaunchEffect DEF IInv
  <2>2. CASE status' = [status EXCEPT ![m] = "waiting"]
    BY <2>2 DEF IInv, TypeOK
  <2> QED
    BY <2>1, <2>2 DEF Visit
<1>4. TraversalComplete'
  <2>1. \A n \in Module : n \in toVisit' => status'[n] = "idle"
    BY <1>0, <1>3 DEF Unvisited
  <2>2. \A n \in AwaitedKeys' : status'[n] = "idle" => n \in toVisit'
    BY <1>0, <1>1, <1>3 DEF IInv, TraversalComplete, AwaitedKeys, Unvisited
  <2>3. ASSUME NEW S \in SUBSET Module, AwaitedKeys' \subseteq S, Closed(awaited', S),
               NEW n \in Module, status'[n] # "idle" \/ n \in toVisit'
        PROVE  n \in S
    <3>1. Closed(awaited, S)
      BY <1>0, <2>3 DEF Closed, IInv, TypeOK
    <3>2. \A k \in Module : status[k] # "idle" \/ k \in toVisit => k \in S
      BY <1>1, <2>3, <3>1 DEF IInv, TraversalComplete
    <3>3. dependencyTree[m] \subseteq S
      BY <1>0, <2>3, <3>2 DEF Closed, IInv, TypeOK
    <3> QED
      BY <1>0, <1>3, <2>3, <3>2, <3>3
  <2> QED
    BY <2>1, <2>2, <2>3 DEF TraversalComplete, Closed
<1>5. PhaseMeaning'
  BY <1>0 DEF IInv, PhaseMeaning
<1> QED
  BY <1>2, <1>4, <1>5 DEF IInv

LEMMA RunHandlersStep ==
  ASSUME IInv, TypeOK', NEW m \in Module, RunHandlers(m)
  PROVE  IInv'
<1> USE DEF graphVars
<1>0. /\ UNCHANGED <<dependencyTree, hooks, toVisit, awaited, execution, expected>>
      /\ toVisit = {} /\ status[m] = "waiting" /\ launched[m] = {}
      /\ Launch(m)
  BY DEF RunHandlers, IInv, StatusMeaning
<1>1. OneOwner' /\ StatusMeaning'
  BY <1>0, LaunchStep DEF RunHandlers
<1>2. status'[m] # "idle" /\ \A n \in Module \ {m} : status'[n] = status[n]
  BY <1>0, LaunchEffect DEF IInv
<1>3. AwaitedKeys' = AwaitedKeys
  BY <1>0 DEF AwaitedKeys
<1>4. TraversalComplete'
  BY <1>0, <1>2, <1>3 DEF IInv, TraversalComplete, Closed, AwaitedKeys
<1>5. PhaseMeaning'
  BY <1>0 DEF IInv, PhaseMeaning
<1> QED
  BY <1>1, <1>4, <1>5 DEF IInv

LEMMA DependencyFailedStep ==
  ASSUME IInv, TypeOK', NEW m \in Module, DependencyFailed(m)
  PROVE  IInv'
<1> USE DEF graphVars
<1>0. /\ UNCHANGED <<dependencyTree, hooks, toVisit, awaited, launched, hstate, execution, expected>>
      /\ status[m] = "waiting" /\ launched[m] = {}
      /\ status' = [status EXCEPT ![m] = "failed"]
  BY DEF DependencyFailed, IInv, StatusMeaning
<1>1. status'[m] = "failed" /\ \A n \in Module \ {m} : status'[n] = status[n]
  BY <1>0 DEF IInv, TypeOK
<1>2. AwaitedKeys' = AwaitedKeys
  BY <1>0 DEF AwaitedKeys
<1>3. OneOwner'
  BY <1>0 DEF IInv, OneOwner, Registered
<1>4. StatusMeaning'
  BY <1>0, <1>1 DEF IInv, StatusMeaning, TypeOK
<1>5. TraversalComplete'
  BY <1>0, <1>1, <1>2 DEF IInv, TraversalComplete, Closed, AwaitedKeys
<1>6. PhaseMeaning'
  BY <1>0 DEF IInv, PhaseMeaning
<1> QED
  BY <1>3, <1>4, <1>5, <1>6 DEF IInv

LEMMA HandlerSettlesStep ==
  ASSUME IInv, TypeOK', NEW m \in Module, NEW h \in Handler, NEW outcome \in {"ok", "failed"},
         HandlerSettles(m, h, outcome)
  PROVE  IInv'
<1> USE DEF graphVars
<1>0. /\ UNCHANGED <<dependencyTree, hooks, toVisit, awaited, launched, execution, expected>>
      /\ h \in launched[m] /\ hstate[h] = "running"
      /\ hstate'[h] = outcome /\ \A g \in Handler \ {h} : hstate'[g] = hstate[g]
      /\ \A n \in Module \ {m} : status'[n] = status[n]
      /\ \/ status'[m] = status[m]
         \/ status[m] = "running" /\ status'[m] = "failed"
         \/ /\ status[m] = "running" /\ status'[m] = "done" /\ outcome = "ok"
            /\ \A g \in launched[m] \ {h} : hstate[g] = "ok"
  BY DEF HandlerSettles, IInv, TypeOK
<1>1. status[m] \in {"running", "failed"}
  BY <1>0 DEF IInv, TypeOK, StatusMeaning, Status
<1>2. AwaitedKeys' = AwaitedKeys
  BY <1>0 DEF AwaitedKeys
<1>3. OneOwner'
  BY <1>0 DEF IInv, OneOwner, Registered
<1>4. StatusMeaning'
  <2>0. \A d \in Module : status[d] = "done" => status'[d] = "done"
    BY <1>0, <1>1
  <2> SUFFICES ASSUME NEW n \in Module
               PROVE  (/\ status[n] \in {"idle", "waiting"} => launched[n] = {}
                       /\ status[n] = "idle" => awaited[n] = {}
                       /\ status[n] \in {"running", "done"} => hooks[n] \cap expected \subseteq launched[n]
                       /\ status[n] = "done" => \A g \in launched[n] : hstate[g] = "ok"
                       /\ status[n] \in {"running", "done"} \/ launched[n] # {}
                            => \A d \in awaited[n] : status[d] = "done")'
    BY DEF StatusMeaning
  <2>1. CASE n = m
    <3>1. \A d \in awaited'[m] : status'[d] = "done"
      BY <1>0, <2>0 DEF IInv, StatusMeaning, TypeOK
    <3>2. status'[m] = "done" => \A g \in launched'[m] : hstate'[g] = "ok"
      BY <1>0, <1>1 DEF IInv, TypeOK
    <3> QED
      BY <1>0, <1>1, <2>1, <3>1, <3>2 DEF IInv, StatusMeaning
  <2>2. CASE n # m
    <3>1. h \notin launched[n]
      BY <1>0, <2>2 DEF IInv, OneOwner
    <3>2. \A g \in launched[n] : hstate'[g] = hstate[g]
      BY <1>0, <3>1 DEF IInv, TypeOK
    <3>3. \A d \in awaited[n] : d \in Module
      BY DEF IInv, TypeOK
    <3> QED
      BY <1>0, <2>0, <2>2, <3>2, <3>3 DEF IInv, StatusMeaning
  <2> QED
    BY <2>1, <2>2
<1>5. TraversalComplete'
  BY <1>0, <1>1, <1>2 DEF IInv, TraversalComplete, Closed, AwaitedKeys
<1>6. PhaseMeaning'
  BY <1>0, <1>1, <1>2 DEF IInv, PhaseMeaning
<1> QED
  BY <1>3, <1>4, <1>5, <1>6 DEF IInv

LEMMA ExecuteAllSettlesStep ==
  ASSUME IInv, TypeOK', ExecuteAllSettles
  PROVE  IInv'
<1> USE DEF graphVars
<1>0. UNCHANGED <<dependencyTree, hooks, toVisit, awaited, status, launched, hstate, expected>>
  BY DEF ExecuteAllSettles
<1>1. AwaitedKeys' = AwaitedKeys
  BY <1>0 DEF AwaitedKeys
<1>2. OneOwner' /\ StatusMeaning' /\ TraversalComplete'
  BY <1>0, <1>1 DEF IInv, OneOwner, Registered, StatusMeaning, TraversalComplete, Closed
<1>3. PhaseMeaning'
  <2>1. CASE execution' = "rejected"
    BY <2>1 DEF PhaseMeaning
  <2>2. CASE execution' = "resolved" /\ \A m \in AwaitedKeys : status[m] = "done"
    <3> DEFINE Done == {m \in Module : status[m] = "done"}
    <3>1. Closed(awaited, Done)
      BY DEF Closed, IInv, StatusMeaning, TypeOK
    <3>2. AwaitedKeys \subseteq Done
      BY <2>2 DEF AwaitedKeys
    <3>3. \A m \in Module : status[m] # "idle" => m \in Done
      BY <3>1, <3>2 DEF IInv, TraversalComplete
    <3> QED
      BY <1>0, <1>1, <2>2, <3>3 DEF ExecuteAllSettles, PhaseMeaning
  <2> QED
    BY <2>1, <2>2 DEF ExecuteAllSettles
<1> QED
  BY <1>2, <1>3 DEF IInv

LEMMA IInvStep == IInv /\ [Next]_vars => IInv'
<1> SUFFICES ASSUME IInv, [Next]_vars
             PROVE  IInv'
  OBVIOUS
<1>0. TypeOK'
  BY TypeStep DEF IInv
<1>1. CASE UNCHANGED vars
  BY <1>1 DEF vars, IInv, TypeOK, OneOwner, Registered, StatusMeaning, TraversalComplete,
              PhaseMeaning, AwaitedKeys, Closed
<1> QED
  BY <1>0, <1>1, AddHookStep, ExecuteAllStep, VisitStep, RunHandlersStep, DependencyFailedStep,
     HandlerSettlesStep, ExecuteAllSettlesStep
  DEF Next, Settling

LEMMA IInvAlways == Spec => []IInv
BY IInvInit, IInvStep, PTL DEF Spec

\* Hooks are called in dependency order: every handler registered at the call
\* of executeAll under a direct or indirect dependency has completed first.
THEOREM OrderRespected == Spec => []DependencyOrder
<1>1. IInv => DependencyOrder
  <2> SUFFICES ASSUME IInv, NEW m \in Module, NEW d \in Module, launched[m] # {},
                      Reaches(awaited, m, d), NEW h \in hooks[d] \cap expected
               PROVE  hstate[h] = "ok"
    BY DEF DependencyOrder
  <2> DEFINE Done == {x \in Module : status[x] = "done"}
  <2>1. Closed(awaited, Done)
    BY DEF Closed, IInv, StatusMeaning, TypeOK
  <2>2. awaited[m] \subseteq Done
    BY DEF IInv, StatusMeaning, TypeOK
  <2>3. d \in Done
    BY <2>1, <2>2 DEF Reaches
  <2> QED
    BY <2>3 DEF IInv, StatusMeaning
<1> QED
  BY <1>1, IInvAlways, PTL

LEMMA IInvIsQuiet == IInv => ResolvedIsQuiet
<1> SUFFICES ASSUME IInv, execution = "resolved", NEW h \in Handler
             PROVE  (h \in expected => hstate[h] = "ok") /\ hstate[h] # "running"
  BY DEF ResolvedIsQuiet, IInv, TypeOK
<1>1. ASSUME h \in expected
      PROVE  hstate[h] = "ok"
  <2>1. PICK m \in Module : h \in hooks[m]
    BY <1>1 DEF IInv, OneOwner, Registered
  <2>2. m \in AwaitedKeys
    BY <1>1, <2>1 DEF AwaitedKeys
  <2> QED
    BY <1>1, <2>1, <2>2 DEF IInv, PhaseMeaning, StatusMeaning
<1>2. ASSUME hstate[h] = "running"
      PROVE  FALSE
  <2>1. PICK m \in Module : h \in launched[m]
    BY <1>2 DEF IInv, OneOwner
  <2> QED
    BY <1>2, <2>1 DEF IInv, PhaseMeaning, StatusMeaning
<1> QED
  BY <1>1, <1>2

\* When executeAll resolves, the hooks registered at its call have completed and
\* nothing is still executing.
THEOREM QuietWhenResolved == Spec => []ResolvedIsQuiet
BY IInvIsQuiet, IInvAlways, PTL

-----------------------------------------------------------------------------
(* The server uses its shutdown hooks as ShutdownManager says *)

LEMMA HooksInit == ServerInit => Init
BY DEF ServerInit

LEMMA HooksStep == [ServerNext]_allVars => [Next]_vars
<1> SUFFICES ASSUME [ServerNext]_allVars
             PROVE  [Next]_vars
  OBVIOUS
<1> USE DEF Next
<1>1. CASE UNCHANGED allVars \/ Start \/ Stop
  BY <1>1 DEF allVars, Start, Stop
<1>2. CASE StartStep
  <2>1. CASE BusStarted
    BY <2>1, ServerAssumption DEF BusStarted
  <2> QED
    BY <1>2, <2>1 DEF StartStep, StartEmitted, Setup, BusStartFails, CallListen, Listening,
                      ListenFails, ReadyEmitted, StartCleanedUp
<1>3. CASE StopStep
  BY <1>3 DEF StopStep, StoppingEmitted, CloseResolves, TimerFires, CloseRejects, HooksDone,
              HooksFailed
<1>4. ASSUME NEW name \in Module, NEW dependencies \in SUBSET Module, NEW h \in Handler,
             OnShutdown(name, dependencies, h)
      PROVE  [Next]_vars
  BY <1>4 DEF OnShutdown
<1>5. ASSUME NEW m \in Module, HookStep(m)
      PROVE  [Next]_vars
  BY <1>5 DEF HookStep
<1>6. ASSUME NEW m \in Module, NEW h \in Handler, NEW outcome \in {"ok", "failed"},
             HookSettles(m, h, outcome)
      PROVE  [Next]_vars
  BY <1>6 DEF HookSettles, Settling
<1>7. CASE HooksSettle
  BY <1>7 DEF HooksSettle
<1>8. CASE BusStops \/ (\E c \in Conn : Disconnect(c)) \/ UserClosesTransport
  BY <1>8 DEF BusStops, Disconnect, UserClosesTransport
<1>9. ASSUME NEW c \in Conn, NEW protocol \in {"http1", "http2"}, Connect(c, protocol)
      PROVE  [Next]_vars
  BY <1>9 DEF Connect
<1> QED
  BY <1>1, <1>2, <1>3, <1>4, <1>5, <1>6, <1>7, <1>8, <1>9 DEF ServerNext

\* A server registers and executes its hooks the way ShutdownManager allows, so
\* that what is proved about that (dependency order, acyclic tree, quiet when
\* resolved) holds in every server, start() and stop() included.
THEOREM ServerRunsHooks == ServerSpec => Spec
BY HooksInit, HooksStep, PTL DEF ServerSpec, Spec

-----------------------------------------------------------------------------
(* Type correctness *)

LEMMA ServerTypeInit == ServerInit => ServerTypeOK
BY TypeInit DEF ServerInit, ServerTypeOK, State, StartPc, StopPc

LEMMA ServerTypeStep == ServerTypeOK /\ [ServerNext]_allVars => ServerTypeOK'
<1> SUFFICES ASSUME ServerTypeOK, [ServerNext]_allVars
             PROVE  ServerTypeOK'
  OBVIOUS
<1>0. TypeOK'
  BY HooksStep, TypeStep DEF ServerTypeOK
<1> USE <1>0 DEF ServerTypeOK, State, StartPc, StopPc, lifecycleVars, transportVars, serverVars
<1>1. CASE UNCHANGED allVars \/ Start \/ Stop
  BY <1>1 DEF allVars, Start, Stop
<1>2. CASE StartStep
  <2>1. CASE Listening
    <3>1. options.autoShutdown \in BOOLEAN
      BY Zenon DEF Options
    <3> QED
      BY <2>1, <3>1 DEF Listening
  <2>2. CatchStart => startPc' \in StartPc /\ state' \in State
                      /\ bus' \in {"stopped", "starting", "started", "stopping"}
    BY DEF CatchStart
  <2>3. CASE Setup
    BY <2>2, <2>3 DEF Setup
  <2>6. CASE CallListen
    <3>1. server' \in BOOLEAN /\ socket' \in {"none", "binding", "listening", "closing", "closed"}
      BY <2>6, Zenon DEF CallListen
    <3> QED
      BY <2>2, <2>6, <3>1 DEF CallListen
  <2>4. CASE ListenFails \/ ReadyEmitted
    BY <2>2, <2>4 DEF ListenFails, ReadyEmitted
  <2>5. CASE StartEmitted \/ BusStarted \/ BusStartFails \/ StartCleanedUp
    BY <2>5 DEF StartEmitted, BusStarted, BusStartFails, StartCleanedUp
  <2> QED
    BY <1>2, <2>1, <2>3, <2>4, <2>5, <2>6 DEF StartStep
<1>3. CASE StopStep
  <2>1. CASE StoppingEmitted
    <3>1. /\ stopPc' \in StopPc /\ socket' \in {"none", "binding", "listening", "closing", "closed"}
          /\ stopPromise' \in BOOLEAN /\ aborted' \in BOOLEAN /\ signalHandlers' \in BOOLEAN
      BY <2>1, Zenon DEF StoppingEmitted
    <3>2. UNCHANGED <<options, state, startPc, server, address, conns, timedOut, bus>>
      BY <2>1 DEF StoppingEmitted
    <3> QED BY <3>1, <3>2
  <2>2. CASE CloseResolves \/ CloseRejects
    BY <2>2 DEF CloseResolves, CloseRejects, CatchStop
  <2>3. CASE TimerFires
    BY <2>3 DEF TimerFires
  <2>4. CASE HooksDone \/ HooksFailed
    BY <2>4 DEF HooksDone, HooksFailed, CatchStop
  <2> QED BY <1>3, <2>1, <2>2, <2>3, <2>4 DEF StopStep
<1>4. ASSUME NEW name \in Module, NEW dependencies \in SUBSET Module, NEW h \in Handler,
             OnShutdown(name, dependencies, h)
      PROVE  ServerTypeOK'
  BY <1>4 DEF OnShutdown
<1>5. ASSUME NEW m \in Module, HookStep(m)
      PROVE  ServerTypeOK'
  BY <1>5 DEF HookStep, BusHookCalled
<1>6. ASSUME NEW m \in Module, NEW h \in Handler, NEW outcome \in {"ok", "failed"},
             HookSettles(m, h, outcome)
      PROVE  ServerTypeOK'
  BY <1>6 DEF HookSettles
<1>7. CASE HooksSettle \/ BusStops \/ UserClosesTransport
  BY <1>7 DEF HooksSettle, BusStops, UserClosesTransport
<1>8. ASSUME NEW c \in Conn, NEW protocol \in {"http1", "http2"}, Connect(c, protocol)
      PROVE  ServerTypeOK'
  BY <1>8 DEF Connect
<1>9. ASSUME NEW c \in Conn, Disconnect(c)
      PROVE  ServerTypeOK'
  BY <1>9 DEF Disconnect
<1> QED
  BY <1>1, <1>2, <1>3, <1>4, <1>5, <1>6, <1>7, <1>8, <1>9 DEF ServerNext

-----------------------------------------------------------------------------
(* The inductive invariant *)

\* Where start() and stop() are fits the state of the server.
PhasesAgree ==
  /\ state = "created" => startPc = "idle"
  /\ startPc = "idle" => state = "created"
  /\ startPc \in {"emitStart", "setup", "busStart", "callListen", "listen"} => state = "starting"
  /\ state = "running" => startPc \in {"emitReady", "resolved", "cleanup"}
  /\ stopPc # "idle" => /\ state \in {"stopping", "stopped"}
                        /\ startPc \in {"emitReady", "resolved", "cleanup", "rejected"}

\* The event bus runs only between start() and its hook, which was registered in
\* time for executeAll and does not complete before the bus has stopped.
BusMeaning ==
  /\ startPc \in {"idle", "emitStart", "setup", "rejected"} => bus = "stopped"
  /\ bus = "starting" <=> startPc = "busStart"
  /\ startPc = "cleanup" => bus # "started"
  /\ ~ options.eventBus => bus = "stopped"
  /\ options.eventBus /\ (startPc \in {"callListen", "listen"} \/ state = "running" \/ stopPc # "idle")
       => Registered(BusHook)
  /\ options.eventBus /\ execution # "idle" => BusHook \in expected
  /\ hstate[BusHook] = "ok" => bus = "stopped"

\* What has been released when.
ShutdownMeaning ==
  /\ state = "running" \/ stopPc = "emitStopping" => socket \in {"listening", "closed"}
  /\ stopPc \in {"closing", "hooks", "resolved", "rejected"} =>
       aborted /\ ~ signalHandlers /\ socket \in {"closing", "closed"}
  /\ execution # "idle" => /\ stopPc \in {"hooks", "resolved", "rejected"}
                           /\ timedOut \/ \A c \in Conn : conns[c] = "none"
  /\ stopPc = "resolved" => execution = "resolved" /\ ~ server /\ ~ address

ServerIInv ==
  /\ ServerTypeOK
  /\ IInv
  /\ WellFoundedTree(dependencyTree)
  /\ PhasesAgree
  /\ BusMeaning
  /\ ShutdownMeaning

\* The search of addHook finds no cycle in a tree that has none.
LEMMA NoFalseCycle ==
  ASSUME NEW tree \in [Module -> SUBSET Module], WellFoundedTree(tree), NEW name \in Module
  PROVE  ~ TestForCycles(tree, name)
<1> DEFINE Below(m) == {x \in Module : Reaches(tree, m, x)}
           Wrong(m, visited) == /\ visited \cap (Below(m) \cup {m}) = {}
                                /\ Dfs(tree)[<<m, visited>>]
           Bad == {m \in Module : \E visited \in SUBSET Module : Wrong(m, visited)}
<1>1. Bad = {}
  <2> SUFFICES ASSUME Bad # {}
               PROVE  FALSE
    OBVIOUS
  <2>1. PICK m \in Bad : tree[m] \cap Bad = {}
    BY DEF WellFoundedTree
  <2>2. PICK visited \in SUBSET Module : Wrong(m, visited)
    BY <2>1
  <2>3. PICK dep \in tree[m] : Dfs(tree)[<<dep, visited \cup {m}>>]
    BY <2>2, SearchUnfolds
  <2>4. Below(dep) \cup {dep} \subseteq Below(m)
    BY <2>1, <2>3 DEF Reaches, Closed
  <2>5. m \notin Below(m)
    BY <2>1, WellFoundedIsAcyclic
  <2>6. Wrong(dep, visited \cup {m})
    BY <2>2, <2>3, <2>4, <2>5
  <2> QED
    BY <2>1, <2>3, <2>6
<1>2. CASE TestForCycles(tree, name)
  <2>1. Wrong(name, {})
    BY <1>2, TestIsSearch
  <2> QED
    BY <1>1, <2>1
<1> QED
  BY <1>2

\* A hook that has been registered stays registered.
LEMMA RegisteredStays ==
  ASSUME TypeOK, [Next]_vars, NEW h \in Handler, Registered(h)
  PROVE  Registered(h)'
<1>1. ASSUME NEW name \in Module, NEW dependencies \in SUBSET Module, NEW g \in Handler,
             AddHook(name, dependencies, g)
      PROVE  Registered(h)'
  BY <1>1 DEF AddHook, graphVars, Registered, TypeOK
<1>2. UNCHANGED hooks => Registered(h)'
  BY DEF Registered
<1> QED
  BY <1>1, <1>2 DEF Next, vars, graphVars, ExecuteAll, Visit, RunHandlers, DependencyFailed,
                    Settling, HandlerSettles, ExecuteAllSettles

\* No hook has been called before executeAll.
LEMMA IdleIsUncalled ==
  ASSUME IInv, execution = "idle"
  PROVE  /\ \A m \in Module : launched[m] = {}
         /\ \A h \in Handler : hstate[h] = "idle"
BY DEF IInv, PhaseMeaning, StatusMeaning, OneOwner, TypeOK

LEMMA ServerIInvInit == ServerInit => ServerIInv
<1> SUFFICES ASSUME ServerInit
             PROVE  ServerIInv
  OBVIOUS
<1>1. ServerTypeOK /\ IInv /\ WellFoundedTree(dependencyTree)
  BY ServerTypeInit, HooksInit, IInvInit, TreeInit
<1>2. PhasesAgree /\ ShutdownMeaning
  BY DEF ServerInit, Init, PhasesAgree, ShutdownMeaning
<1>3. BusMeaning
  BY ServerAssumption DEF ServerInit, Init, BusMeaning
<1> QED
  BY <1>1, <1>2, <1>3 DEF ServerIInv

\* Each step keeps start(), stop() and the state together.
LEMMA PhasesStep ==
  ASSUME ServerIInv, [ServerNext]_allVars
  PROVE  PhasesAgree'
<1> USE DEF ServerIInv, PhasesAgree, lifecycleVars, transportVars, serverVars
<1>1. CASE UNCHANGED allVars \/ Start \/ Stop
  BY <1>1 DEF allVars, Start, Stop
<1>2. CASE StartStep
  <2>1. CASE StartEmitted \/ BusStarted \/ BusStartFails \/ Listening \/ StartCleanedUp
    BY <2>1 DEF StartEmitted, BusStarted, BusStartFails, Listening, StartCleanedUp
  <2>2. CASE Setup
    BY <2>2 DEF Setup, CatchStart
  <2>3. CASE CallListen
    BY <2>3 DEF CallListen, CatchStart
  <2>4. CASE ListenFails
    BY <2>4 DEF ListenFails, CatchStart
  <2>5. CASE ReadyEmitted
    BY <2>5 DEF ReadyEmitted, CatchStart
  <2> QED
    BY <1>2, <2>1, <2>2, <2>3, <2>4, <2>5 DEF StartStep
<1>3. CASE StopStep
  BY <1>3 DEF StopStep, StoppingEmitted, CloseResolves, TimerFires, CloseRejects, HooksDone,
              HooksFailed, CatchStop
<1>4. CASE UNCHANGED lifecycleVars
  BY <1>4
<1> QED
  BY <1>1, <1>2, <1>3, <1>4 DEF ServerNext, OnShutdown, HookStep, HookSettles, HooksSettle,
     BusStops, Connect, Disconnect, UserClosesTransport

LEMMA ShutdownStep ==
  ASSUME ServerIInv, [ServerNext]_allVars
  PROVE  ShutdownMeaning'
<1> USE DEF ServerIInv, ShutdownMeaning, lifecycleVars, transportVars, serverVars
<1>1. CASE UNCHANGED allVars \/ Start \/ Stop
  BY <1>1 DEF allVars, vars, Start, Stop, PhasesAgree
<1>2. CASE StartStep
  <2>0. UNCHANGED <<execution, stopPc, timedOut, conns, aborted>>
    BY <1>2 DEF StartStep, vars, StartEmitted, Setup, BusStarted, AddHook, runVars, BusStartFails,
                CallListen, Listening, ListenFails, ReadyEmitted, StartCleanedUp
  <2>1. CASE StartEmitted \/ BusStarted \/ BusStartFails \/ StartCleanedUp
    BY <2>0, <2>1 DEF StartEmitted, BusStarted, BusStartFails, StartCleanedUp
  <2>2. CASE Setup
    BY <2>0, <2>2 DEF Setup, CatchStart
  <2>3. CASE CallListen \/ Listening \/ ListenFails
    <3>1. stopPc = "idle" /\ execution = "idle"
      BY <2>3 DEF CallListen, Listening, ListenFails, PhasesAgree, ServerTypeOK, TypeOK
    <3>2. state' # "running" \/ socket' = "listening"
      BY <2>3 DEF CallListen, Listening, ListenFails, CatchStart, PhasesAgree
    <3> QED
      BY <2>0, <3>1, <3>2
  <2>4. CASE ReadyEmitted
    BY <2>0, <2>4 DEF ReadyEmitted, CatchStart
  <2> QED
    BY <1>2, <2>1, <2>2, <2>3, <2>4 DEF StartStep
<1>3. CASE StopStep
  <2>1. CASE StoppingEmitted
    BY <2>1 DEF StoppingEmitted, PhasesAgree, vars
  <2>2. CASE CloseResolves \/ TimerFires
    BY <2>2 DEF CloseResolves, TimerFires, PhasesAgree, ExecuteAll
  <2>3. CASE CloseRejects \/ HooksDone \/ HooksFailed
    BY <2>3 DEF CloseRejects, HooksDone, HooksFailed, CatchStop, vars, PhasesAgree
  <2> QED
    BY <1>3, <2>1, <2>2, <2>3 DEF StopStep
<1>4. CASE UNCHANGED serverVars /\ (execution' # execution => execution = "pending")
  BY <1>4
<1>5. CASE BusStops \/ UserClosesTransport
  BY <1>5 DEF BusStops, UserClosesTransport, vars
<1>6. ASSUME NEW c \in Conn, NEW protocol \in {"http1", "http2"}, Connect(c, protocol)
      PROVE  ShutdownMeaning'
  BY <1>6 DEF Connect, vars
<1>7. ASSUME NEW c \in Conn, Disconnect(c)
      PROVE  ShutdownMeaning'
  BY <1>7 DEF Disconnect, vars, ServerTypeOK
<1>8. ASSUME NEW name \in Module, NEW dependencies \in SUBSET Module, NEW h \in Handler,
             OnShutdown(name, dependencies, h)
      PROVE  ShutdownMeaning'
  BY <1>4, <1>8 DEF OnShutdown, AddHook, runVars
<1>9. ASSUME NEW m \in Module, HookStep(m)
      PROVE  ShutdownMeaning'
  BY <1>9 DEF HookStep, Visit, RunHandlers, DependencyFailed
<1>10. ASSUME NEW m \in Module, NEW h \in Handler, NEW outcome \in {"ok", "failed"},
              HookSettles(m, h, outcome)
       PROVE  ShutdownMeaning'
  BY <1>4, <1>10 DEF HookSettles, HandlerSettles
<1>11. CASE HooksSettle
  BY <1>4, <1>11 DEF HooksSettle, ExecuteAllSettles
<1> QED
  BY <1>1, <1>2, <1>3, <1>5, <1>6, <1>7, <1>8, <1>9, <1>10, <1>11 DEF ServerNext

\* A call of a handler never completes its promise at once.
LEMMA LaunchIsNotOk ==
  ASSUME TypeOK, NEW m \in Module, Launch(m), NEW h \in Handler, hstate'[h] = "ok"
  PROVE  hstate[h] = "ok"
BY DEF Launch, TypeOK

LEMMA BusStep ==
  ASSUME ServerIInv, [ServerNext]_allVars
  PROVE  BusMeaning'
<1> USE ServerAssumption DEF ServerIInv, lifecycleVars, transportVars, serverVars
<1>0. Registered(BusHook) => Registered(BusHook)'
  BY HooksStep, RegisteredStays DEF ServerTypeOK
<1>a. stopPc = "idle" => execution = "idle" /\ hstate[BusHook] = "idle"
  BY IdleIsUncalled DEF ShutdownMeaning
<1>1. CASE UNCHANGED allVars \/ Start \/ Stop
  BY <1>0, <1>1 DEF allVars, vars, Start, Stop, BusMeaning, PhasesAgree
<1>2. CASE StartStep
  <2>0. UNCHANGED <<options, execution, expected, hstate, stopPc>>
    BY <1>2 DEF StartStep, vars, StartEmitted, Setup, BusStarted, AddHook, runVars, BusStartFails,
                CallListen, Listening, ListenFails, ReadyEmitted, StartCleanedUp
  <2>1. CASE StartEmitted \/ Listening \/ StartCleanedUp
    BY <1>0, <1>a, <2>0, <2>1 DEF StartEmitted, Listening, StartCleanedUp, BusMeaning, PhasesAgree
  <2>2. CASE BusStarted
    <3>1. MergedTree(BusModule, {}) = dependencyTree
      BY DEF MergedTree, ServerTypeOK, TypeOK
    <3>2. ~ TestForCycles(dependencyTree, BusModule)
      BY NoFalseCycle DEF ServerTypeOK, TypeOK
    <3>3. Registered(BusHook)'
      BY <2>2, <3>1, <3>2 DEF BusStarted, AddHook, Registered, ServerTypeOK, TypeOK
    <3> QED
      BY <1>a, <2>0, <2>2, <3>3 DEF BusStarted, BusMeaning, PhasesAgree
  <2>3. CASE BusStartFails
    BY <1>0, <1>a, <2>0, <2>3 DEF BusStartFails, BusMeaning, PhasesAgree
  <2>4. CASE Setup
    BY <1>0, <1>a, <2>0, <2>4 DEF Setup, CatchStart, BusMeaning, PhasesAgree
  <2>5. CASE CallListen
    BY <1>0, <1>a, <2>0, <2>5 DEF CallListen, CatchStart, BusMeaning, PhasesAgree
  <2>6. CASE ListenFails
    BY <1>0, <1>a, <2>0, <2>6 DEF ListenFails, CatchStart, BusMeaning, PhasesAgree
  <2>7. CASE ReadyEmitted
    BY <1>0, <1>a, <2>0, <2>7 DEF ReadyEmitted, CatchStart, BusMeaning, PhasesAgree
  <2> QED
    BY <1>2, <2>1, <2>2, <2>3, <2>4, <2>5, <2>6, <2>7 DEF StartStep
<1>3. CASE StopStep
  <2>1. CASE StoppingEmitted
    BY <1>0, <2>1 DEF StoppingEmitted, BusMeaning, vars
  <2>2. CASE CloseResolves \/ TimerFires
    <3>1. BusHook \in expected' \/ ~ options.eventBus
      BY <2>2 DEF CloseResolves, TimerFires, ExecuteAll, BusMeaning, Registered
    <3> QED
      BY <1>0, <2>2, <3>1 DEF CloseResolves, TimerFires, ExecuteAll, BusMeaning
  <2>3. CASE CloseRejects \/ HooksDone \/ HooksFailed
    BY <1>0, <2>3 DEF CloseRejects, HooksDone, HooksFailed, CatchStop, vars, BusMeaning
  <2> QED
    BY <1>3, <2>1, <2>2, <2>3 DEF StopStep
<1>4. CASE UNCHANGED <<serverVars, hstate, expected>> /\ (execution' # execution => execution = "pending")
  BY <1>0, <1>4 DEF BusMeaning
<1>5. CASE BusStops \/ UserClosesTransport
  BY <1>0, <1>5 DEF BusStops, UserClosesTransport, vars, BusMeaning
<1>6. ASSUME NEW c \in Conn, NEW protocol \in {"http1", "http2"}, Connect(c, protocol)
      PROVE  BusMeaning'
  BY <1>0, <1>6 DEF Connect, vars, BusMeaning
<1>7. ASSUME NEW c \in Conn, Disconnect(c)
      PROVE  BusMeaning'
  BY <1>0, <1>7 DEF Disconnect, vars, BusMeaning
<1>8. ASSUME NEW name \in Module, NEW dependencies \in SUBSET Module, NEW h \in Handler,
             OnShutdown(name, dependencies, h)
      PROVE  BusMeaning'
  BY <1>4, <1>8 DEF OnShutdown, AddHook, runVars
<1>9. ASSUME NEW m \in Module, HookStep(m)
      PROVE  BusMeaning'
  <2>1. hstate'[BusHook] = "ok" => hstate[BusHook] = "ok"
    BY <1>9, LaunchIsNotOk DEF HookStep, Visit, RunHandlers, DependencyFailed, ServerTypeOK
  <2>2. UNCHANGED <<options, lifecycleVars, execution, expected>>
    BY <1>9 DEF HookStep, Visit, RunHandlers, DependencyFailed
  <2>3. bus' = bus \/ (bus = "started" /\ bus' = "stopping")
    BY <1>9 DEF HookStep, BusHookCalled
  <2> QED
    BY <1>0, <2>1, <2>2, <2>3 DEF BusMeaning
<1>10. ASSUME NEW m \in Module, NEW h \in Handler, NEW outcome \in {"ok", "failed"},
              HookSettles(m, h, outcome)
       PROVE  BusMeaning'
  <2>1. hstate'[BusHook] = "ok" => bus = "stopped"
    BY <1>10 DEF HookSettles, HandlerSettles, BusMeaning, ServerTypeOK, TypeOK
  <2>2. UNCHANGED <<serverVars, execution, expected>>
    BY <1>10 DEF HookSettles, HandlerSettles
  <2> QED
    BY <1>0, <2>1, <2>2 DEF BusMeaning
<1>11. CASE HooksSettle
  BY <1>4, <1>11 DEF HooksSettle, ExecuteAllSettles
<1> QED
  BY <1>1, <1>2, <1>3, <1>5, <1>6, <1>7, <1>8, <1>9, <1>10, <1>11 DEF ServerNext

LEMMA ServerIInvAlways == ServerSpec => []ServerIInv
<1>1. ServerIInv /\ [ServerNext]_allVars => ServerIInv'
  <2> SUFFICES ASSUME ServerIInv, [ServerNext]_allVars
               PROVE  ServerIInv'
    OBVIOUS
  <2>1. ServerTypeOK'
    BY ServerTypeStep DEF ServerIInv
  <2>2. IInv'
    BY HooksStep, IInvStep DEF ServerIInv
  <2>3. WellFoundedTree(dependencyTree)'
    BY HooksStep, TreeStep DEF ServerIInv, ServerTypeOK
  <2> QED
    BY <2>1, <2>2, <2>3, PhasesStep, BusStep, ShutdownStep DEF ServerIInv
<1> QED
  BY <1>1, ServerIInvInit, PTL DEF ServerSpec

-----------------------------------------------------------------------------
(* What the server promises *)

\* No hook is called before the request handlers were told to abort, connections
\* are refused, and the open ones have ended or run out of time.
THEOREM HooksComeLast == ServerSpec => []HooksAfterRequests
<1>1. ServerIInv => HooksAfterRequests
  <2> SUFFICES ASSUME ServerIInv, NEW m \in Module, launched[m] # {}
               PROVE  /\ aborted
                      /\ socket # "listening"
                      /\ timedOut \/ \A c \in Conn : conns[c] = "none"
    BY DEF HooksAfterRequests
  <2>1. execution # "idle"
    BY IdleIsUncalled DEF ServerIInv
  <2> QED
    BY <2>1 DEF ServerIInv, ShutdownMeaning
<1> QED
  BY <1>1, ServerIInvAlways, PTL

\* A start() that rejects leaves no event bus running.
THEOREM FailedStartIsClean == ServerSpec => []FailedStartStopsBus
<1>1. ServerIInv => FailedStartStopsBus
  BY DEF ServerIInv, BusMeaning, FailedStartStopsBus
<1> QED
  BY <1>1, ServerIInvAlways, PTL

\* A stop() that resolves has completed the hooks and released the event bus, the
\* socket, the transport and the signal handlers.
THEOREM StopReleases == ServerSpec => []CleanStop
<1>1. ServerIInv => CleanStop
  <2> SUFFICES ASSUME ServerIInv, stopPc = "resolved"
               PROVE  /\ ResolvedIsQuiet /\ execution = "resolved"
                      /\ bus = "stopped"
                      /\ socket \in {"closing", "closed"}
                      /\ ~ server /\ ~ address /\ ~ signalHandlers
    BY DEF CleanStop
  <2>1. execution = "resolved" /\ socket \in {"closing", "closed"}
        /\ ~ server /\ ~ address /\ ~ signalHandlers
    BY DEF ServerIInv, ShutdownMeaning
  <2>2. ResolvedIsQuiet
    BY IInvIsQuiet DEF ServerIInv
  <2>3. bus = "stopped"
    BY <2>1, <2>2 DEF ServerIInv, BusMeaning, ResolvedIsQuiet
  <2> QED
    BY <2>1, <2>2, <2>3
<1> QED
  BY <1>1, ServerIInvAlways, PTL

-----------------------------------------------------------------------------
(* The server keeps its contract: the safety part *)

\* A rejection has its origin in a hook that was called, stop() settles after
\* executeAll, and no socket listens before start() has bound it.  A server whose
\* user code behaves is stopped by stop() only, or never was running.
ContractMeaning ==
  /\ (execution = "rejected" \/ \E m \in Module : status[m] = "failed") => HookCalled
  /\ stopPc \in {"resolved", "rejected"} => execution # "pending"
  /\ socket = "listening" => startPc \in {"emitReady", "resolved", "cleanup", "rejected"}
  /\ Behaves => /\ startPc = "cleanup" => state = "starting"
                /\ stopPc \in {"emitStopping", "closing", "hooks"} => state = "stopping"

ContractIInv == ServerIInv /\ ContractMeaning

\* A hook that was called stays called, and a module that fails is one whose
\* handlers were called, or awaits one that failed.
LEMMA CalledStays ==
  ASSUME IInv, [Next]_vars
  PROVE  /\ HookCalled => HookCalled'
         /\ (\E m \in Module : status'[m] = "failed")
              => HookCalled' \/ \E m \in Module : status[m] = "failed"
<1> USE DEF HookCalled
<1>1. ASSUME UNCHANGED <<launched, status>>
      PROVE  /\ HookCalled => HookCalled'
             /\ (\E m \in Module : status'[m] = "failed")
                  => HookCalled' \/ \E m \in Module : status[m] = "failed"
  BY <1>1
<1>2. ASSUME NEW m \in Module, Visit(m) \/ RunHandlers(m) \/ DependencyFailed(m)
      PROVE  /\ HookCalled => HookCalled'
             /\ (\E n \in Module : status'[n] = "failed")
                  => HookCalled' \/ \E n \in Module : status[n] = "failed"
  <2>1. launched[m] = {}
    BY <1>2 DEF Visit, RunHandlers, DependencyFailed, IInv, TraversalComplete, StatusMeaning
  <2>2. CASE Launch(m)
    <3>1. \A n \in Module \ {m} : status'[n] = status[n] /\ launched'[n] = launched[n]
      BY <2>1, <2>2, LaunchEffect DEF IInv
    <3>2. status'[m] = "failed" => launched'[m] # {}
      BY <2>2 DEF Launch, IInv, TypeOK
    <3> QED
      BY <2>1, <3>1, <3>2
  <2>3. CASE UNCHANGED launched /\ status' = [status EXCEPT ![m] = "waiting"]
    BY <2>3 DEF IInv, TypeOK
  <2>4. CASE DependencyFailed(m)
    <3>1. PICK d \in Module : status[d] = "failed"
      BY <2>4 DEF DependencyFailed, IInv, TypeOK
    <3> QED
      BY <2>4, <3>1 DEF DependencyFailed
  <2> QED
    BY <1>2, <2>2, <2>3, <2>4 DEF Visit, RunHandlers
<1>3. ASSUME NEW m \in Module, NEW h \in Handler, NEW outcome \in {"ok", "failed"},
             HandlerSettles(m, h, outcome)
      PROVE  /\ HookCalled => HookCalled'
             /\ (\E n \in Module : status'[n] = "failed")
                  => HookCalled' \/ \E n \in Module : status[n] = "failed"
  BY <1>3 DEF HandlerSettles
<1> QED
  BY <1>1, <1>2, <1>3 DEF Next, vars, AddHook, runVars, ExecuteAll, Settling, ExecuteAllSettles

LEMMA ContractMeaningInit == ServerInit => ContractMeaning
BY DEF ServerInit, Init, ContractMeaning

LEMMA ContractMeaningStep ==
  ASSUME ContractIInv, [ServerNext]_allVars
  PROVE  ContractMeaning'
<1> USE DEF ContractIInv, ServerIInv, ContractMeaning, lifecycleVars, transportVars, serverVars
<1>0. (execution' = "rejected" \/ \E m \in Module : status'[m] = "failed") => HookCalled'
  <2>1. execution' = "rejected" => execution = "rejected" \/ \E m \in Module : status[m] = "failed"
    BY HooksStep DEF Next, vars, AddHook, runVars, ExecuteAll, Visit, RunHandlers,
       DependencyFailed, Settling, HandlerSettles, ExecuteAllSettles, AwaitedKeys
  <2> QED
    BY <2>1, CalledStays, HooksStep
<1>a. Behaves' = Behaves /\ (Behaves => ~ ListenersThrow /\ ~ TransportExposed)
  BY DEF Behaves, ListenersThrow, TransportExposed, ServerNext, allVars, Start, Stop, StartStep,
     StopStep, StartEmitted, Setup, BusStarted, BusStartFails, CallListen, Listening, ListenFails,
     ReadyEmitted, StartCleanedUp, StoppingEmitted, CloseResolves, TimerFires, CloseRejects,
     HooksDone, HooksFailed, OnShutdown, HookStep, HookSettles, HooksSettle, BusStops, Connect,
     Disconnect, UserClosesTransport
<1>1. CASE UNCHANGED allVars \/ Start \/ Stop
  BY <1>0, <1>a, <1>1 DEF allVars, vars, Start, Stop, PhasesAgree, ShutdownMeaning
<1>2. CASE StartStep
  <2>0. UNCHANGED <<execution, stopPc>>
    BY <1>2 DEF StartStep, vars, StartEmitted, Setup, BusStarted, AddHook, runVars, BusStartFails,
                CallListen, Listening, ListenFails, ReadyEmitted, StartCleanedUp
  <2>1. CASE StartEmitted \/ BusStarted \/ BusStartFails \/ Listening
    BY <1>0, <1>a, <2>0, <2>1 DEF StartEmitted, BusStarted, BusStartFails, Listening, PhasesAgree
  <2>2. CASE StartCleanedUp
    BY <1>0, <1>a, <2>0, <2>2 DEF StartCleanedUp, PhasesAgree
  <2>3. CASE Setup
    BY <1>0, <1>a, <2>0, <2>3 DEF Setup, CatchStart, PhasesAgree
  <2>4. CASE CallListen
    BY <1>0, <1>a, <2>0, <2>4 DEF CallListen, CatchStart, PhasesAgree
  <2>5. CASE ListenFails
    BY <1>0, <1>a, <2>0, <2>5 DEF ListenFails, CatchStart, PhasesAgree
  <2>6. CASE ReadyEmitted
    BY <1>0, <1>a, <2>0, <2>6 DEF ReadyEmitted, CatchStart, PhasesAgree
  <2> QED
    BY <1>2, <2>1, <2>2, <2>3, <2>4, <2>5, <2>6 DEF StartStep
<1>3. CASE StopStep
  <2>1. CASE StoppingEmitted
    BY <1>0, <1>a, <2>1 DEF StoppingEmitted, vars
  <2>2. CASE CloseResolves \/ TimerFires
    BY <1>0, <1>a, <2>2 DEF CloseResolves, TimerFires
  <2>3. CASE CloseRejects \/ HooksDone \/ HooksFailed
    BY <1>0, <1>a, <2>3 DEF CloseRejects, HooksDone, HooksFailed, CatchStop, vars, ShutdownMeaning
  <2> QED
    BY <1>3, <2>1, <2>2, <2>3 DEF StopStep
<1>4. CASE UNCHANGED <<lifecycleVars, execution>> /\ (socket' # socket => socket' = "closed")
  BY <1>0, <1>a, <1>4
<1>5. CASE HooksSettle
  BY <1>0, <1>a, <1>5 DEF HooksSettle, ExecuteAllSettles
<1>6. ASSUME NEW m \in Module, HookStep(m)
      PROVE  ContractMeaning'
  BY <1>4, <1>6 DEF HookStep, Visit, RunHandlers, DependencyFailed
<1> QED
  BY <1>1, <1>2, <1>3, <1>4, <1>5, <1>6 DEF ServerNext, OnShutdown, AddHook, runVars, HookSettles,
     HandlerSettles, BusStops, Connect, Disconnect, UserClosesTransport, vars

\* A step that leaves the mapped state alone is a stutter of the contract.
LEMMA ContractStutter ==
  ASSUME UNCHANGED <<options, state>>, (socket' = "listening") = (socket = "listening"),
         HookCalled' = HookCalled
  PROVE  UNCHANGED Contract!cvars
BY DEF Contract!cvars, Behaves

LEMMA ContractStep ==
  ASSUME ContractIInv, ContractIInv', [ServerNext]_allVars
  PROVE  [Contract!Next]_(Contract!cvars)
<1> USE DEF ContractIInv, ServerIInv, lifecycleVars, transportVars, serverVars
<1>0. CASE ~ Behaves
  <2>1. ~ Behaves'
    BY <1>0 DEF Behaves, ServerNext, allVars, Start, Stop, StartStep, StopStep, StartEmitted,
       Setup, BusStarted, BusStartFails, CallListen, Listening, ListenFails, ReadyEmitted,
       StartCleanedUp, StoppingEmitted, CloseResolves, TimerFires, CloseRejects, HooksDone,
       HooksFailed, OnShutdown, HookStep, HookSettles, HooksSettle, BusStops, Connect, Disconnect,
       UserClosesTransport
  <2> QED
    BY <1>0, <2>1 DEF Contract!cvars
<1>a. ASSUME UNCHANGED launched
      PROVE  HookCalled' = HookCalled
  BY <1>a DEF HookCalled
<1>b. ASSUME Behaves
      PROVE  ~ ListenersThrow /\ ~ TransportExposed
  BY <1>b DEF Behaves, ListenersThrow, TransportExposed
<1>1. CASE UNCHANGED allVars
  BY <1>1, <1>a, ContractStutter DEF allVars, vars
<1>2. CASE Start
  BY <1>2, <1>0, <1>a DEF Start, vars, Behaves, Contract!Next, Contract!Start
<1>3. CASE Stop
  BY <1>3, <1>0, <1>a DEF Stop, vars, Behaves, Contract!Next, Contract!BeginStop
<1>4. CASE StartStep /\ Behaves
  <2>0. UNCHANGED <<options, launched>>
    BY <1>4 DEF StartStep, vars, StartEmitted, Setup, BusStarted, AddHook, runVars, BusStartFails,
                CallListen, Listening, ListenFails, ReadyEmitted, StartCleanedUp
  <2>1. CASE UNCHANGED <<state, socket>>
    BY <2>0, <2>1, <1>a, ContractStutter
  <2>2. ASSUME state = "starting", state' \in {"starting", "stopped"}, socket # "listening", socket' # "listening"
        PROVE  [Contract!Next]_(Contract!cvars)
    BY <1>4, <2>0, <2>2, <1>a DEF Behaves, Contract!Next, Contract!Abandon, Contract!cvars
  <2>3. CASE Setup
    BY <2>2, <2>3 DEF Setup, CatchStart, PhasesAgree, ContractMeaning
  <2>4. CASE CallListen
    BY <2>2, <2>4 DEF CallListen, CatchStart, PhasesAgree, ContractMeaning
  <2>5. CASE ListenFails
    BY <2>2, <2>5 DEF ListenFails, CatchStart, PhasesAgree, ContractMeaning
  <2>6. CASE Listening
    BY <1>4, <2>0, <2>6, <1>a DEF Listening, PhasesAgree, Behaves, Contract!Next, Contract!Serve
  <2>7. CASE StartCleanedUp
    <3>1. state = "starting"
      BY <1>4, <2>7 DEF StartCleanedUp, ContractMeaning
    <3>2. UNCHANGED socket /\ state' = "stopped"
      BY <2>7 DEF StartCleanedUp
    <3> QED
      BY <1>4, <2>0, <3>1, <3>2, <1>a DEF Behaves, Contract!Next, Contract!Abandon
  <2>8. CASE ReadyEmitted
    BY <1>4, <1>b, <2>1, <2>8 DEF ReadyEmitted
  <2> QED
    BY <1>4, <1>b, <2>1, <2>3, <2>4, <2>5, <2>6, <2>7, <2>8 DEF StartStep, StartEmitted,
       BusStarted, BusStartFails
<1>5. CASE StopStep /\ Behaves
  <2>0. UNCHANGED <<options, launched>>
    BY <1>5 DEF StopStep, vars, StoppingEmitted, CloseResolves, TimerFires, ExecuteAll,
                CloseRejects, HooksDone, HooksFailed
  <2>1. CASE StoppingEmitted
    <3>1. state = "stopping" /\ state' = state /\ socket' # "listening"
      BY <1>5, <1>b, <2>1 DEF StoppingEmitted, ContractMeaning
    <3> QED
      BY <1>5, <2>0, <3>1, <1>a DEF Behaves, Contract!Next, Contract!Refuse, Contract!cvars
  <2>2. CASE CloseResolves \/ TimerFires
    BY <2>0, <2>2, <1>a, ContractStutter DEF CloseResolves, TimerFires
  <2>3. CASE CloseRejects \/ HooksDone \/ HooksFailed
    <3>1. state = "stopping" /\ state' = "stopped" /\ socket # "listening" /\ socket' = socket
      BY <1>5, <1>b, <2>3 DEF CloseRejects, HooksDone, HooksFailed, CatchStop, ContractMeaning,
         ShutdownMeaning
    <3> QED
      BY <1>5, <2>0, <3>1, <1>a DEF Behaves, Contract!Next, Contract!Finish
  <2> QED
    BY <1>5, <2>1, <2>2, <2>3 DEF StopStep
<1>6. ASSUME NEW m \in Module, HookStep(m), Behaves
      PROVE  [Contract!Next]_(Contract!cvars)
  <2>0. UNCHANGED <<options, state, socket, stopPc, execution>>
    BY <1>6 DEF HookStep, Visit, RunHandlers, DependencyFailed
  <2>1. CASE HookCalled' = HookCalled
    BY <2>0, <2>1, ContractStutter
  <2>2. CASE HookCalled' # HookCalled
    <3>1. HookCalled' /\ ~ HookCalled
      BY <2>2, HooksStep, CalledStays DEF HookCalled
    <3>2. execution = "pending"
      <4>1. m \in toVisit \/ status[m] = "waiting"
        BY <1>6 DEF HookStep, Visit, RunHandlers, DependencyFailed
      <4> QED
        BY <3>1, <4>1 DEF IInv, PhaseMeaning, TypeOK, Execution, ContractMeaning
    <3>3. stopPc = "hooks"
      BY <3>2 DEF ShutdownMeaning, ContractMeaning
    <3>4. state = "stopping" /\ socket # "listening"
      BY <1>6, <3>3 DEF ContractMeaning, ShutdownMeaning
    <3> QED
      BY <1>6, <2>0, <3>1, <3>4 DEF Behaves, Contract!Next, Contract!CallHook
  <2> QED
    BY <2>1, <2>2
<1>7. CASE UserClosesTransport /\ Behaves
  BY <1>7, <1>b DEF UserClosesTransport
<1>8. CASE UNCHANGED <<options, state, socket, launched>>
  BY <1>8, <1>a, ContractStutter
<1> QED
  BY <1>0, <1>1, <1>2, <1>3, <1>4, <1>5, <1>6, <1>7, <1>8 DEF ServerNext, OnShutdown, AddHook, runVars,
     HookSettles, HandlerSettles, HooksSettle, ExecuteAllSettles, BusStops, Connect, Disconnect, vars

\* A server whose user code behaves implements the safety part of its contract:
\* its states in order, connections accepted only while it runs, hooks only once
\* connections are refused.
THEOREM ServerKeepsContract == ServerSpec => Contract!Init /\ [][Contract!Next]_(Contract!cvars)
<1>1. ServerInit => Contract!Init
  BY DEF ServerInit, Init, Contract!Init, HookCalled
<1>2. ContractIInv /\ ContractIInv' /\ [ServerNext]_allVars => [Contract!Next]_(Contract!cvars)
  BY ContractStep
<1>3. ServerIInv /\ ContractMeaning /\ [ServerNext]_allVars => ContractMeaning'
  BY ContractMeaningStep DEF ContractIInv
<1>4. ServerIInv /\ ContractMeaning => ContractIInv
  BY DEF ContractIInv
<1> QED
  BY <1>1, <1>2, <1>3, <1>4, ContractMeaningInit, ServerIInvAlways, PTL DEF ServerSpec
=============================================================================
