-------------------------- MODULE ShutdownManager --------------------------
(***************************************************************************)
(* The shutdown hooks of a server: packages/core/src/ShutdownManager.ts.   *)
(*                                                                         *)
(* A module is a name under which handlers are registered; an anonymous    *)
(* hook is a handler under a name of its own without dependencies.  A      *)
(* handler is one registration: a function passed to addHook twice is two  *)
(* handlers.                                                               *)
(*                                                                         *)
(* executeAll runs synchronously until the whole dependency tree has been  *)
(* visited (Visit), calling the handlers of modules without dependencies   *)
(* on the way; the rest happens in promise continuations.  Registering a   *)
(* hook stays possible at any time, also from a handler that is running.   *)
(***************************************************************************)
EXTENDS Naturals, FiniteSets

CONSTANTS Module,   \* the names hooks are registered under
          Handler   \* the registrations

VARIABLES
  dependencyTree, \* dependencyTree[m]: the names m depends on
  hooks,          \* hooks[m]: the handlers registered under m
  toVisit,        \* the names executeAll's synchronous traversal has yet to visit
  awaited,        \* awaited[m]: the dependencies m's promise read when it was created
  status,         \* status[m]: m's entry of _pendingPromises ("idle": none)
  launched,       \* launched[m]: the handlers of m that were called
  hstate,         \* hstate[h]: the promise returned by handler h
  execution,      \* the promise returned by executeAll
  expected        \* history: the handlers registered when executeAll was called

graphVars == <<dependencyTree, hooks>>
runVars == <<toVisit, awaited, status, launched, hstate, execution, expected>>
vars == <<dependencyTree, hooks, toVisit, awaited, status, launched, hstate,
          execution, expected>>

Status == {"idle", "waiting", "running", "done", "failed"}
HandlerState == {"idle", "running", "ok", "failed"}
Execution == {"idle", "pending", "resolved", "rejected"}

TypeOK ==
  /\ dependencyTree \in [Module -> SUBSET Module]
  /\ hooks \in [Module -> SUBSET Handler]
  /\ toVisit \in SUBSET Module
  /\ awaited \in [Module -> SUBSET Module]
  /\ status \in [Module -> Status]
  /\ launched \in [Module -> SUBSET Handler]
  /\ hstate \in [Handler -> HandlerState]
  /\ execution \in Execution
  /\ expected \in SUBSET Handler

Init ==
  /\ dependencyTree = [m \in Module |-> {}]
  /\ hooks = [m \in Module |-> {}]
  /\ toVisit = {}
  /\ awaited = [m \in Module |-> {}]
  /\ status = [m \in Module |-> "idle"]
  /\ launched = [m \in Module |-> {}]
  /\ hstate = [h \in Handler |-> "idle"]
  /\ execution = "idle"
  /\ expected = {}

-----------------------------------------------------------------------------
(* Registration *)

\* Variation: only the direct dependencies of the new name are searched.
TestForDirectCycle(tree, name) == name \in tree[name]

\* _testForCycles: depth-first search from name, with the set of names on the
\* current path copied for every branch: dfs[<<n, visited>>] is the recursive
\* call for n.
TestForCycles(tree, name) ==
  LET dfs[call \in Module \X SUBSET Module] ==
        \/ call[1] \in call[2]
        \/ \E dep \in tree[call[1]] : dfs[<<dep, call[2] \cup {call[1]}>>]
  IN dfs[<<name, {}>>]

MergedTree(name, dependencies) ==
  [dependencyTree EXCEPT ![name] = @ \cup dependencies]

Registered(h) == \E m \in Module : h \in hooks[m]

\* Between executeAll's call and the end of its traversal only the handlers it
\* has called itself can be executing.
CallerCanRun == toVisit = {} \/ \E h \in Handler : hstate[h] = "running"

\* Variation: the rollback of a rejected registration is missing.
AddHookNoRollback(name, dependencies, h) ==
  /\ CallerCanRun
  /\ ~ Registered(h)
  /\ dependencyTree' = MergedTree(name, dependencies)
  /\ hooks' = IF TestForCycles(MergedTree(name, dependencies), name)
              THEN hooks ELSE [hooks EXCEPT ![name] = @ \cup {h}]
  /\ UNCHANGED runVars

\* addHook: the merged dependencies are kept, and the handler registered, only
\* if no cycle results; otherwise the dependencies are rolled back and the call
\* throws.
AddHook(name, dependencies, h) ==
  /\ CallerCanRun
  /\ ~ Registered(h)
  /\ IF TestForCycles(MergedTree(name, dependencies), name)
     THEN UNCHANGED graphVars
     ELSE /\ dependencyTree' = MergedTree(name, dependencies)
          /\ hooks' = [hooks EXCEPT ![name] = @ \cup {h}]
  /\ UNCHANGED runVars

-----------------------------------------------------------------------------
(* Execution *)

Keys == {m \in Module : hooks[m] # {}}

\* executeAll up to the traversal: nothing to do without hooks, else the
\* pending promises are cleared and every registered name is to be visited.
\* The server calls it once (Server.stop runs at most once).
ExecuteAll ==
  /\ execution = "idle"
  /\ execution' = IF Keys = {} THEN "resolved" ELSE "pending"
  /\ toVisit' = Keys
  /\ expected' = UNION {hooks[m] : m \in Module}
  /\ UNCHANGED <<graphVars, awaited, status, launched, hstate>>

\* moduleHandlers.map(f => f()): all handlers of m are called, or one of them
\* throws synchronously and the ones not yet called never are.
Launch(m) ==
  \/ /\ hooks[m] = {}
     /\ status' = [status EXCEPT ![m] = "done"]
     /\ UNCHANGED <<launched, hstate>>
  \/ /\ hooks[m] # {}
     /\ status' = [status EXCEPT ![m] = "running"]
     /\ launched' = [launched EXCEPT ![m] = hooks[m]]
     /\ hstate' = [h \in Handler |-> IF h \in hooks[m] THEN "running" ELSE hstate[h]]
  \/ \E thrower \in hooks[m] : \E before \in SUBSET (hooks[m] \ {thrower}) :
       /\ status' = [status EXCEPT ![m] = "failed"]
       /\ launched' = [launched EXCEPT ![m] = before \cup {thrower}]
       /\ hstate' = [h \in Handler |-> IF h = thrower THEN "failed"
                                       ELSE IF h \in before THEN "running"
                                       ELSE hstate[h]]

Unvisited == {m \in Module : status[m] = "idle"}

\* The synchronous part of _executeModule for a name that has no promise yet:
\* its dependencies are read and visited; without any, its handlers are called.
Visit(m) ==
  /\ m \in toVisit
  /\ awaited' = [awaited EXCEPT ![m] = dependencyTree[m]]
  /\ toVisit' = (toVisit \cup dependencyTree[m]) \cap (Unvisited \ {m})
  /\ \/ /\ dependencyTree[m] = {}
        /\ Launch(m)
     \/ /\ dependencyTree[m] # {}
        /\ status' = [status EXCEPT ![m] = "waiting"]
        /\ UNCHANGED <<launched, hstate>>
  /\ UNCHANGED <<graphVars, execution, expected>>

\* Variation: Promise.any in place of Promise.all over the dependencies.
RunHandlersAfterAny(m) ==
  /\ toVisit = {}
  /\ status[m] = "waiting"
  /\ \E d \in awaited[m] : status[d] = "done"
  /\ Launch(m)
  /\ UNCHANGED <<graphVars, toVisit, awaited, execution, expected>>

\* Variation: no handler is called once executeAll has rejected.
RunHandlersWhilePending(m) ==
  /\ execution = "pending"
  /\ toVisit = {}
  /\ status[m] = "waiting"
  /\ \A d \in awaited[m] : status[d] = "done"
  /\ Launch(m)
  /\ UNCHANGED <<graphVars, toVisit, awaited, execution, expected>>

\* The dependencies' promises have all resolved: call m's handlers.
RunHandlers(m) ==
  /\ toVisit = {}
  /\ status[m] = "waiting"
  /\ \A d \in awaited[m] : status[d] = "done"
  /\ Launch(m)
  /\ UNCHANGED <<graphVars, toVisit, awaited, execution, expected>>

\* A dependency's promise has rejected: m rejects without calling its handlers.
DependencyFailed(m) ==
  /\ toVisit = {}
  /\ status[m] = "waiting"
  /\ \E d \in awaited[m] : status[d] = "failed"
  /\ status' = [status EXCEPT ![m] = "failed"]
  /\ UNCHANGED <<graphVars, toVisit, awaited, launched, hstate, execution, expected>>

\* Variation: Promise.race over m's handlers.
HandlerSettlesFirst(m, h, outcome) ==
  /\ h \in launched[m]
  /\ hstate[h] = "running"
  /\ hstate' = [hstate EXCEPT ![h] = outcome]
  /\ status' = [status EXCEPT ![m] =
                  IF @ # "running" THEN @ ELSE IF outcome = "ok" THEN "done" ELSE "failed"]
  /\ UNCHANGED <<graphVars, toVisit, awaited, launched, execution, expected>>

\* The promise of a handler of m settles; Promise.all over m's handlers rejects
\* with the first failure and resolves with the last success.
HandlerSettles(m, h, outcome) ==
  /\ h \in launched[m]
  /\ hstate[h] = "running"
  /\ hstate' = [hstate EXCEPT ![h] = outcome]
  /\ status' = [status EXCEPT ![m] =
                  IF @ # "running" THEN @
                  ELSE IF outcome = "failed" THEN "failed"
                  ELSE IF \A g \in launched[m] \ {h} : hstate[g] = "ok" THEN "done"
                  ELSE @]
  /\ UNCHANGED <<graphVars, toVisit, awaited, launched, execution, expected>>

\* Promise.all over the names registered when executeAll was called.
AwaitedKeys == {m \in Module : hooks[m] \cap expected # {}}

ExecuteAllSettles ==
  /\ execution = "pending"
  /\ toVisit = {}
  /\ \/ /\ \A m \in AwaitedKeys : status[m] = "done"
        /\ execution' = "resolved"
     \/ /\ \E m \in AwaitedKeys : status[m] = "failed"
        /\ execution' = "rejected"
  /\ UNCHANGED <<graphVars, toVisit, awaited, status, launched, hstate, expected>>

-----------------------------------------------------------------------------
Settling ==
  \E m \in Module, h \in Handler, outcome \in {"ok", "failed"} :
    HandlerSettles(m, h, outcome)

Next ==
  \/ \E name \in Module, dependencies \in SUBSET Module, h \in Handler :
       AddHook(name, dependencies, h)
  \/ ExecuteAll
  \/ \E m \in Module : Visit(m) \/ RunHandlers(m) \/ DependencyFailed(m)
  \/ Settling
  \/ ExecuteAllSettles

Spec == Init /\ [][Next]_vars

\* The event loop runs every promise continuation that is due, and every
\* handler's promise settles ("hooks should be fast", gracefulShutdown.ts).
Fairness ==
  /\ \A m \in Module : /\ WF_vars(Visit(m))
                       /\ WF_vars(RunHandlers(m))
                       /\ WF_vars(DependencyFailed(m))
  /\ \A m \in Module, h \in Handler :
       WF_vars(\E outcome \in {"ok", "failed"} : HandlerSettles(m, h, outcome))
  /\ WF_vars(ExecuteAllSettles)

FairSpec == Spec /\ Fairness

-----------------------------------------------------------------------------
(* Properties *)

\* A set of names is closed under a dependency relation, and the names a
\* module reaches through it.
Closed(tree, S) == \A m \in S : tree[m] \subseteq S

Reaches(tree, m, d) ==
  \A S \in SUBSET Module : tree[m] \subseteq S /\ Closed(tree, S) => d \in S

\* No sequence of addHook calls, accepted or rejected, before or during
\* executeAll, leaves a dependency cycle in _dependencyTree: _executeModule
\* recurses along it without a bound of its own.
AcyclicTree == \A m \in Module : ~ Reaches(dependencyTree, m, m)

\* A handler is called only after every handler that was registered, when
\* executeAll was called, under a direct or indirect dependency of its module
\* has completed successfully: "database" hooks run before "server" hooks.
DependencyOrder ==
  \A m \in Module, d \in Module :
    launched[m] # {} /\ Reaches(awaited, m, d)
      => \A h \in hooks[d] \cap expected : hstate[h] = "ok"

\* When executeAll's promise resolves, every hook registered at the call has
\* completed successfully and no handler at all is still executing, so that the
\* caller may release what the hooks use (gracefulShutdown disposes the
\* transport next).
ResolvedIsQuiet ==
  execution = "resolved" =>
    /\ \A h \in expected : hstate[h] = "ok"
    /\ \A h \in Handler : hstate[h] # "running"

\* executeAll settles once the handlers do: no module waits for a promise that
\* nobody will resolve.
ExecuteAllTerminates == execution = "pending" ~> execution \in {"resolved", "rejected"}

\* A failure does not stop unrelated hooks: every hook registered at the call
\* either completes, or it or a handler beside or below it has failed, even
\* though executeAll's promise rejects at the first failure.
FailureIsContained ==
  \A h \in Handler :
    h \in expected ~>
      \/ hstate[h] \in {"ok", "failed"}
      \/ \E m, d \in Module :
           /\ h \in hooks[m]
           /\ d = m \/ Reaches(awaited, m, d)
           /\ \E g \in launched[d] : hstate[g] = "failed"

-----------------------------------------------------------------------------
(* The inductive invariant behind DependencyOrder and ResolvedIsQuiet *)

\* A handler is registered under one name, and runs only as one of its handlers.
OneOwner ==
  /\ \A m, n \in Module : hooks[m] \cap hooks[n] # {} => m = n
  /\ \A m \in Module : launched[m] \subseteq hooks[m]
  /\ \A h \in Handler : hstate[h] # "idle" => \E m \in Module : h \in launched[m]
  /\ \A h \in expected : Registered(h)

\* What the status of a module's promise says about its handlers and about the
\* promises it awaits.
StatusMeaning ==
  \A m \in Module :
    /\ status[m] \in {"idle", "waiting"} => launched[m] = {}
    /\ status[m] = "idle" => awaited[m] = {}
    /\ status[m] \in {"running", "done"} => hooks[m] \cap expected \subseteq launched[m]
    /\ status[m] = "done" => \A h \in launched[m] : hstate[h] = "ok"
    /\ status[m] \in {"running", "done"} \/ launched[m] # {}
         => \A d \in awaited[m] : status[d] = "done"

\* The traversal misses nothing: what it has visited is closed under awaited
\* up to what is still to be visited, and all of it was reached from the names
\* registered at the call.
TraversalComplete ==
  /\ \A m \in Module : m \in toVisit => status[m] = "idle"
  /\ \A m \in AwaitedKeys : status[m] = "idle" => m \in toVisit
  /\ \A S \in SUBSET Module :
       AwaitedKeys \subseteq S /\ Closed(awaited, S)
         => \A m \in Module : status[m] # "idle" \/ m \in toVisit => m \in S

\* The phases of executeAll.
PhaseMeaning ==
  /\ execution = "idle" =>
       expected = {} /\ toVisit = {} /\ \A m \in Module : status[m] = "idle"
  /\ execution = "resolved" =>
       toVisit = {} /\ \A m \in Module : status[m] \in {"idle", "done"}
  /\ execution = "resolved" => \A m \in AwaitedKeys : status[m] = "done"

IInv == TypeOK /\ OneOwner /\ StatusMeaning /\ TraversalComplete /\ PhaseMeaning
=============================================================================
