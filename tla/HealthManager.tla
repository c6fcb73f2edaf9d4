--------------------------- MODULE HealthManager ----------------------------
(***************************************************************************)
(* packages/healthcheck: the registry of HealthcheckManager, shared by the *)
(* application (components, statuses), the Healthcheck protocol of every   *)
(* server of the process (services) and the endpoints that read it: Check, *)
(* List, Watch and HTTP.                                                   *)
(***************************************************************************)
EXTENDS Naturals, FiniteSets

CONSTANTS
  Name,       \* names of services and components
  Dotted,     \* the names with a dot, which no component may have
  Servers,    \* the sets of services the servers of the process are started with
  Watcher,    \* the Watch streams there may be
  Overall,    \* the empty name: all of them
  Absent      \* a value that is not set

ASSUME NameAssumption == Dotted \subseteq Name /\ Overall \notin Name /\ Servers \subseteq SUBSET Name

ServingStatus == {"UNKNOWN", "SERVING", "NOT_SERVING"}
Kind == {"component", "service"}

ASSUME AbsentAssumption ==
  Absent \notin ServingStatus \cup [status : ServingStatus, kind : Kind]

VARIABLES
  entries,  \* entries[n]: a status and a kind, or Absent
  watch,    \* watch[w]: the name the stream watches and the status it last sent
  told      \* history: told[n]: what was last said of n by whoever it belongs to

healthVars == <<entries, watch, told>>

Entry(status, kind) == [status |-> status, kind |-> kind]
Registered == {n \in Name : entries[n] # Absent}
NoWatch == [name |-> Absent, sent |-> Absent]

HealthTypeOK ==
  /\ entries \in [Name -> [status : ServingStatus, kind : Kind] \cup {Absent}]
  /\ told \in [Name -> ServingStatus \cup {Absent}]

HealthInit ==
  /\ entries = [n \in Name |-> Absent]
  /\ watch = [w \in Watcher |-> NoWatch]
  /\ told = [n \in Name |-> Absent]

-----------------------------------------------------------------------------
(* The registry *)

UpdateAll(status) ==
  /\ entries' = [n \in Name |-> IF n \in Registered THEN Entry(status, entries[n].kind) ELSE Absent]
  /\ told' = [n \in Name |-> IF told[n] = Absent THEN Absent ELSE status]
  /\ UNCHANGED watch

\* An unknown name is an error, and changes nothing.
Update(status, n) ==
  /\ n \in Registered
  /\ entries' = [entries EXCEPT ![n] = Entry(status, @.kind)]
  /\ told' = [told EXCEPT ![n] = status]
  /\ UNCHANGED watch

AssertValidComponentName(n) == n \notin Dotted

\* May n be, or become, a component?
Component(n) == AssertValidComponentName(n) /\ (n \in Registered => entries[n].kind = "component")

\* A component that is registered already keeps its status.
Register(n, initialStatus) ==
  /\ Component(n) /\ n \notin Registered
  /\ entries' = [entries EXCEPT ![n] = Entry(initialStatus, "component")]
  /\ told' = [told EXCEPT ![n] = initialStatus]
  /\ UNCHANGED watch

Set(n, status) ==
  /\ Component(n)
  /\ entries' = [entries EXCEPT ![n] = Entry(status, "component")]
  /\ told' = [told EXCEPT ![n] = status]
  /\ UNCHANGED watch

Unregister(n) ==
  /\ n \in Registered /\ entries[n].kind = "component"
  /\ entries' = [entries EXCEPT ![n] = Absent]
  /\ told' = [told EXCEPT ![n] = Absent]
  /\ UNCHANGED watch

Clear ==
  /\ entries' = [n \in Name |-> Absent]
  /\ told' = [n \in Name |-> Absent]
  /\ UNCHANGED watch

\* Variation: whatever the server does not have goes, components included.
InitializedAnew(n, serviceNames) ==
  IF n \in serviceNames THEN (IF n \in Registered THEN entries[n] ELSE Entry("UNKNOWN", "service"))
  ELSE Absent

\* The entry of n once a server has been started with these services.
Initialized(n, serviceNames) ==
  IF n \in Registered
  THEN IF entries[n].kind = "service" /\ n \notin serviceNames THEN Absent ELSE entries[n]
  ELSE IF n \in serviceNames THEN Entry("UNKNOWN", "service") ELSE Absent

\* A server starts: the protocol takes over the services.  What the application has
\* named stays the application's.
Initialize(serviceNames) ==
  LET applications == {n \in Registered : entries[n].kind = "component"} IN
  /\ entries' = [n \in Name |-> Initialized(n, serviceNames)]
  /\ told' = [n \in Name |-> IF n \in applications THEN told[n]
                             ELSE IF n \notin serviceNames THEN Absent
                             ELSE IF told[n] = Absent THEN "UNKNOWN" ELSE told[n]]
  /\ UNCHANGED watch

-----------------------------------------------------------------------------
(* The endpoints *)

AreAllHealthy == Registered # {} /\ \A n \in Registered : entries[n].status = "SERVING"

ResolveServiceStatus(n) ==
  IF n = Overall THEN IF AreAllHealthy THEN "SERVING" ELSE "NOT_SERVING"
  ELSE IF n \in Registered THEN entries[n].status ELSE "SERVICE_UNKNOWN"

Check(n) == IF ResolveServiceStatus(n) = "SERVICE_UNKNOWN" THEN "not_found" ELSE ResolveServiceStatus(n)
List == [n \in Registered |-> entries[n].status]

HttpStatus(n) ==
  LET status == ResolveServiceStatus(n) IN
  CASE status = "SERVING" -> 200 [] status = "SERVICE_UNKNOWN" -> 404 [] OTHER -> 503

\* Watch sends the status at once,
Watch(w, n) ==
  /\ watch[w] = NoWatch
  /\ watch' = [watch EXCEPT ![w] = [name |-> n, sent |-> ResolveServiceStatus(n)]]
  /\ UNCHANGED <<entries, told>>

\* Variation: a service that is gone is not reported.
Changed(sent, status) == status \notin {sent, "SERVICE_UNKNOWN"}

\* and, at every interval, when it is another one.
Sends(sent, status) == status # sent

Poll(w) ==
  LET status == ResolveServiceStatus(watch[w].name) IN
  /\ watch[w] # NoWatch /\ Sends(watch[w].sent, status)
  /\ watch' = [watch EXCEPT ![w].sent = status]
  /\ UNCHANGED <<entries, told>>

Disconnect(w) ==
  /\ watch[w] # NoWatch
  /\ watch' = [watch EXCEPT ![w] = NoWatch]
  /\ UNCHANGED <<entries, told>>

-----------------------------------------------------------------------------
HealthNext ==
  \/ \E status \in ServingStatus :
       \/ UpdateAll(status)
       \/ \E n \in Name : Update(status, n) \/ Register(n, status) \/ Set(n, status)
  \/ \E n \in Name : Unregister(n)
  \/ \E serviceNames \in Servers : Initialize(serviceNames)
  \/ Clear
  \/ \E w \in Watcher : Poll(w) \/ Disconnect(w) \/ \E n \in Name \cup {Overall} : Watch(w, n)

\* The timer of a stream runs for as long as its client is there.
HealthSpec == HealthInit /\ [][HealthNext]_healthVars /\ \A w \in Watcher : WF_healthVars(Poll(w))

-----------------------------------------------------------------------------
(* Properties *)

\* No endpoint says SERVING of what its owner has not said so, and all of it is
\* SERVING only if everything that was registered is: a component stays a gate
\* across the starts of servers, and a service that a server no longer has is none.
ServingIsTrue ==
  /\ \A n \in Name : Check(n) = "SERVING" \/ HttpStatus(n) = 200 => told[n] = "SERVING"
  /\ \A n \in DOMAIN List : told[n] = List[n]
  /\ HttpStatus(Overall) = 200 =>
       /\ \E n \in Name : told[n] # Absent
       /\ \A n \in Name : told[n] \in {Absent, "SERVING"}

\* A Watch stream catches up with the registry, again and again, also with a name
\* that is removed or appears later.
WatchersLearn ==
  \A w \in Watcher : []<>(watch[w] = NoWatch \/ watch[w].sent = ResolveServiceStatus(watch[w].name))
=============================================================================
