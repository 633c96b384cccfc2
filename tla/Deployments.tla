----------------------------- MODULE Deployments -----------------------------
(* Which ports and log files the instances of a name get, when a name has no,    *)
(* one or several rows, is deployed twice, or is configured: the old instances   *)
(* are then being killed while the new ones start on the same ports. What        *)
(* AppController.tla leaves out; the file, the states and the crash of the       *)
(* controller are modelled there.                                                *)
(*                                                                               *)
(* A row is a record of its name and its ports. An instance is a record of its   *)
(* name, port and number; a copy number tells two equal ones apart. The program  *)
(* that is started is external: it binds its port and serves, crashes, or exits. *)
(* A failure is a fork or an exec that does not work or a child that ends by     *)
(* itself: after any of them the instance is gone and nobody is told.            *)
EXTENDS Naturals, FiniteSets

CONSTANTS
  Rows,        \* the rows of table ServerProcess: [name, first, last]
  Name,        \* names that requests come with, those of the rows among them
  NumberMod,   \* the numbers a quint8 can count: 2^8 in the code
  RetryLimit,  \* restarts of an instance: 9 in the code
  MaxServers,  \* bound on the instances at one time
  MaxCrashes,  \* bound on the crashes of instances
  MaxFailures, \* bound on the failures
  MaxRequests  \* bound on the requests

ASSUME DPAssumption ==
  /\ IsFiniteSet(Rows) /\ \A r \in Rows : r.name \in Name /\ r.first \in Nat \ {0} /\ r.last \in Nat
  /\ NumberMod \in Nat \ {0}
  /\ {RetryLimit, MaxServers, MaxCrashes, MaxFailures, MaxRequests} \subseteq Nat

VARIABLES
  servers,   \* the map fServers with the state of each instance and its child
  answer,    \* of each name: what its last request came to
  crashes, failures, requests,
  careful,   \* nobody has deployed a name that was up
  prompt     \* what kill() hit was always dead before a later child bound its port

bounded == <<crashes, failures, requests>>
seen == <<careful, prompt>>
vars == <<servers, answer, bounded, seen>>

RowsOf(n) == {r \in Rows : r.name = n}
InRow(r) == r.first .. r.last
Lives == {"forked", "serving", "crashed", "exited"}
Alive(s) == servers[s].life \in {"forked", "serving"}
InMap(n) == {s \in DOMAIN servers : s.name = n}
Wanted(n) == {s \in InMap(n) : ~servers[s].stopped}

\* QMultiMap::insert(): equal instances are told apart by a free copy number.
Copies(n, p, i) == {t.copy : t \in {u \in DOMAIN servers : u.name = n /\ u.port = p /\ u.number = i}}
Copy(n, p, i) == CHOOSE c \in 0 .. MaxServers : c \notin Copies(n, p, i)

\* Mutant: the last port gets no instance.
PortsButLast(r) == {p \in InRow(r) : p < r.last}
\* startServerInstances(): an instance on each port of the row, numbered from 0 by
\* a quint8.
NumberOf(first, p) == (p - first) % NumberMod
PortsOf(r) == InRow(r)

Instances(r) == {[name |-> r.name, port |-> p, number |-> NumberOf(r.first, p),
                  copy |-> Copy(r.name, p, NumberOf(r.first, p))] : p \in PortsOf(r)}
Born == [life |-> "forked", stopped |-> FALSE, retries |-> 0]

\* Mutant: the loop over the map ends at the first instance of the name.
StoppedOne(n) ==
  LET one == IF Wanted(n) = {} THEN {} ELSE {CHOOSE s \in Wanted(n) : TRUE}
  IN  [s \in DOMAIN servers |-> IF s \in one THEN [servers[s] EXCEPT !.stopped = TRUE] ELSE servers[s]]
\* takedownServer(): every instance of the name is stopped, the children get SIGKILL.
Stopped(n) ==
  [s \in DOMAIN servers |-> IF s.name = n THEN [servers[s] EXCEPT !.stopped = TRUE] ELSE servers[s]]

\* start() may find that it cannot fork: errorOccurred() and processDead() come before
\* it returns, and their receiver takes the instance off the map again. S are those
\* that stay; the request does not learn of the others.
Forks(all, S) ==
  /\ S \subseteq all /\ failures' = failures + Cardinality(all \ S) /\ failures' <= MaxFailures

With(map, S) == [s \in DOMAIN map \cup S |-> IF s \in DOMAIN map THEN map[s] ELSE Born]

\* deployServer() reads one row of those the SELECT may return first, and without
\* any takes port 0 .. 0 from an empty answer.
NoRow(n) == [name |-> n, first |-> 0, last |-> 0]
FirstRows(n) == IF RowsOf(n) = {} THEN {NoRow(n)} ELSE RowsOf(n)

HasRoom(S) == Cardinality(DOMAIN servers) + Cardinality(S) <= MaxServers

------------------------------------------------------------------------------
\* startupAllServers() of a new controller starts every row, or nothing.
DPInit ==
  /\ crashes = 0 /\ requests = 0 /\ careful = TRUE /\ prompt = TRUE
  /\ answer = [n \in Name |-> "none"]
  /\ \E read \in {{}, Rows} :
       LET all == UNION {{[name |-> r.name, port |-> p, number |-> NumberOf(r.first, p), copy |-> r.last]
                          : p \in PortsOf(r)} : r \in read}
       IN  \E S \in SUBSET all :
             /\ failures = Cardinality(all \ S) /\ failures <= MaxFailures
             /\ servers = [s \in S |-> Born]

Asked(n, a) ==
  /\ requests < MaxRequests /\ requests' = requests + 1
  /\ answer' = [answer EXCEPT ![n] = a]
  /\ UNCHANGED <<crashes, prompt>>

\* deployServer() with the map as the caller left it, when the row could be read.
Starts(n, map) ==
  \E r \in FirstRows(n) : HasRoom(Instances(r)) /\ \E S \in SUBSET Instances(r) :
    Forks(Instances(r), S) /\ servers' = With(map, S)

\* The database answers a request, or is away.
Deploy(n) ==
  /\ careful' = (careful /\ Wanted(n) = {})
  /\ \/ Starts(n, servers) /\ Asked(n, "deployed")
     \/ UNCHANGED <<servers, failures>> /\ Asked(n, "failed")

Takedown(n) == servers' = Stopped(n) /\ Asked(n, "down") /\ UNCHANGED <<failures, careful>>

\* newConfiguredServer(): whether or not the row can be read, the old ones go.
Configure(n) ==
  /\ UNCHANGED careful
  /\ \/ Starts(n, Stopped(n)) /\ Asked(n, "configured")
     \/ servers' = Stopped(n) /\ UNCHANGED failures /\ Asked(n, "failed")

------------------------------------------------------------------------------
\* Children and host. Port 0 stands for any free one.
Becomes(s, l) == servers' = [servers EXCEPT ![s].life = l]
Taken(s) == s.port # 0 /\ \E t \in DOMAIN servers : t.port = s.port /\ servers[t].life = "serving"
BeingKilled(s) == servers[s].stopped /\ Alive(s)

Bind(s) ==
  /\ servers[s].life = "forked"
  /\ prompt' = (prompt /\ \A t \in DOMAIN servers : BeingKilled(t) => t.port # s.port)
  /\ Becomes(s, IF Taken(s) THEN "exited" ELSE "serving")
  /\ UNCHANGED <<answer, bounded, careful>>

Killed(s) == BeingKilled(s) /\ Becomes(s, "crashed") /\ UNCHANGED <<answer, bounded, seen>>

Crash(s) ==
  /\ Alive(s) /\ crashes < MaxCrashes /\ crashes' = crashes + 1
  /\ Becomes(s, "crashed")
  /\ UNCHANGED <<answer, failures, requests, seen>>

Fails == failures < MaxFailures /\ failures' = failures + 1

\* An exec that fails, or a program that ends by itself.
Exit(s) ==
  /\ Alive(s) /\ Fails /\ Becomes(s, "exited")
  /\ UNCHANGED <<answer, crashes, requests, seen>>

\* Mutant: processFinished() does not look at fSelf_Terminate.
GivesUpUnasked(s) == servers[s].life = "exited" \/ servers[s].retries = RetryLimit

\* finished(): a crash nobody asked for is answered with another child on the same
\* port, if there can be one; any other end, and a crash too many, takes the instance
\* off the map.
GivesUp(s) == servers[s].life = "exited" \/ servers[s].stopped \/ servers[s].retries = RetryLimit

Dropped(s) == servers' = [t \in DOMAIN servers \ {s} |-> servers[t]]
ProcessFinished(s) ==
  /\ ~Alive(s)
  /\ \/ GivesUp(s) /\ Dropped(s) /\ UNCHANGED failures
     \/ ~GivesUp(s) /\ servers' = [servers EXCEPT ![s].life = "forked", ![s].retries = @ + 1] /\ UNCHANGED failures
     \/ ~GivesUp(s) /\ Dropped(s) /\ Fails
  /\ UNCHANGED <<answer, crashes, requests, seen>>

Child(s) == Bind(s) \/ Killed(s) \/ ProcessFinished(s)
DPNext ==
  \/ \E n \in Name : Deploy(n) \/ Takedown(n) \/ Configure(n)
  \/ \E s \in DOMAIN servers : Child(s) \/ Crash(s) \/ Exit(s)
DPSpec == DPInit /\ [][DPNext]_vars

\* Children run, signals arrive, the event loop goes on.
DPFairSpec == DPSpec /\ WF_vars(\E s \in DOMAIN servers : Child(s))

------------------------------------------------------------------------------
\* The map is finite and each instance in a state it can have.
State == [life : Lives, stopped : BOOLEAN, retries : 0 .. RetryLimit]
Answers == {"none", "deployed", "configured", "down", "failed"}

DPTypeOK ==
  /\ IsFiniteSet(DOMAIN servers) /\ servers \in [DOMAIN servers -> State]
  /\ answer \in [Name -> Answers]
  /\ crashes \in 0 .. MaxCrashes /\ failures \in 0 .. MaxFailures /\ requests \in 0 .. MaxRequests
  /\ {careful, prompt} \subseteq BOOLEAN

SingleRow(n) == \A q, r \in RowsOf(n) : q = r

\* While nobody deploys a name that is up, two instances of a name with one row are
\* never both to stay on one port, nor with the same log files, unless their ports are
\* as far apart as a quint8 can count: all but one are stopped, through every order of
\* requests, crashes, failures, restarts and late deaths.
FarApart(p, q) == p + NumberMod <= q \/ q + NumberMod <= p
Apart(s, t) == s.port # t.port /\ (s.number = t.number => FarApart(s.port, t.port))
OwnLogFiles ==
  careful => \A n \in Name : SingleRow(n) => \A s, t \in Wanted(n) : s # t => Apart(s, t)

\* A CONFIGURE of a name with rows that is answered with success leaves one instance on
\* every port of one of its rows but those whose fork has failed in between, and no
\* other that is to stay, whatever was deployed before, how often, and what of it has
\* crashed. (Of a name with several rows the others are gone.)
OnPorts(S) == {s.port : s \in S}
ConfiguredIsOneRow ==
  [][\A n \in Name : Configure(n) /\ answer'[n] = "configured" /\ RowsOf(n) # {} =>
       \E r \in RowsOf(n) :
         /\ OnPorts(Wanted(n)') \subseteq InRow(r)
         /\ Cardinality(Wanted(n)') = Cardinality(OnPorts(Wanted(n)'))
         /\ Cardinality(InRow(r) \ OnPorts(Wanted(n)')) = failures' - failures]_vars

\* An instance that was stopped is on its way out: it gets no other child.
StoppedGetNoChild ==
  [][\A s \in DOMAIN servers \cap DOMAIN servers' :
       servers[s].stopped => servers'[s].stopped /\ (~Alive(s) => ~Alive(s)')]_vars

\* Where kills are prompt, a request for a name with rows that is answered with success
\* brings up the ports of a row but at most one for every failure so far, unless it is
\* followed by another request or an instance crashes more often than it is restarted.
Down(n, r) == {p \in InRow(r) : \A s \in InMap(n) : s.port = p => servers[s].life # "serving"}
Up(n) == \E r \in RowsOf(n) : Cardinality(Down(n, r)) <= failures
Answered(n) == answer[n] \in {"deployed", "configured"} /\ RowsOf(n) # {}
ComesUp ==
  MaxCrashes <= RetryLimit => \A n \in Name : (Answered(n) /\ prompt) ~> (Up(n) \/ ~Answered(n) \/ ~prompt)

\* Every name that is taken down goes away, killed promptly or not.
GoesAway == \A n \in Name : answer[n] = "down" ~> (InMap(n) = {} \/ answer[n] # "down")

\* What the map shows of its instances is a supervisor of those it holds.
Instance == [name : Name, port : Nat, number : Nat, copy : Nat]
Stopping == {s \in DOMAIN servers : servers[s].stopped}
Living == {s \in DOMAIN servers : Alive(s)}
Left == [s \in DOMAIN servers |-> RetryLimit - servers[s].retries]

Abstract == INSTANCE Supervision WITH
  Object <- Instance, served <- DOMAIN servers, stopping <- Stopping, alive <- Living, left <- Left

\* Whatever is deployed, taken down and configured in whatever order: an instance is
\* launched once, again only when its child is dead, as often as allowed and not after
\* a stop, and it leaves the map only with its child dead.
ImplementsSupervision == Abstract!Spec

==============================================================================
