--------------------------- MODULE AppController ---------------------------
(***************************************************************************)
(* src/src/AppController.cpp: the one object that owns every ServerProcess *)
(* object, answers DEPLOY, TAKEDOWN and CONFIGURE, and keeps two records   *)
(* of what runs: the file running-servers.log, which a later controller    *)
(* reads to kill what an earlier one left behind, and the column           *)
(* server_state of the database.                                           *)
(*                                                                         *)
(* startServerInstances() forks children from a loop inside one handler.   *)
(* No other handler runs during the loop, but children, database and a     *)
(* crash of the controller can come between any two of its steps, so each  *)
(* round of the loop is two actions: Spawn, up to and with start(), and    *)
(* RecordPid, addPIDToFile().                                              *)
(*                                                                         *)
(* The controller has a state "down": before startupAllServers(), after a  *)
(* crash, after its destructor.  Its children outlive a crash.             *)
(***************************************************************************)
EXTENDS ServerProcess, FiniteSets

CONSTANTS
  Listed,       \* the names that have rows in table ServerProcess
  BootCount,    \* instances of a name in all of its rows
  DeployCount,  \* instances of a name in its first row, 1 without a row
  NoServer,     \* stands for no ServerProcess object
  MaxEntries    \* bound: entries of one pid in the file

(* A name without a row yields ports 0 .. 0, one instance.  The last two   *)
(* conjuncts are bounds of the model: enough objects for every row.        *)
ASSUME AppControllerAssumption ==
  /\ Listed \subseteq Name
  /\ BootCount \in [Name -> Nat]
  /\ DeployCount \in [Name -> Nat]
  /\ \A n \in Name \ Listed : BootCount[n] = 0 /\ DeployCount[n] = 1
  /\ NoServer \notin Object
  /\ MaxEntries \in Nat \ {0}
  /\ IsFiniteSet(Object)
  /\ \A n \in Name : BootCount[n] <= Cardinality({o \in Object : fName[o] = n})

VARIABLES
  up,               \* the controller runs
  fServers,         \* the objects in the map fServers
  running_servers,  \* entries of each pid in running-servers.log
  server_state,     \* column server_state of the rows of each name
  pending,          \* rounds startServerInstances() has left, by name
  server,           \* the object between its start() and addPIDToFile()
  synced,           \* history: the last UPDATE of server_state was stored
  unlisted,         \* history: the processes the file is known to miss
  drift             \* history: a child was restarted since the last cleanup

ctlVars == <<up, pending, server>>
dbVars  == <<server_state, synced>>
acVars  == <<ctlVars, fServers, running_servers, dbVars, unlisted, drift>>
vars    == <<spVars, acVars>>

ACTypeOK ==
  /\ SPTypeOK
  /\ up \in BOOLEAN
  /\ fServers \subseteq Object
  /\ running_servers \in [Pid \cup {NoPid} -> Nat]
  /\ server_state \in [Name -> {"ONLINE", "OFFLINE"}]
  /\ pending \in [Name -> Nat]
  /\ server \in Object \cup {NoServer}
  /\ synced \in [Name -> BOOLEAN]
  /\ unlisted \subseteq Pid
  /\ drift \in BOOLEAN

NoEntry   == [p \in Pid \cup {NoPid} |-> 0]
NoRound   == [n \in Name |-> 0]
NoneKnown == [n \in Name |-> FALSE]

ACInit ==
  /\ SPInit
  /\ up = FALSE
  /\ fServers = {}
  /\ running_servers = NoEntry
  /\ server_state = [n \in Name |-> "OFFLINE"]
  /\ pending = NoRound
  /\ server = NoServer
  /\ synced = NoneKnown
  /\ unlisted = {}
  /\ drift = FALSE

(* The event loop may take up the next event.                              *)
Idle    == up /\ pending = NoRound /\ server = NoServer
Loop    == up /\ pending # NoRound /\ server = NoServer

ServersOf(n) == {o \in fServers : fName[o] = n}

(* The history variable unlisted: what it held and what a step adds, less  *)
(* the processes the host has forgotten.                                   *)
Misses(new) == unlisted' = {p \in unlisted \cup new : proc'[p] # "none"}

----------------------------------------------------------------------------
(* running-servers.log and column server_state.                            *)

\* Mutant: the file is opened for writing instead of appending.
AddTruncates(p) == [NoEntry EXCEPT ![p] = 1]

(* addPIDToFile()                                                          *)
AddPID(p) == [running_servers EXCEPT ![p] = @ + 1]

\* Mutant: the rewritten file still has the entry.
RemoveNothing(p) == running_servers

(* removePIDFromFile(): one entry goes, if there is one.                   *)
RemovePID(p) ==
  [running_servers EXCEPT ![p] = IF @ = 0 THEN 0 ELSE @ - 1]

\* Mutant: a pid listed twice is taken for a stale one and spared.
KillsOnce == {p \in Pid : running_servers[p] = 1}

(* What cleanupOldServers() hands to kill -9: every entry but "0", which   *)
(* would be the process group of the controller.                           *)
Killed == {p \in Pid : running_servers[p] > 0}

(* updateData(SERVERSTATE): the answer of the database is not looked at.   *)
(* An UPDATE that matches no row is answered like any other.               *)
Stored(col, n, value, acked) ==
  IF acked /\ n \in Listed THEN [col EXCEPT ![n] = value] ELSE col

UpdateState(n, value) ==
  \E acked \in BOOLEAN :
    /\ server_state' = Stored(server_state, n, value, acked)
    /\ synced' = [synced EXCEPT ![n] = acked]

----------------------------------------------------------------------------
(* startServerInstances()                                                  *)

(* The round of the loop is used up, with or without a child.              *)
NextPort(n) == pending' = [pending EXCEPT ![n] = @ - 1]

(* A round in which QProcess forks the child.                              *)
Spawn(o, p) ==
  /\ Loop
  /\ pending[fName[o]] > 0
  /\ running_servers[p] < MaxEntries
  /\ Start(o, p)
  /\ fServers' = fServers \cup {o}
  /\ UpdateState(fName[o], "ONLINE")
  /\ NextPort(fName[o])
  /\ server' = o
  /\ UNCHANGED <<up, running_servers, drift>>
  /\ Misses({})

(* A round in which it cannot: processDead() is handled inside start(), so *)
(* ONLINE is written before OFFLINE and the pid removed from the file is   *)
(* the initial fProcess_ID, 0.                                             *)
SpawnForkFails(o) ==
  LET n == fName[o]
  IN /\ Loop
     /\ pending[n] > 0
     /\ StartFails(o)
     /\ running_servers' = RemovePID(NoPid)
     /\ IF ServersOf(n) # {}
          THEN UpdateState(n, "ONLINE")
          ELSE \E acked1, acked2 \in BOOLEAN :
                 /\ server_state' =
                      Stored(Stored(server_state, n, "ONLINE", acked1),
                             n, "OFFLINE", acked2)
                 /\ synced' = [synced EXCEPT ![n] = acked2]
     /\ NextPort(n)
     /\ server' = o
     /\ UNCHANGED <<up, fServers, drift>>
     /\ Misses({})

(* The end of a round.                                                     *)
RecordPid ==
  /\ server # NoServer
  /\ running_servers' = AddPID(fProcess_ID[server])
  /\ server' = NoServer
  /\ UNCHANGED <<spVars, up, fServers, pending, dbVars, drift>>
  /\ Misses({})

----------------------------------------------------------------------------
(* Requests.                                                               *)

(* Bound: the model has an object for each instance to start.              *)
HasRoom(n) ==
  DeployCount[n] <= Cardinality({o \in Object \ fServers : fName[o] = n})

\* Mutant: takedownServer() stops the servers of every other name.
StopsOthers(n) == Stop(fServers \ ServersOf(n))
\* Mutant: takedownServer() returns after the first server of the name.
StopsFirst(n) ==
  \E S \in SUBSET ServersOf(n) :
    Stop(S) /\ Cardinality(S) = IF ServersOf(n) = {} THEN 0 ELSE 1

(* takedownServer()                                                        *)
TakedownServer(n) == Stop(ServersOf(n))

(* deployServer(), up to its loop: nothing without the row.                *)
DeployServer(n) ==
  pending' = [pending EXCEPT ![n] = IF dbUp THEN DeployCount[n] ELSE 0]

NewDeployedServer(n) ==
  /\ Idle
  /\ HasRoom(n)
  /\ DeployServer(n)
  /\ UNCHANGED <<spVars, up, server, fServers, running_servers, dbVars, drift>>
  /\ Misses({})

NewTakendownServer(n) ==
  /\ Idle
  /\ TakedownServer(n)
  /\ UNCHANGED <<ctlVars, fServers, running_servers, dbVars, drift>>
  /\ Misses({})

NewConfiguredServer(n) ==
  /\ Idle
  /\ HasRoom(n)
  /\ TakedownServer(n)
  /\ DeployServer(n)
  /\ UNCHANGED <<up, server, fServers, running_servers, dbVars, drift>>
  /\ Misses({})

ShutdownAllServers ==
  /\ Idle
  /\ Stop(fServers)
  /\ UNCHANGED <<ctlVars, fServers, running_servers, dbVars, drift>>
  /\ Misses({})

----------------------------------------------------------------------------
(* Signals of the ServerProcess objects.                                   *)

\* Mutant: the map forgets every server of the name, not only this one.
DropsName(o) == fServers \ ServersOf(fName[o])

(* fServers->remove()                                                      *)
Dropped(o) == fServers \ {o}

\* Mutant: OFFLINE is written although other instances of the name run.
LastAlways(o) == TRUE

(* The map has no other server of the name.                                *)
LastOfName(o) == \A s \in Dropped(o) : fName[s] # fName[o]

(* The lambda connected to processDead(), run inside the handler that      *)
(* emits the signal.                                                       *)
ProcessDead(o) ==
  /\ Idle
  /\ EmitsProcessDead(o)
  /\ running_servers' = RemovePID(fProcess_ID[o])
  /\ fServers' = Dropped(o)
  /\ IF LastOfName(o) THEN UpdateState(fName[o], "OFFLINE")
                      ELSE UNCHANGED dbVars
  /\ UNCHANGED <<ctlVars, drift>>
  /\ Misses({})

(* The file is not told of the new child.                                  *)
ServerRestarted(o, p) ==
  /\ Idle
  /\ Restart(o, p)
  /\ drift' = TRUE
  /\ UNCHANGED <<ctlVars, fServers, running_servers, dbVars>>
  /\ Misses({p})

ServerStarted(o) ==
  /\ Idle
  /\ Started(o)
  /\ UNCHANGED <<ctlVars, fServers, running_servers, dbVars, drift>>
  /\ Misses({})

----------------------------------------------------------------------------
(* The life of the controller.                                             *)

(* Constructor, then startupAllServers(): cleanupOldServers() kills what   *)
(* the file lists (init reaps it) and empties the file; the loop starts    *)
(* what the database lists.                                                *)
StartupAllServers ==
  /\ ~up
  /\ up' = TRUE
  /\ proc' = [p \in Pid |-> IF p \in Killed THEN "none" ELSE proc[p]]
  /\ running_servers' = NoEntry
  /\ pending' = IF dbUp THEN BootCount ELSE NoRound
  /\ synced' = NoneKnown
  /\ drift' = FALSE
  /\ UNCHANGED <<objVars, crash_count, dbUp, server, fServers, server_state>>
  /\ Misses({})

(* The objects are gone with the controller.                               *)
ControllerGone ==
  /\ up
  /\ up' = FALSE
  /\ fServers' = {}
  /\ pending' = NoRound
  /\ server' = NoServer
  /\ state' = [o \in Object |-> "NotRunning"]
  /\ fProcess_ID' = [o \in Object |-> NoPid]
  /\ fRetries' = [o \in Object |-> 0]
  /\ fSelf_Terminate' = [o \in Object |-> FALSE]
  /\ fTimer' = [o \in Object |-> FALSE]
  /\ UNCHANGED <<dbUp, dbVars, drift>>

(* ~AppController(): every child is killed and waited for, the signals no  *)
(* longer reach the controller.                                            *)
DestroyController ==
  /\ Idle
  /\ ControllerGone
  /\ proc' = [p \in Pid |-> IF Owned(p) THEN "none" ELSE proc[p]]
  /\ UNCHANGED <<running_servers, crash_count>>
  /\ Misses({})

(* Live children become orphans, init reaps the dead ones.                 *)
Orphaned == proc' = [p \in Pid |-> IF Alive(p) THEN proc[p] ELSE "none"]

(* A crash before the next event, or before addPIDToFile() has appended    *)
(* the pid of a child that start() has forked.                             *)
ControllerCrash ==
  /\ ControllerGone
  /\ Orphaned
  /\ UNCHANGED <<running_servers, crash_count>>
  /\ Misses(IF server # NoServer THEN {fProcess_ID[server]} \cap Pid ELSE {})

(* A crash inside the handling of processDead(), when removePIDFromFile()  *)
(* has emptied the file and not written it back.                           *)
CrashInRewrite ==
  /\ \/ /\ Loop
        /\ UNCHANGED crash_count
     \/ /\ Idle
        /\ \E o \in fServers :
             /\ ~Alive(fProcess_ID[o])
             /\ IF Unplanned(o) THEN CountCrash(fName[o])
                                ELSE UNCHANGED crash_count
  /\ ControllerGone
  /\ Orphaned
  /\ running_servers' = NoEntry
  /\ Misses(Pid)

----------------------------------------------------------------------------
Handle(o) == ProcessDead(o) \/ (\E p \in Pid : ServerRestarted(o, p))

LoopStep ==
  \/ \E o \in Object : SpawnForkFails(o) \/ (\E p \in Pid : Spawn(o, p))
  \/ RecordPid

World ==
  /\ Environment
  /\ UNCHANGED <<ctlVars, fServers, running_servers, dbVars, drift>>
  /\ Misses({})

ACNext ==
  \/ StartupAllServers
  \/ LoopStep
  \/ \E n \in Name :
       \/ NewDeployedServer(n)
       \/ NewTakendownServer(n)
       \/ NewConfiguredServer(n)
  \/ ShutdownAllServers
  \/ \E o \in Object : Handle(o) \/ ServerStarted(o)
  \/ DestroyController
  \/ ControllerCrash
  \/ CrashInRewrite
  \/ World

(* The loop runs on; the event loop takes up every signal in turn, however *)
(* many requests come between.                                             *)
ACFairness ==
  /\ WF_vars(LoopStep)
  /\ \A o \in Object : SF_vars(Handle(o))

ACSpec == ACInit /\ [][ACNext]_vars
ACFairSpec == ACSpec /\ ACFairness

----------------------------------------------------------------------------
(* What the controller promises.                                           *)

(* The map and the objects agree: a server is in fServers exactly while it *)
(* has a child to supervise, so takedown and shutdown reach every child    *)
(* and never touch an object that is being deleted.                        *)
Supervised == fServers = {o \in Object : Active(o)}

(* The file misses a live process in three cases only: the child was       *)
(* forked by a restart; the controller crashed before addPIDToFile(), or   *)
(* while removePIDFromFile() had the file empty.  Every other process a    *)
(* controller ever forked stays listed, through cleanups, crashes and      *)
(* recycled pids, until it is dead; at most one entry is "0".              *)
LiveAreListed ==
  /\ \A p \in Pid : proc[p] # "none" =>
       \/ running_servers[p] > 0
       \/ p \in unlisted
       \/ server # NoServer /\ fProcess_ID[server] = p
  /\ running_servers[NoPid] <= 1

(* Until the first restart the file is exact between two handlers: one     *)
(* entry for the pid of each supervised child, none for another pid, so    *)
(* that kill -9 of every entry kills the children and nothing else.        *)
FileExact ==
  up /\ server = NoServer /\ ~drift =>
    \A p \in Pid : running_servers[p] = IF Owned(p) THEN 1 ELSE 0

(* Column server_state tells whether a server of the name runs, as long as *)
(* the last UPDATE was stored: instances of one name that come, fail to    *)
(* fork, crash and go in any order never leave the wrong word behind.      *)
StateSynced ==
  up => \A n \in Listed :
    synced[n] => (server_state[n] = "ONLINE" <=> ServersOf(n) # {})

(* A new controller starts with a clean host: what is still alive after    *)
(* cleanupOldServers() is one that the file was known to miss: forked by a *)
(* restart, or lost by a crash before or in the middle of a write.         *)
CleanupComplete ==
  [][~up /\ up' => \A p \in Pid : proc'[p] # "none" => p \in unlisted]_vars

(* TAKEDOWN and CONFIGURE reach every server of the name and no other: the *)
(* children of the name are killed, those of another name left alone.      *)
TakedownHitsName ==
  [][\A n \in Name : NewTakendownServer(n) \/ NewConfiguredServer(n) =>
       \A o \in fServers :
         /\ fName[o] = n => fSelf_Terminate'[o] /\ ~(Alive(fProcess_ID[o]))'
         /\ fName[o] # n => proc'[fProcess_ID[o]] = proc[fProcess_ID[o]]]_vars

(* What was told to stop leaves the map, in whatever state its child was,  *)
(* and with other requests coming in.                                      *)
StoppedLeave ==
  \A o \in Object : (o \in fServers /\ fSelf_Terminate[o]) ~> o \notin fServers

(* The controller implements Supervision.                                  *)
Stopping == {o \in fServers : fSelf_Terminate[o]}
Living   == {o \in fServers : Alive(fProcess_ID[o])}
Left     == [o \in fServers |-> RetryLimit - fRetries[o]]

Abstract == INSTANCE Supervision WITH
  served <- fServers, stopping <- Stopping, alive <- Living, left <- Left

(* Every step of controller, children, host and database is a step of the  *)
(* abstract supervisor or leaves what it shows unchanged.                  *)
ImplementsSupervision == Abstract!Spec
============================================================================
