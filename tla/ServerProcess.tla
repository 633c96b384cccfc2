--------------------------- MODULE ServerProcess ---------------------------
(***************************************************************************)
(* src/src/ServerProcess.cpp: one ServerProcess object supervises one      *)
(* operating system process (a web server instance) through the QProcess   *)
(* it derives from.  The object starts its child, kills it on demand,      *)
(* restarts it when it crashes, counts the crashes in the database and,    *)
(* when the child is gone for good, emits processDead().                   *)
(*                                                                         *)
(* All handlers run to completion on the one Qt event loop, so a handler   *)
(* is one action.  The child processes and the database run beside the     *)
(* loop and may move between any two handlers.                             *)
(*                                                                         *)
(* processDead() has one receiver, which ends the life of the object       *)
(* (deleteLater), so an object whose processDead() was emitted is free to  *)
(* stand for a later "new ServerProcess": its fields return to the values  *)
(* the constructor gives them.                                             *)
(***************************************************************************)
EXTENDS Naturals

CONSTANTS
  Object,      \* the ServerProcess objects
  Name,        \* the server names of table ServerProcess
  fName,       \* the name each object was constructed with
  Pid,         \* process ids of the host
  NoPid,       \* processId() of a process that was never forked, written "0"
  RetryLimit,  \* restarts an object grants its child; the code has 9
  CountMax     \* largest crash_count, (quint16)-1 in the code

ASSUME ServerProcessAssumption ==
  /\ fName \in [Object -> Name]
  /\ NoPid \notin Pid
  /\ RetryLimit \in Nat
  /\ CountMax \in Nat \ {0}

VARIABLES
  state,            \* QProcess::state() of each object
  fProcess_ID,      \* processId() as cached by start()
  fRetries,         \* restarts made so far
  fSelf_Terminate,  \* stop() has killed the child
  fTimer,           \* fTimer->isActive()
  proc,             \* the host's process table, as the parent sees it
  crash_count,      \* column crash_count of the rows of each name
  dbUp              \* the database answers queries

objVars == <<state, fProcess_ID, fRetries, fSelf_Terminate, fTimer>>
spVars  == <<objVars, proc, crash_count, dbUp>>

(* A pid is not in use, or its process was forked and has not yet replaced *)
(* its image, is live, or is dead and unreaped: its exec failed, a signal  *)
(* killed it, or it exited by itself.                                      *)
ProcStatus == {"none", "forked", "live", "noexec", "crashed", "exited"}
Alive(p)   == proc[p] \in {"forked", "live"}

SPTypeOK ==
  /\ state \in [Object -> {"NotRunning", "Starting", "Running"}]
  /\ fProcess_ID \in [Object -> Pid \cup {NoPid}]
  /\ fRetries \in [Object -> 0 .. RetryLimit]
  /\ fSelf_Terminate \in [Object -> BOOLEAN]
  /\ fTimer \in [Object -> BOOLEAN]
  /\ proc \in [Pid -> ProcStatus]
  /\ crash_count \in [Name -> 0 .. CountMax]
  /\ dbUp \in BOOLEAN

SPInit ==
  /\ state = [o \in Object |-> "NotRunning"]
  /\ fProcess_ID = [o \in Object |-> NoPid]
  /\ fRetries = [o \in Object |-> 0]
  /\ fSelf_Terminate = [o \in Object |-> FALSE]
  /\ fTimer = [o \in Object |-> FALSE]
  /\ proc = [p \in Pid |-> "none"]
  /\ crash_count = [n \in Name |-> 0]
  /\ dbUp = TRUE

Active(o) == state[o] # "NotRunning"
Owned(p)  == \E o \in Object : Active(o) /\ fProcess_ID[o] = p

----------------------------------------------------------------------------
(* start(), stop(): called by the owner of the object.                     *)

(* start() on a new object, when fork succeeds.                            *)
Start(o, p) ==
  /\ ~Active(o)
  /\ proc[p] = "none"
  /\ state' = [state EXCEPT ![o] = "Starting"]
  /\ fProcess_ID' = [fProcess_ID EXCEPT ![o] = p]
  /\ fTimer' = [fTimer EXCEPT ![o] = TRUE]
  /\ proc' = [proc EXCEPT ![p] = "forked"]
  /\ UNCHANGED <<fRetries, fSelf_Terminate, crash_count, dbUp>>

(* start() on a new object, when QProcess cannot fork: FailedToStart, and  *)
(* with it processDead(), is emitted before start() returns.               *)
StartFails(o) ==
  /\ ~Active(o)
  /\ UNCHANGED spVars

\* Mutant: stop() forgets that a child may still be starting.
StoppableIfRunning(o) == state[o] = "Running"

(* The children stop() kills.                                              *)
Stoppable(o) == state[o] \in {"Running", "Starting"}

(* stop() on each object of S.  kill() sends SIGKILL and returns; the      *)
(* child is dead from there on, the object learns it from the event loop.  *)
Stop(S) ==
  LET hit  == {o \in S : Stoppable(o)}
      pids == {fProcess_ID[o] : o \in hit}
  IN /\ fTimer' = [o \in Object |-> fTimer[o] /\ o \notin S]
     /\ fSelf_Terminate' = [o \in Object |-> fSelf_Terminate[o] \/ o \in hit]
     /\ proc' = [p \in Pid |->
                   IF p \in pids /\ Alive(p) THEN "crashed" ELSE proc[p]]
     /\ UNCHANGED <<state, fProcess_ID, fRetries, crash_count, dbUp>>

----------------------------------------------------------------------------
(* Handlers of the QProcess signals.                                       *)

(* QProcess learns that the exec succeeded; nothing of ServerProcess runs. *)
Started(o) ==
  /\ state[o] = "Starting"
  /\ proc[fProcess_ID[o]] \in {"live", "crashed", "exited"}
  /\ state' = [state EXCEPT ![o] = "Running"]
  /\ UNCHANGED <<fProcess_ID, fRetries, fSelf_Terminate, fTimer, proc,
                 crash_count, dbUp>>

(* finished(), or errorOccurred() after a failed exec, is due.             *)
Died(o, status) == Active(o) /\ proc[fProcess_ID[o]] = status

\* Mutant: processFinished() does not look at fSelf_Terminate.
UnplannedOrStopped(o) == Died(o, "crashed")

(* processFinished(CrashExit) goes on to handleProcessCrash().             *)
Unplanned(o) == Died(o, "crashed") /\ ~fSelf_Terminate[o]

(* The object has emitted processDead(): the child is reaped, the object   *)
(* is at the end of its life.                                              *)
EndOfLife(o) ==
  /\ state' = [state EXCEPT ![o] = "NotRunning"]
  /\ fProcess_ID' = [fProcess_ID EXCEPT ![o] = NoPid]
  /\ fRetries' = [fRetries EXCEPT ![o] = 0]
  /\ fSelf_Terminate' = [fSelf_Terminate EXCEPT ![o] = FALSE]
  /\ fTimer' = [fTimer EXCEPT ![o] = FALSE]
  /\ proc' = [proc EXCEPT ![fProcess_ID[o]] = "none"]
  /\ UNCHANGED dbUp

(* handleProcessCrash() can tell the crash count: a count of (quint16)-1   *)
(* is taken for a failed query.                                            *)
CountReadable(n) == dbUp /\ crash_count[n] # CountMax

(* The record handleProcessCrash() makes of a crash.  The UPDATE may fail  *)
(* although the SELECT before it succeeded; its answer is not looked at.   *)
CountCrash(n) ==
  \/ /\ CountReadable(n)
     /\ crash_count' = [crash_count EXCEPT ![n] = @ + 1]
  \/ UNCHANGED crash_count

(* processErrorHandler(FailedToStart): the exec failed.                    *)
FailedToStart(o) ==
  /\ state[o] = "Starting"
  /\ Died(o, "noexec")
  /\ EndOfLife(o)
  /\ UNCHANGED crash_count

(* processFinished(NormalExit).                                            *)
NormalExit(o) ==
  /\ Died(o, "exited")
  /\ EndOfLife(o)
  /\ UNCHANGED crash_count

\* Mutant: the crash of a stopped child is counted too.
SelfTerminatedCounts(o) ==
  /\ Died(o, "crashed")
  /\ fSelf_Terminate[o]
  /\ EndOfLife(o)
  /\ CountCrash(fName[o])

\* Mutant: the end of a child that was stopped while starting is ignored.
SelfTerminatedRunning(o) ==
  /\ state[o] = "Running"
  /\ Died(o, "crashed")
  /\ fSelf_Terminate[o]
  /\ EndOfLife(o)
  /\ UNCHANGED crash_count

(* processFinished(CrashExit) after a stop().                              *)
SelfTerminated(o) ==
  /\ Died(o, "crashed")
  /\ fSelf_Terminate[o]
  /\ EndOfLife(o)
  /\ UNCHANGED crash_count

(* handleProcessCrash() when the restarts are used up.                     *)
GiveUp(o) ==
  /\ Unplanned(o)
  /\ fRetries[o] = RetryLimit
  /\ CountCrash(fName[o])
  /\ EndOfLife(o)

(* handleProcessCrash() when restart() cannot fork: FailedToStart is       *)
(* emitted inside it.                                                      *)
RestartFails(o) ==
  /\ Unplanned(o)
  /\ fRetries[o] # RetryLimit
  /\ CountCrash(fName[o])
  /\ EndOfLife(o)

\* Mutant: ++ fRetries is missing.
RestartUncounted(o, p) ==
  /\ Unplanned(o)
  /\ fRetries[o] # RetryLimit
  /\ proc[p] = "none" \/ p = fProcess_ID[o]
  /\ CountCrash(fName[o])
  /\ state' = [state EXCEPT ![o] = "Starting"]
  /\ fProcess_ID' = [fProcess_ID EXCEPT ![o] = p]
  /\ fTimer' = [fTimer EXCEPT ![o] = TRUE]
  /\ proc' = [proc EXCEPT ![fProcess_ID[o]] = "none", ![p] = "forked"]
  /\ UNCHANGED <<fRetries, fSelf_Terminate, dbUp>>

\* Mutant: start() does not refresh fProcess_ID for a new child.
RestartKeepsPid(o, p) ==
  /\ Unplanned(o)
  /\ fRetries[o] # RetryLimit
  /\ proc[p] = "none" \/ p = fProcess_ID[o]
  /\ CountCrash(fName[o])
  /\ state' = [state EXCEPT ![o] = "Starting"]
  /\ fTimer' = [fTimer EXCEPT ![o] = TRUE]
  /\ fRetries' = [fRetries EXCEPT ![o] = @ + 1]
  /\ proc' = [proc EXCEPT ![fProcess_ID[o]] = "none", ![p] = "forked"]
  /\ UNCHANGED <<fProcess_ID, fSelf_Terminate, dbUp>>

(* handleProcessCrash() when restart() forks again.  The old child is      *)
(* reaped by then, so the new one may get the same pid.                    *)
Restart(o, p) ==
  /\ Unplanned(o)
  /\ fRetries[o] # RetryLimit
  /\ proc[p] = "none" \/ p = fProcess_ID[o]
  /\ CountCrash(fName[o])
  /\ state' = [state EXCEPT ![o] = "Starting"]
  /\ fProcess_ID' = [fProcess_ID EXCEPT ![o] = p]
  /\ fTimer' = [fTimer EXCEPT ![o] = TRUE]
  /\ fRetries' = [fRetries EXCEPT ![o] = @ + 1]
  /\ proc' = [proc EXCEPT ![fProcess_ID[o]] = "none", ![p] = "forked"]
  /\ UNCHANGED <<fSelf_Terminate, dbUp>>

(* The handlers that emit processDead().                                   *)
EmitsProcessDead(o) ==
  \/ FailedToStart(o)
  \/ NormalExit(o)
  \/ SelfTerminated(o)
  \/ GiveUp(o)
  \/ RestartFails(o)

----------------------------------------------------------------------------
(* The world around the event loop: the children and the database.         *)

(* A process without a parent that waits for it is reaped by init.         *)
Becomes(p, status) ==
  /\ proc' = [proc EXCEPT ![p] = IF Owned(p) THEN status ELSE "none"]
  /\ UNCHANGED <<objVars, crash_count, dbUp>>

Exec(p) ==
  /\ proc[p] = "forked"
  /\ proc' = [proc EXCEPT ![p] = "live"]
  /\ UNCHANGED <<objVars, crash_count, dbUp>>
ExecFails(p) == proc[p] = "forked" /\ Becomes(p, "noexec")
Crash(p)     == Alive(p) /\ Becomes(p, "crashed")
Exit(p)      == proc[p] = "live" /\ Becomes(p, "exited")

DatabaseFlips == dbUp' = ~dbUp /\ UNCHANGED <<objVars, proc, crash_count>>

Environment ==
  \/ \E p \in Pid : Exec(p) \/ ExecFails(p) \/ Crash(p) \/ Exit(p)
  \/ DatabaseFlips

----------------------------------------------------------------------------
(* The objects alone, with an owner that may start and stop them at will.  *)

SPNext ==
  \/ \E o \in Object :
       \/ \E p \in Pid : Start(o, p) \/ Restart(o, p)
       \/ Stop({o})
       \/ Started(o)
       \/ EmitsProcessDead(o)
  \/ Environment

(* The event loop delivers every pending signal.                           *)
SPFairness ==
  \A o \in Object :
    WF_spVars(EmitsProcessDead(o) \/ (\E p \in Pid : Restart(o, p)))

SPSpec == SPInit /\ [][SPNext]_spVars
SPFairSpec == SPSpec /\ SPFairness

----------------------------------------------------------------------------
(* What the objects promise.                                               *)

(* Two supervised children are never the same process, and a supervised    *)
(* child is never one the host has already forgotten: the pid an object    *)
(* caches stays the pid of its own child through crashes and restarts.     *)
PidsOwnedOnce ==
  \A o1, o2 \in Object : Active(o1) =>
    /\ fProcess_ID[o1] \in Pid
    /\ proc[fProcess_ID[o1]] # "none"
    /\ Active(o2) /\ o1 # o2 => fProcess_ID[o1] # fProcess_ID[o2]

(* The load timer of a supervised child runs exactly while no stop() is    *)
(* pending: stop() never switches the timer off without also marking the   *)
(* child for termination, in whatever state it meets the child.            *)
TimerMirrorsStop ==
  \A o \in Object : Active(o) => (fTimer[o] <=> ~fSelf_Terminate[o])

(* Once stop() has marked an object, no handler starts another child for   *)
(* it: the object keeps its child until it ends its life.                  *)
NoRestartAfterStop ==
  [][\A o \in Object : Active(o) /\ fSelf_Terminate[o] =>
       \/ state'[o] = "NotRunning"
       \/ fSelf_Terminate'[o] /\ fProcess_ID'[o] = fProcess_ID[o]]_spVars

(* crash_count moves only by one, and only when the loop handles a crash   *)
(* that nobody asked for: planned stops, normal exits and failed starts    *)
(* are never counted as crashes, and (quint16)-1 is never stepped over.    *)
CountsOnlyCrashes ==
  [][\A n \in Name : crash_count'[n] # crash_count[n] =>
       /\ crash_count'[n] = crash_count[n] + 1 /\ crash_count'[n] <= CountMax
       /\ \E o \in Object : /\ fName[o] = n
                            /\ Died(o, "crashed")
                            /\ ~fSelf_Terminate[o]]_spVars

(* stop() is effective whatever it races with: an object whose timer was   *)
(* switched off by stop() eventually ends its life.                        *)
StopCompletes ==
  \A o \in Object : (Active(o) /\ ~fTimer[o]) ~> ~Active(o)

(* A child that crashes again and again is given up: no object restarts    *)
(* its child forever.                                                      *)
CrashLoopEnds ==
  \A o \in Object : []<>Unplanned(o) => []<>(~Active(o))

(* handleProcessCrash() logs, when it cannot retrieve the crash count,     *)
(* that the record will be incorrect "but the webapp will be restarted":   *)
(* no crash without a readable count would be answered by giving up.       *)
WebappWillBeRestarted ==
  [][\A o \in Object : ~CountReadable(fName[o]) => ~GiveUp(o)]_spVars

============================================================================
