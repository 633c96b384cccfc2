------------------------ MODULE ServerProcessProofs ------------------------
(* Proofs about the ServerProcess objects, for any set of objects, names   *)
(* and pids and any limits.                                                *)
EXTENDS ServerProcess, TLAPS

(* An object that has no child has not been told to stop, has no pid and   *)
(* has made no restart.                                                    *)
InactiveIsFresh ==
  \A o \in Object : ~Active(o) =>
    ~fSelf_Terminate[o] /\ fProcess_ID[o] = NoPid /\ fRetries[o] = 0

(* The inductive invariant.  TimerMirrorsStop speaks of active objects     *)
(* only: start() is what needs InactiveIsFresh.  Restart and EndOfLife    *)
(* need PidsOwnedOnce so that the process they reap is nobody else's.      *)
SPInv == SPTypeOK /\ PidsOwnedOnce /\ TimerMirrorsStop /\ InactiveIsFresh

LEMMA SPInitInv == SPInit => SPInv
BY ServerProcessAssumption
   DEF SPInit, SPInv, SPTypeOK, ProcStatus, PidsOwnedOnce, TimerMirrorsStop,
       InactiveIsFresh, Active

----------------------------------------------------------------------------
LEMMA CountCrashType ==
  ASSUME NEW n \in Name, SPTypeOK, CountCrash(n)
  PROVE  crash_count' \in [Name -> 0 .. CountMax]
<1>1. CASE UNCHANGED crash_count
  BY <1>1 DEF SPTypeOK
<1>2. CASE crash_count[n] # CountMax
           /\ crash_count' = [crash_count EXCEPT ![n] = @ + 1]
  <2>1. crash_count[n] \in 0 .. CountMax
    BY DEF SPTypeOK
  <2>2. crash_count[n] + 1 \in 0 .. CountMax
    BY <2>1, <1>2, ServerProcessAssumption
  <2> QED  BY <1>2, <2>2 DEF SPTypeOK
<1> QED  BY <1>1, <1>2 DEF CountCrash, CountReadable

LEMMA StartInv ==
  ASSUME NEW o \in Object, NEW p \in Pid, SPInv, Start(o, p)
  PROVE  SPInv'
<1> USE DEF SPInv, Start
<1>1. SPTypeOK'
  BY DEF SPTypeOK, ProcStatus
<1>2. PidsOwnedOnce'
  BY DEF PidsOwnedOnce, SPTypeOK, Active
<1>3. TimerMirrorsStop'
  BY DEF TimerMirrorsStop, InactiveIsFresh, SPTypeOK, Active
<1>4. InactiveIsFresh'
  BY DEF InactiveIsFresh, SPTypeOK, Active
<1> QED  BY <1>1, <1>2, <1>3, <1>4

LEMMA StopInv ==
  ASSUME NEW S, SPInv, Stop(S)
  PROVE  SPInv'
<1> USE DEF SPInv, Stop, Stoppable
<1>1. SPTypeOK'
  BY DEF SPTypeOK, ProcStatus
<1>2. PidsOwnedOnce'
  BY DEF PidsOwnedOnce, SPTypeOK, Active
<1>3. TimerMirrorsStop'
  BY DEF TimerMirrorsStop, SPTypeOK, Active
<1>4. InactiveIsFresh'
  BY DEF InactiveIsFresh, SPTypeOK, Active
<1> QED  BY <1>1, <1>2, <1>3, <1>4

LEMMA StartedInv ==
  ASSUME NEW o \in Object, SPInv, Started(o)
  PROVE  SPInv'
BY DEF SPInv, Started, SPTypeOK, PidsOwnedOnce, TimerMirrorsStop,
       InactiveIsFresh, Active

(* Reaping the child of an object harms no other object.                   *)
LEMMA EndOfLifeInv ==
  ASSUME NEW o \in Object, SPInv, Active(o), EndOfLife(o),
         crash_count' \in [Name -> 0 .. CountMax]
  PROVE  SPInv'
<1> USE DEF SPInv, EndOfLife
<1>1. SPTypeOK'
  <2>1. proc' \in [Pid -> ProcStatus]
    BY DEF SPTypeOK, ProcStatus
  <2>2. fRetries' \in [Object -> 0 .. RetryLimit]
    BY ServerProcessAssumption DEF SPTypeOK
  <2> QED  BY <2>1, <2>2 DEF SPTypeOK
<1>2. PidsOwnedOnce'
  BY DEF PidsOwnedOnce, SPTypeOK, Active
<1>3. TimerMirrorsStop'
  BY DEF TimerMirrorsStop, SPTypeOK, Active
<1>4. InactiveIsFresh'
  BY DEF InactiveIsFresh, SPTypeOK, Active
<1> QED  BY <1>1, <1>2, <1>3, <1>4

LEMMA EmitsProcessDeadInv ==
  ASSUME NEW o \in Object, SPInv, EmitsProcessDead(o)
  PROVE  SPInv'
<1>1. Active(o) /\ EndOfLife(o)
  BY DEF EmitsProcessDead, FailedToStart, NormalExit, SelfTerminated, GiveUp,
         RestartFails, Unplanned, Died
<1>2. fName[o] \in Name
  BY ServerProcessAssumption
<1>3. CountCrash(fName[o]) \/ UNCHANGED crash_count
  BY DEF EmitsProcessDead, FailedToStart, NormalExit, SelfTerminated, GiveUp,
         RestartFails
<1>4. crash_count' \in [Name -> 0 .. CountMax]
  BY <1>2, <1>3, CountCrashType DEF SPInv, SPTypeOK
<1> QED  BY <1>1, <1>4, EndOfLifeInv

LEMMA RestartInv ==
  ASSUME NEW o \in Object, NEW p \in Pid, SPInv, Restart(o, p)
  PROVE  SPInv'
<1>1. fRetries[o] + 1 \in 0 .. RetryLimit
  BY ServerProcessAssumption DEF SPInv, SPTypeOK, Restart
<1>2. crash_count' \in [Name -> 0 .. CountMax]
  BY ServerProcessAssumption, CountCrashType DEF SPInv, Restart
<1> USE DEF SPInv, Restart, Unplanned, Died
<1>3. SPTypeOK'
  BY <1>1, <1>2 DEF SPTypeOK, ProcStatus
<1>4. PidsOwnedOnce'
  BY DEF PidsOwnedOnce, SPTypeOK, Active
<1>5. TimerMirrorsStop'
  BY DEF TimerMirrorsStop, SPTypeOK, Active
<1>6. InactiveIsFresh'
  BY DEF InactiveIsFresh, SPTypeOK, Active
<1> QED  BY <1>3, <1>4, <1>5, <1>6

LEMMA EnvironmentInv ==
  ASSUME SPInv, Environment
  PROVE  SPInv'
<1>1. CASE DatabaseFlips
  BY <1>1 DEF SPInv, DatabaseFlips, objVars, SPTypeOK, PidsOwnedOnce,
              TimerMirrorsStop, InactiveIsFresh, Active
<1>2. ASSUME NEW p \in Pid, NEW s \in ProcStatus,
             s = "none" => ~Owned(p),
             proc' = [proc EXCEPT ![p] = s],
             UNCHANGED <<objVars, crash_count, dbUp>>
      PROVE  SPInv'
  <2> USE DEF SPInv, objVars
  <2>1. SPTypeOK'
    BY <1>2 DEF SPTypeOK, ProcStatus
  <2>2. PidsOwnedOnce'
    BY <1>2 DEF PidsOwnedOnce, SPTypeOK, Active, Owned, ProcStatus
  <2>3. TimerMirrorsStop' /\ InactiveIsFresh'
    BY <1>2 DEF TimerMirrorsStop, InactiveIsFresh, Active
  <2> QED  BY <2>1, <2>2, <2>3
<1>3. CASE \E p \in Pid : Exec(p) \/ ExecFails(p) \/ Crash(p) \/ Exit(p)
  <2>1. PICK p \in Pid : Exec(p) \/ ExecFails(p) \/ Crash(p) \/ Exit(p)
    BY <1>3
  <2>2. CASE Exec(p)
    BY <2>2, <1>2 DEF Exec, ProcStatus
  <2>3. ASSUME ExecFails(p) \/ Crash(p) \/ Exit(p)
        PROVE  SPInv'
    <3>1. PICK s \in {"noexec", "crashed", "exited"} : Becomes(p, s)
      BY <2>3 DEF ExecFails, Crash, Exit
    <3>2. CASE Owned(p)
      BY <3>1, <3>2, <1>2 DEF Becomes, ProcStatus
    <3>3. CASE ~Owned(p)
      BY <3>1, <3>3, <1>2 DEF Becomes, ProcStatus
    <3> QED  BY <3>2, <3>3
  <2> QED  BY <2>1, <2>2, <2>3
<1> QED  BY <1>1, <1>3 DEF Environment

LEMMA StutterInv ==
  ASSUME SPInv, UNCHANGED spVars
  PROVE  SPInv'
BY DEF SPInv, spVars, objVars, SPTypeOK, PidsOwnedOnce, TimerMirrorsStop,
       InactiveIsFresh, Active

THEOREM SPInvariance == SPSpec => []SPInv
<1>1. SPInit => SPInv
  BY SPInitInv
<1>2. SPInv /\ [SPNext]_spVars => SPInv'
  <2> SUFFICES ASSUME SPInv, [SPNext]_spVars
               PROVE  SPInv'
    OBVIOUS
  <2>1. ASSUME NEW o \in Object, NEW p \in Pid, Start(o, p)
        PROVE  SPInv'
    BY <2>1, StartInv
  <2>2. ASSUME NEW o \in Object, NEW p \in Pid, Restart(o, p)
        PROVE  SPInv'
    BY <2>2, RestartInv
  <2>3. ASSUME NEW o \in Object, Stop({o})
        PROVE  SPInv'
    BY <2>3, StopInv
  <2>4. ASSUME NEW o \in Object, Started(o)
        PROVE  SPInv'
    BY <2>4, StartedInv
  <2>5. ASSUME NEW o \in Object, EmitsProcessDead(o)
        PROVE  SPInv'
    BY <2>5, EmitsProcessDeadInv
  <2>6. CASE Environment
    BY <2>6, EnvironmentInv
  <2>7. CASE UNCHANGED spVars
    BY <2>7, StutterInv
  <2> QED  BY <2>1, <2>2, <2>3, <2>4, <2>5, <2>6, <2>7 DEF SPNext
<1> QED  BY <1>1, <1>2, PTL DEF SPSpec

(* Every field of every object keeps its range; in particular no object    *)
(* restarts more often than the limit and no crash count leaves its        *)
(* quint16.                                                                *)
THEOREM SPTypeCorrect == SPSpec => []SPTypeOK
<1>1. SPInv => SPTypeOK
  BY DEF SPInv
<1> QED  BY <1>1, SPInvariance, PTL

(* The pid an object caches is the pid of its own child: no two active     *)
(* objects share it and the host has not forgotten it, for any number of   *)
(* objects and any recycling of pids.                                      *)
THEOREM PidsAreOwnedOnce == SPSpec => []PidsOwnedOnce
<1>1. SPInv => PidsOwnedOnce
  BY DEF SPInv
<1> QED  BY <1>1, SPInvariance, PTL

(* stop() never leaves a running load timer, or a stopped one without the  *)
(* mark that makes processFinished() end the object.                       *)
THEOREM TimerAlwaysMirrorsStop == SPSpec => []TimerMirrorsStop
<1>1. SPInv => TimerMirrorsStop
  BY DEF SPInv
<1> QED  BY <1>1, SPInvariance, PTL

----------------------------------------------------------------------------
(* A step of the objects under an owner that may stop several at once, as  *)
(* the controller does.                                                    *)
SPStep ==
  \/ \E o \in Object :
       \/ \E p \in Pid : Start(o, p) \/ Restart(o, p)
       \/ Started(o)
       \/ EmitsProcessDead(o)
  \/ \E S \in SUBSET Object : Stop(S)
  \/ Environment
  \/ UNCHANGED spVars

LEMMA NextIsStep == [SPNext]_spVars => SPStep
<1>1. ASSUME NEW o \in Object, Stop({o})
      PROVE  SPStep
  BY <1>1 DEF SPStep
<1> QED  BY <1>1 DEF SPNext, SPStep

(* What stop() did to a child stays done: a supervised child that was told *)
(* to end is dead, and its object only has to hear of it.  StopCompletes   *)
(* and the controller's StoppedLeave rest on it.                           *)
StoppedAreDead ==
  \A o \in Object : Active(o) /\ fSelf_Terminate[o] => ~Alive(fProcess_ID[o])

LEMMA StartKeepsDead ==
  ASSUME NEW o \in Object, NEW p \in Pid, SPInv, StoppedAreDead, Start(o, p)
  PROVE  StoppedAreDead'
BY DEF SPInv, SPTypeOK, PidsOwnedOnce, InactiveIsFresh, StoppedAreDead, Start,
       Active, Alive

LEMMA StopKeepsDead ==
  ASSUME NEW S, SPInv, StoppedAreDead, Stop(S)
  PROVE  StoppedAreDead'
<1> SUFFICES ASSUME NEW o \in Object, Active(o)', fSelf_Terminate'[o]
             PROVE  ~Alive(fProcess_ID[o])'
  BY DEF StoppedAreDead
<1>1. Active(o) /\ fProcess_ID' = fProcess_ID /\ fProcess_ID[o] \in Pid
  BY DEF Stop, Active, SPInv, PidsOwnedOnce
<1>2. CASE fSelf_Terminate[o]
  BY <1>1, <1>2 DEF Stop, StoppedAreDead, Alive, SPInv, SPTypeOK
<1>3. CASE ~fSelf_Terminate[o]
  <2>1. o \in {s \in S : Stoppable(s)}
    BY <1>3 DEF Stop, SPInv, SPTypeOK
  <2> QED  BY <1>1, <2>1 DEF Stop, Alive
<1> QED  BY <1>2, <1>3

LEMMA RestartKeepsDead ==
  ASSUME NEW o \in Object, NEW p \in Pid, SPInv, StoppedAreDead, Restart(o, p)
  PROVE  StoppedAreDead'
BY DEF SPInv, SPTypeOK, PidsOwnedOnce, StoppedAreDead, Restart, Unplanned,
       Died, Active, Alive

LEMMA EndKeepsDead ==
  ASSUME NEW o \in Object, SPInv, StoppedAreDead, EmitsProcessDead(o)
  PROVE  StoppedAreDead'
<1>1. EndOfLife(o)
  BY DEF EmitsProcessDead, FailedToStart, NormalExit, SelfTerminated, GiveUp,
         RestartFails
<1> QED  BY <1>1 DEF SPInv, SPTypeOK, PidsOwnedOnce, StoppedAreDead, EndOfLife,
                     Active, Alive

LEMMA StartedKeepsDead ==
  ASSUME NEW o \in Object, SPInv, StoppedAreDead, Started(o)
  PROVE  StoppedAreDead'
BY DEF SPInv, SPTypeOK, StoppedAreDead, Started, Active, Alive

LEMMA EnvironmentKeepsDead ==
  ASSUME SPInv, StoppedAreDead, Environment
  PROVE  StoppedAreDead'
<1>1. UNCHANGED objVars
  BY DEF Environment, Exec, ExecFails, Crash, Exit, Becomes, DatabaseFlips
<1>2. \A p \in Pid : Alive(p)' => Alive(p)
  BY DEF Environment, Exec, ExecFails, Crash, Exit, Becomes, DatabaseFlips,
         Alive, SPInv, SPTypeOK
<1> QED  BY <1>1, <1>2 DEF StoppedAreDead, objVars, Active, SPInv, PidsOwnedOnce

LEMMA StepKeepsDead ==
  ASSUME SPInv, StoppedAreDead, SPStep
  PROVE  StoppedAreDead'
<1>1. CASE UNCHANGED spVars
  BY <1>1 DEF spVars, objVars, StoppedAreDead, Active, Alive
<1> QED  BY <1>1, StartKeepsDead, StopKeepsDead, RestartKeepsDead,
            EndKeepsDead, StartedKeepsDead, EnvironmentKeepsDead DEF SPStep

(* Whatever a stop() races with, it leaves no stopped child alive.         *)
THEOREM StoppedStayDead == SPSpec => []StoppedAreDead
<1>1. SPInit => StoppedAreDead
  BY DEF SPInit, StoppedAreDead, Active
<1>2. SPInv /\ StoppedAreDead /\ [SPNext]_spVars => StoppedAreDead'
  BY StepKeepsDead, NextIsStep
<1> QED  BY <1>1, <1>2, SPInvariance, PTL DEF SPSpec

----------------------------------------------------------------------------
(* A stopped object ends its life or keeps its child.                      *)
EndsOrKeeps(o) ==
  Active(o) /\ fSelf_Terminate[o] =>
    \/ state'[o] = "NotRunning"
    \/ fSelf_Terminate'[o] /\ fProcess_ID'[o] = fProcess_ID[o]

LEMMA StepEndsOrKeeps ==
  ASSUME SPInv, SPStep, NEW o \in Object
  PROVE  EndsOrKeeps(o)
<1> SUFFICES ASSUME Active(o), fSelf_Terminate[o]
             PROVE  \/ state'[o] = "NotRunning"
                    \/ /\ fSelf_Terminate'[o]
                       /\ fProcess_ID'[o] = fProcess_ID[o]
  BY DEF EndsOrKeeps
<1> USE DEF SPInv, SPTypeOK
<1>1. ASSUME NEW s \in Object, NEW p \in Pid, Start(s, p)
      PROVE  fSelf_Terminate'[o] /\ fProcess_ID'[o] = fProcess_ID[o]
  BY <1>1 DEF Start
<1>2. ASSUME NEW s \in Object, NEW p \in Pid, Restart(s, p)
      PROVE  fSelf_Terminate'[o] /\ fProcess_ID'[o] = fProcess_ID[o]
  BY <1>2 DEF Restart, Unplanned
<1>3. ASSUME NEW S \in SUBSET Object, Stop(S)
      PROVE  fSelf_Terminate'[o] /\ fProcess_ID'[o] = fProcess_ID[o]
  BY <1>3 DEF Stop
<1>4. ASSUME NEW s \in Object, Started(s)
      PROVE  fSelf_Terminate'[o] /\ fProcess_ID'[o] = fProcess_ID[o]
  BY <1>4 DEF Started
<1>5. ASSUME NEW s \in Object, EmitsProcessDead(s)
      PROVE  \/ state'[o] = "NotRunning"
             \/ fSelf_Terminate'[o] /\ fProcess_ID'[o] = fProcess_ID[o]
  <2>1. EndOfLife(s)
    BY <1>5 DEF EmitsProcessDead, FailedToStart, NormalExit,
                SelfTerminated, GiveUp, RestartFails
  <2> QED  BY <2>1 DEF EndOfLife
<1>6. CASE Environment
  BY <1>6 DEF Environment, Exec, ExecFails, Crash, Exit, Becomes,
              DatabaseFlips, objVars
<1>7. CASE UNCHANGED spVars
  BY <1>7 DEF spVars, objVars
<1> QED  BY <1>1, <1>2, <1>3, <1>4, <1>5, <1>6, <1>7 DEF SPStep

(* No handler gives a stopped object another child.                        *)
THEOREM StopIsFinal == SPSpec => NoRestartAfterStop
<1>1. SPInv /\ [SPNext]_spVars => [\A o \in Object : EndsOrKeeps(o)]_spVars
  BY NextIsStep, StepEndsOrKeeps
<1> QED  BY <1>1, SPInvariance, PTL DEF SPSpec, NoRestartAfterStop, EndsOrKeeps

----------------------------------------------------------------------------
(* CountCrash moves one count, by one, and not beyond (quint16)-1.         *)
LEMMA CountCrashStep ==
  ASSUME SPTypeOK, NEW m \in Name, CountCrash(m), NEW n \in Name,
         crash_count'[n] # crash_count[n]
  PROVE  /\ n = m
         /\ crash_count'[n] = crash_count[n] + 1 /\ crash_count'[n] <= CountMax
<1>1. /\ n = m /\ crash_count'[n] = crash_count[n] + 1
      /\ crash_count[n] # CountMax /\ crash_count[n] \in 0 .. CountMax
  BY DEF CountCrash, CountReadable, SPTypeOK
<1> QED  BY <1>1, ServerProcessAssumption

(* A count moves by one, for a crash of the name that nobody asked for.    *)
CountsACrash(n) ==
  crash_count'[n] # crash_count[n] =>
    /\ crash_count'[n] = crash_count[n] + 1 /\ crash_count'[n] <= CountMax
    /\ \E o \in Object : /\ fName[o] = n
                         /\ Died(o, "crashed")
                         /\ ~fSelf_Terminate[o]

LEMMA StepCountsACrash ==
  ASSUME SPInv, SPStep, NEW n \in Name
  PROVE  CountsACrash(n)
<1> SUFFICES ASSUME crash_count'[n] # crash_count[n]
             PROVE  /\ crash_count'[n] = crash_count[n] + 1
                    /\ crash_count'[n] <= CountMax
                    /\ \E o \in Object : /\ fName[o] = n
                                         /\ Died(o, "crashed")
                                         /\ ~fSelf_Terminate[o]
  BY DEF CountsACrash
<1>1. PICK o \in Object : GiveUp(o) \/ RestartFails(o) \/ (\E p \in Pid : Restart(o, p))
  BY DEF SPStep, Environment, Start, Stop, Started, EmitsProcessDead,
         FailedToStart, NormalExit, SelfTerminated, Exec, ExecFails, Crash,
         Exit, Becomes, DatabaseFlips, spVars
<1>2. Unplanned(o) /\ CountCrash(fName[o])
  BY <1>1 DEF GiveUp, RestartFails, Restart
<1>3. fName[o] \in Name
  BY ServerProcessAssumption
<1>4. /\ n = fName[o]
      /\ crash_count'[n] = crash_count[n] + 1 /\ crash_count'[n] <= CountMax
  BY <1>2, <1>3, CountCrashStep DEF SPInv
<1> QED  BY <1>2, <1>4 DEF Unplanned

(* crash_count moves by one and only for a crash that nobody asked for.    *)
THEOREM OnlyCrashesCount == SPSpec => CountsOnlyCrashes
<1>1. SPInv /\ [SPNext]_spVars => [\A n \in Name : CountsACrash(n)]_spVars
  BY NextIsStep, StepCountsACrash
<1> QED  BY <1>1, SPInvariance, PTL DEF SPSpec, CountsOnlyCrashes, CountsACrash

============================================================================
