------------------------ MODULE AppControllerProofs ------------------------
(* Proofs about the controller and the objects it owns, for any set of     *)
(* objects, names and pids, any rows in the database and any limits.       *)
EXTENDS AppController, ServerProcessProofs, FiniteSetTheorems

(* A controller that is down has no objects and nothing in hand.           *)
DownIsEmpty ==
  ~up => fServers = {} /\ pending = NoRound /\ server = NoServer

(* Between start() and addPIDToFile() the object either has its child or,  *)
(* when fork failed, the initial pid; the file has then no entry "0".      *)
InHand ==
  server # NoServer =>
    \/ Active(server)
    \/ fProcess_ID[server] = NoPid /\ running_servers[NoPid] = 0

(* FileExact, with the round startServerInstances() is in.                 *)
ExactInRound ==
  up /\ ~drift =>
    \A p \in Pid : running_servers[p] =
      IF Owned(p) /\ ~(server # NoServer /\ fProcess_ID[server] = p)
        THEN 1 ELSE 0

(* The inductive invariant of the controller.                              *)
ACInv ==
  /\ ACTypeOK
  /\ SPInv
  /\ Supervised
  /\ DownIsEmpty
  /\ InHand
  /\ LiveAreListed
  /\ ExactInRound
  /\ StateSynced

LEMMA ACInitInv == ACInit => ACInv
<1> SUFFICES ASSUME ACInit
             PROVE  ACInv
  OBVIOUS
<1>1. SPInv
  BY SPInitInv DEF ACInit
<1>2. LiveAreListed
  <2>1. \A p \in Pid : proc[p] = "none"
    BY DEF ACInit, SPInit
  <2>2. running_servers[NoPid] = 0
    BY DEF ACInit, NoEntry
  <2> QED  BY <2>1, <2>2 DEF LiveAreListed
<1> USE AppControllerAssumption, ServerProcessAssumption DEF ACInit, NoEntry
<1>3. ACTypeOK
  BY <1>1 DEF ACTypeOK, SPInv, NoRound, NoneKnown
<1>4. Supervised
  BY DEF Supervised, SPInit, Active
<1>5. DownIsEmpty /\ InHand /\ ExactInRound /\ StateSynced
  BY DEF DownIsEmpty, InHand, ExactInRound, StateSynced
<1> QED  BY <1>1, <1>2, <1>3, <1>4, <1>5 DEF ACInv

----------------------------------------------------------------------------
(* Steps that leave the map, the file and the column server_state alone    *)
(* and give no object a child or take one from it.                         *)
Quiet ==
  /\ UNCHANGED <<up, server, fServers, running_servers, dbVars, drift>>
  /\ UNCHANGED fProcess_ID
  /\ \A o \in Object : Active(o)' <=> Active(o)
  /\ \A p \in Pid : proc[p] = "none" => proc'[p] = "none"
  /\ pending' \in [Name -> Nat]
  /\ ~up => pending' = pending
  /\ Misses({})

LEMMA QuietInv ==
  ASSUME ACInv, SPInv', Quiet
  PROVE  ACInv'
<1> USE DEF ACInv, Quiet, dbVars
<1>1. ACTypeOK'
  BY DEF ACTypeOK, SPInv, Misses
<1>2. Supervised'
  BY DEF Supervised
<1>3. DownIsEmpty'
  BY DEF DownIsEmpty
<1>4. InHand'
  BY DEF InHand, ACTypeOK
<1>5. LiveAreListed'
  BY DEF LiveAreListed, Misses, ACTypeOK
<1>6. ExactInRound'
  BY DEF ExactInRound, Owned
<1>7. StateSynced'
  BY DEF StateSynced, ServersOf
<1> QED  BY <1>1, <1>2, <1>3, <1>4, <1>5, <1>6, <1>7

LEMMA StopIsQuiet ==
  ASSUME ACInv, NEW S, Stop(S), pending' \in [Name -> Nat],
         ~up => pending' = pending, Misses({}),
         UNCHANGED <<up, server, fServers, running_servers, dbVars, drift>>
  PROVE  SPInv' /\ Quiet
<1>1. SPInv'
  BY StopInv DEF ACInv
<1>2. \A p \in Pid : proc[p] = "none" => proc'[p] = "none"
  BY DEF Stop, Alive
<1> QED  BY <1>1, <1>2 DEF Quiet, Stop, Active

LEMMA DeployType ==
  ASSUME ACInv, NEW n \in Name, DeployServer(n)
  PROVE  pending' \in [Name -> Nat]
BY AppControllerAssumption DEF ACInv, ACTypeOK, DeployServer

LEMMA RequestInv ==
  ASSUME ACInv, NEW n \in Name,
         \/ NewDeployedServer(n)
         \/ NewTakendownServer(n)
         \/ NewConfiguredServer(n)
         \/ ShutdownAllServers
  PROVE  ACInv'
<1>1. CASE NewDeployedServer(n)
  <2>1. SPInv'
    BY <1>1, StutterInv DEF NewDeployedServer, ACInv
  <2>2. Quiet
    BY <1>1, DeployType
       DEF NewDeployedServer, Quiet, spVars, objVars, Idle, Active
  <2> QED  BY <2>1, <2>2, QuietInv
<1>2. CASE NewTakendownServer(n)
  <2>1. SPInv' /\ Quiet
    BY <1>2, StopIsQuiet
       DEF NewTakendownServer, TakedownServer, ctlVars, ACInv, ACTypeOK
  <2> QED  BY <2>1, QuietInv
<1>3. CASE NewConfiguredServer(n)
  <2>1. SPInv' /\ Quiet
    BY <1>3, StopIsQuiet, DeployType
       DEF NewConfiguredServer, TakedownServer, Idle
  <2> QED  BY <2>1, QuietInv
<1>4. CASE ShutdownAllServers
  <2>1. SPInv' /\ Quiet
    BY <1>4, StopIsQuiet DEF ShutdownAllServers, ctlVars, ACInv, ACTypeOK
  <2> QED  BY <2>1, QuietInv
<1> QED  BY <1>1, <1>2, <1>3, <1>4

LEMMA StartedQuiet ==
  ASSUME ACInv, NEW o \in Object, ServerStarted(o)
  PROVE  ACInv'
<1>1. SPInv'
  BY StartedInv DEF ServerStarted, ACInv
<1>2. Quiet
  BY DEF ServerStarted, Started, Quiet, ctlVars, Active, ACInv, ACTypeOK,
         SPTypeOK
<1> QED  BY <1>1, <1>2, QuietInv

LEMMA WorldInv ==
  ASSUME ACInv, World
  PROVE  ACInv'
<1>1. SPInv'
  BY EnvironmentInv DEF World, ACInv
<1>2. \A p \in Pid : proc[p] = "none" => proc'[p] = "none"
  BY DEF World, Environment, Exec, ExecFails, Crash, Exit, Becomes, Alive,
         DatabaseFlips, ACInv, ACTypeOK, SPTypeOK
<1>3. UNCHANGED objVars
  BY DEF World, Environment, Exec, ExecFails, Crash, Exit, Becomes,
         DatabaseFlips
<1>4. Quiet
  BY <1>2, <1>3 DEF World, Quiet, ctlVars, objVars, Active, ACInv, ACTypeOK
<1> QED  BY <1>1, <1>4, QuietInv

----------------------------------------------------------------------------
(* Column server_state.                                                    *)

LEMMA UpdateStateEffect ==
  ASSUME ACInv, NEW n \in Name, NEW v \in {"ONLINE", "OFFLINE"},
         UpdateState(n, v)
  PROVE  /\ server_state' \in [Name -> {"ONLINE", "OFFLINE"}]
         /\ synced' \in [Name -> BOOLEAN]
         /\ n \in Listed /\ synced'[n] => server_state'[n] = v
         /\ \A m \in Name \ {n} : /\ synced'[m] = synced[m]
                                  /\ server_state'[m] = server_state[m]
BY DEF UpdateState, Stored, ACInv, ACTypeOK

(* The two UPDATEs of a round without a child act like the second alone.   *)
LEMMA TwoUpdatesEffect ==
  ASSUME ACInv, NEW n \in Name, NEW acked1 \in BOOLEAN, NEW acked2 \in BOOLEAN,
         server_state' = Stored(Stored(server_state, n, "ONLINE", acked1),
                                n, "OFFLINE", acked2),
         synced' = [synced EXCEPT ![n] = acked2]
  PROVE  /\ server_state' \in [Name -> {"ONLINE", "OFFLINE"}]
         /\ synced' \in [Name -> BOOLEAN]
         /\ n \in Listed /\ synced'[n] => server_state'[n] = "OFFLINE"
         /\ \A m \in Name \ {n} : /\ synced'[m] = synced[m]
                                  /\ server_state'[m] = server_state[m]
BY DEF Stored, ACInv, ACTypeOK

LEMMA NextPortType ==
  ASSUME ACInv, NEW n \in Name, pending[n] > 0, NextPort(n)
  PROVE  pending' \in [Name -> Nat]
<1>1. pending[n] - 1 \in Nat
  BY DEF ACInv, ACTypeOK
<1> QED  BY <1>1 DEF NextPort, ACInv, ACTypeOK

LEMMA RemovePIDType ==
  ASSUME ACInv, NEW p \in Pid \cup {NoPid}
  PROVE  RemovePID(p) \in [Pid \cup {NoPid} -> Nat]
<1>1. running_servers[p] # 0 => running_servers[p] - 1 \in Nat
  BY DEF ACInv, ACTypeOK
<1> QED  BY <1>1 DEF RemovePID, ACInv, ACTypeOK

----------------------------------------------------------------------------
(* One round of startServerInstances().                                    *)

LEMMA SpawnInv ==
  ASSUME ACInv, NEW o \in Object, NEW p \in Pid, Spawn(o, p)
  PROVE  ACInv'
<1> DEFINE n == fName[o]
<1> USE DEF ACInv, Spawn
<1>0. n \in Name /\ n = fName[o]
  BY ServerProcessAssumption
<1>1. SPInv'
  BY StartInv
<1>2. /\ server_state' \in [Name -> {"ONLINE", "OFFLINE"}]
      /\ synced' \in [Name -> BOOLEAN]
      /\ n \in Listed /\ synced'[n] => server_state'[n] = "ONLINE"
      /\ \A m \in Name \ {n} : /\ synced'[m] = synced[m]
                               /\ server_state'[m] = server_state[m]
  BY <1>0, UpdateStateEffect
<1>3. pending' \in [Name -> Nat]
  BY <1>0, NextPortType
<1> HIDE DEF n
<1>4. ACTypeOK'
  BY <1>1, <1>2, <1>3 DEF ACTypeOK, SPInv, Misses
<1>5. /\ state' = [state EXCEPT ![o] = "Starting"]
      /\ fProcess_ID' = [fProcess_ID EXCEPT ![o] = p]
      /\ proc' = [proc EXCEPT ![p] = "forked"]
      /\ proc[p] = "none"
      /\ ~Active(o)
  BY DEF Start
<1>6. /\ Active(o)'
      /\ \A s \in Object \ {o} : Active(s)' <=> Active(s)
      /\ \A s \in Object \ {o} : fProcess_ID'[s] = fProcess_ID[s]
      /\ fProcess_ID'[o] = p
      /\ \A q \in Pid \ {p} : proc'[q] = proc[q]
  BY <1>5 DEF Active, ACTypeOK, SPTypeOK
<1>7. Supervised'
  BY <1>6 DEF Supervised
<1>8. DownIsEmpty' /\ InHand'
  BY <1>6 DEF DownIsEmpty, InHand, Loop
<1>9. LiveAreListed'
  <2>1. /\ server' = o
        /\ o # NoServer
        /\ running_servers' = running_servers
    BY AppControllerAssumption
  <2>2. \A q \in Pid \ {p} : proc'[q] # "none" =>
          running_servers'[q] > 0 \/ q \in unlisted'
    BY <1>6, <2>1 DEF LiveAreListed, Misses, Loop
  <2> QED  BY <1>6, <2>1, <2>2 DEF LiveAreListed
<1>10. ExactInRound'
  <2>1. ~Owned(p)
    BY <1>5 DEF Owned, SPInv, PidsOwnedOnce
  <2>2. \A q \in Pid \ {p} : Owned(q)' <=> Owned(q)
    BY <1>5, <1>6 DEF Owned
  <2> QED  BY <1>6, <2>1, <2>2, AppControllerAssumption DEF ExactInRound, Loop
<1>11. StateSynced'
  <2>1. o \in ServersOf(n)'
    BY <1>0 DEF ServersOf
  <2>2. \A m \in Name \ {n} : ServersOf(m)' = ServersOf(m)
    BY <1>0 DEF ServersOf
  <2> QED
    BY <1>2, <2>1, <2>2, AppControllerAssumption DEF StateSynced, Loop
<1> QED  BY <1>1, <1>4, <1>7, <1>8, <1>9, <1>10, <1>11

LEMMA SpawnForkFailsInv ==
  ASSUME ACInv, NEW o \in Object, SpawnForkFails(o)
  PROVE  ACInv'
<1> DEFINE n == fName[o]
<1> USE DEF ACInv, SpawnForkFails
<1>0. n \in Name /\ n = fName[o]
  BY ServerProcessAssumption
<1>1. SPInv' /\ UNCHANGED spVars
  BY StutterInv DEF StartFails
<1>2. /\ server_state' \in [Name -> {"ONLINE", "OFFLINE"}]
      /\ synced' \in [Name -> BOOLEAN]
      /\ n \in Listed /\ synced'[n] =>
            (server_state'[n] = "ONLINE" <=> ServersOf(n) # {})
      /\ \A m \in Name \ {n} : /\ synced'[m] = synced[m]
                               /\ server_state'[m] = server_state[m]
  <2>1. CASE ServersOf(n) # {}
    <3>1. UpdateState(n, "ONLINE")
      BY <2>1
    <3> QED  BY <1>0, <2>1, <3>1, UpdateStateEffect
  <2>2. CASE ServersOf(n) = {}
    <3>1. PICK acked1 \in BOOLEAN, acked2 \in BOOLEAN :
            /\ server_state' = Stored(Stored(server_state, n, "ONLINE", acked1),
                                      n, "OFFLINE", acked2)
            /\ synced' = [synced EXCEPT ![n] = acked2]
      BY <2>2
    <3> HIDE DEF n
    <3>2. /\ server_state' \in [Name -> {"ONLINE", "OFFLINE"}]
          /\ synced' \in [Name -> BOOLEAN]
          /\ n \in Listed /\ synced'[n] => server_state'[n] = "OFFLINE"
          /\ \A m \in Name \ {n} : /\ synced'[m] = synced[m]
                                   /\ server_state'[m] = server_state[m]
      BY <1>0, <3>1, TwoUpdatesEffect
    <3> QED  BY <2>2, <3>2
  <2> QED  BY <2>1, <2>2
<1>3. pending' \in [Name -> Nat]
  BY <1>0, NextPortType
<1>4. running_servers' \in [Pid \cup {NoPid} -> Nat]
  BY RemovePIDType
<1> HIDE DEF n
<1>5. ACTypeOK'
  BY <1>1, <1>2, <1>3, <1>4 DEF ACTypeOK, SPInv, Misses
<1>6. /\ UNCHANGED <<state, fProcess_ID, proc>>
      /\ \A s \in Object : Active(s)' <=> Active(s)
      /\ \A q \in Pid : Owned(q)' <=> Owned(q)
      /\ ~Active(o)
      /\ fProcess_ID[o] = NoPid
  BY <1>1 DEF spVars, objVars, Active, Owned, StartFails, SPInv,
              InactiveIsFresh
<1>7. /\ running_servers'[NoPid] = 0
      /\ \A q \in Pid : running_servers'[q] = running_servers[q]
  <2>1. running_servers[NoPid] = 0 \/ running_servers[NoPid] = 1
    BY DEF LiveAreListed, ACTypeOK
  <2> QED  BY <2>1, ServerProcessAssumption DEF RemovePID, ACTypeOK
<1>8. Supervised'
  BY <1>6 DEF Supervised
<1>9. DownIsEmpty' /\ InHand'
  BY <1>6, <1>7 DEF DownIsEmpty, InHand, Loop
<1>10. LiveAreListed'
  BY <1>6, <1>7 DEF LiveAreListed, Misses, Loop
<1>11. ExactInRound'
  BY <1>6, <1>7, AppControllerAssumption, ServerProcessAssumption
     DEF ExactInRound, Loop
<1>12. StateSynced'
  <2>1. \A m \in Name : ServersOf(m)' = ServersOf(m)
    BY DEF ServersOf
  <2> QED
    BY <1>0, <1>2, <2>1, AppControllerAssumption DEF StateSynced, Loop
<1> QED  BY <1>1, <1>5, <1>8, <1>9, <1>10, <1>11, <1>12

LEMMA RecordPidInv ==
  ASSUME ACInv, RecordPid
  PROVE  ACInv'
<1> DEFINE p == fProcess_ID[server]
<1> USE DEF ACInv, RecordPid
<1>1. SPInv' /\ UNCHANGED spVars
  BY StutterInv
<1>2. /\ server \in Object
      /\ p \in Pid \cup {NoPid}
      /\ p = fProcess_ID[server]
  BY DEF ACTypeOK, SPTypeOK
<1>3. p \in Pid \/ running_servers[NoPid] = 0
  BY <1>2 DEF InHand, SPInv, PidsOwnedOnce
<1> HIDE DEF p
<1>4. /\ running_servers' = [running_servers EXCEPT ![p] = @ + 1]
      /\ running_servers' \in [Pid \cup {NoPid} -> Nat]
      /\ running_servers'[p] = running_servers[p] + 1
      /\ \A q \in (Pid \cup {NoPid}) \ {p} :
           running_servers'[q] = running_servers[q]
  BY <1>2 DEF AddPID, ACTypeOK
<1>5. /\ UNCHANGED <<state, fProcess_ID, proc>>
      /\ \A s \in Object : Active(s)' <=> Active(s)
      /\ \A q \in Pid : Owned(q)' <=> Owned(q)
  BY <1>1 DEF spVars, objVars, Active, Owned
<1>6. ACTypeOK'
  BY <1>1, <1>4 DEF ACTypeOK, SPInv, Misses, dbVars
<1>7. Supervised'
  BY <1>5 DEF Supervised
<1>8. DownIsEmpty' /\ InHand'
  BY DEF DownIsEmpty, InHand
<1>9. LiveAreListed'
  <2>1. \A q \in Pid : proc'[q] # "none" =>
          running_servers'[q] > 0 \/ q \in unlisted'
    BY <1>2, <1>4, <1>5 DEF LiveAreListed, Misses, ACTypeOK
  <2>2. running_servers'[NoPid] <= 1
    BY <1>2, <1>3, <1>4, ServerProcessAssumption DEF LiveAreListed, ACTypeOK
  <2> QED  BY <2>1, <2>2 DEF LiveAreListed
<1>10. ExactInRound'
  <2>1. SUFFICES ASSUME up, ~drift, NEW q \in Pid
                 PROVE  running_servers'[q] = IF Owned(q) THEN 1 ELSE 0
    BY <1>5 DEF ExactInRound
  <2>2. CASE q # p
    BY <1>2, <1>4, <2>1, <2>2 DEF ExactInRound
  <2>3. CASE q = p
    <3>1. Owned(q)
      BY <1>2, <2>3, ServerProcessAssumption DEF Owned, InHand
    <3> QED  BY <1>2, <1>4, <2>1, <2>3, <3>1 DEF ExactInRound, ACTypeOK
  <2> QED  BY <2>2, <2>3
<1>11. StateSynced'
  BY DEF StateSynced, ServersOf, dbVars
<1> QED  BY <1>1, <1>6, <1>7, <1>8, <1>9, <1>10, <1>11

----------------------------------------------------------------------------
(* Signals of the objects.                                                 *)

LEMMA ProcessDeadInv ==
  ASSUME ACInv, NEW o \in Object, ProcessDead(o)
  PROVE  ACInv'
<1> DEFINE n == fName[o]
<1> USE DEF ACInv, ProcessDead, Dropped
<1>0. n \in Name /\ n = fName[o]
  BY ServerProcessAssumption
<1>1. SPInv'
  BY EmitsProcessDeadInv
<1>2. EndOfLife(o) /\ Active(o)
  BY DEF EmitsProcessDead, FailedToStart, NormalExit, SelfTerminated, GiveUp,
         RestartFails, Unplanned, Died
<1>3. PICK p \in Pid : p = fProcess_ID[o]
  BY <1>2 DEF SPInv, PidsOwnedOnce
<1>4. /\ ~Active(o)'
      /\ \A s \in Object \ {o} : /\ Active(s)' <=> Active(s)
                                /\ fProcess_ID'[s] = fProcess_ID[s]
      /\ proc'[p] = "none"
      /\ \A q \in Pid \ {p} : proc'[q] = proc[q]
  BY <1>2, <1>3 DEF EndOfLife, Active, SPInv, SPTypeOK
<1>5. /\ running_servers' \in [Pid \cup {NoPid} -> Nat]
      /\ running_servers'[p] =
           IF running_servers[p] = 0 THEN 0 ELSE running_servers[p] - 1
      /\ \A q \in (Pid \cup {NoPid}) \ {p} :
           running_servers'[q] = running_servers[q]
  BY <1>3, RemovePIDType DEF RemovePID, ACTypeOK
<1>6. /\ server_state' \in [Name -> {"ONLINE", "OFFLINE"}]
      /\ synced' \in [Name -> BOOLEAN]
      /\ n \in Listed /\ synced'[n] =>
           \/ /\ ~LastOfName(o)
              /\ synced[n]
              /\ server_state'[n] = server_state[n]
           \/ LastOfName(o) /\ server_state'[n] = "OFFLINE"
      /\ \A m \in Name \ {n} : /\ synced'[m] = synced[m]
                               /\ server_state'[m] = server_state[m]
  <2>1. CASE LastOfName(o)
    <3>1. UpdateState(n, "OFFLINE")
      BY <2>1
    <3> QED  BY <1>0, <2>1, <3>1, UpdateStateEffect
  <2>2. CASE ~LastOfName(o)
    BY <2>2 DEF dbVars, ACTypeOK
  <2> QED  BY <2>1, <2>2
<1> HIDE DEF n
<1>7. ACTypeOK'
  BY <1>1, <1>5, <1>6 DEF ACTypeOK, SPInv, Misses, ctlVars
<1>8. Supervised'
  BY <1>4 DEF Supervised
<1>9. DownIsEmpty' /\ InHand'
  BY DEF DownIsEmpty, InHand, Idle, ctlVars
<1>10. LiveAreListed'
  <2>1. running_servers'[NoPid] <= 1
    BY <1>3, <1>5, ServerProcessAssumption DEF LiveAreListed
  <2>2. \A q \in Pid : proc'[q] # "none" =>
          running_servers'[q] > 0 \/ q \in unlisted'
    BY <1>4, <1>5 DEF LiveAreListed, Misses, Idle
  <2> QED  BY <2>1, <2>2 DEF LiveAreListed
<1>11. ExactInRound'
  <2>1. Owned(p) /\ ~Owned(p)'
    <3>1. \A s \in Object \ {o} : Active(s) => fProcess_ID[s] # p
      BY <1>2, <1>3 DEF SPInv, PidsOwnedOnce
    <3>2. Owned(p)
      BY <1>2, <1>3 DEF Owned
    <3> QED  BY <3>1, <3>2, <1>4 DEF Owned
  <2>2. \A q \in Pid \ {p} : Owned(q)' <=> Owned(q)
    BY <1>3, <1>4 DEF Owned
  <2>3. SUFFICES ASSUME up, ~drift, NEW q \in Pid
                 PROVE  running_servers'[q] = IF Owned(q)' THEN 1 ELSE 0
    BY DEF ExactInRound, Idle, ctlVars
  <2>4. CASE q = p
    <3>1. running_servers[p] = 1
      BY <1>3, <2>1, <2>3 DEF ExactInRound, Idle
    <3> QED  BY <1>5, <2>1, <2>4, <3>1
  <2>5. CASE q # p
    BY <1>5, <2>2, <2>3, <2>5 DEF ExactInRound, Idle
  <2> QED  BY <2>4, <2>5
<1>12. StateSynced'
  <2>1. ServersOf(n)' # {} <=> ~LastOfName(o)
    BY <1>0 DEF ServersOf, LastOfName
  <2>2. ServersOf(n) # {}
    BY <1>0, <1>2 DEF ServersOf, Supervised
  <2>3. \A m \in Name \ {n} : ServersOf(m)' = ServersOf(m)
    BY <1>0 DEF ServersOf
  <2> QED
    BY <1>0, <1>6, <2>1, <2>2, <2>3, AppControllerAssumption
       DEF StateSynced, Idle
<1> QED  BY <1>1, <1>7, <1>8, <1>9, <1>10, <1>11, <1>12

LEMMA ServerRestartedInv ==
  ASSUME ACInv, NEW o \in Object, NEW p \in Pid, ServerRestarted(o, p)
  PROVE  ACInv'
<1> USE DEF ACInv, ServerRestarted
<1>1. SPInv'
  BY RestartInv
<1>2. /\ \A s \in Object : Active(s)' <=> Active(s)
      /\ \A q \in Pid \ {p} : proc'[q] # "none" => proc[q] # "none"
  BY DEF Restart, Unplanned, Died, Active, SPInv, SPTypeOK
<1>3. ACTypeOK'
  BY <1>1 DEF ACTypeOK, SPInv, Misses, ctlVars, dbVars
<1>4. Supervised'
  BY <1>2 DEF Supervised
<1>5. DownIsEmpty' /\ InHand' /\ ExactInRound'
  BY DEF DownIsEmpty, InHand, ExactInRound, Idle, ctlVars
<1>6. LiveAreListed'
  BY <1>2 DEF LiveAreListed, Misses, Idle
<1>7. StateSynced'
  BY DEF StateSynced, ServersOf, ctlVars, dbVars
<1> QED  BY <1>1, <1>3, <1>4, <1>5, <1>6, <1>7

----------------------------------------------------------------------------
(* The life of the controller.                                             *)

LEMMA StartupInv ==
  ASSUME ACInv, StartupAllServers
  PROVE  ACInv'
<1> USE DEF ACInv, StartupAllServers
<1>1. fServers = {} /\ server = NoServer /\ (\A o \in Object : ~Active(o))
  BY DEF Supervised, DownIsEmpty
<1>2. /\ \A o \in Object : ~Active(o)'
      /\ \A p \in Pid : ~Owned(p)'
  BY <1>1 DEF Active, Owned, objVars
<1>3. SPInv'
  <2>1. SPTypeOK'
    BY DEF SPInv, SPTypeOK, ProcStatus, objVars
  <2>2. PidsOwnedOnce' /\ TimerMirrorsStop'
    BY <1>2 DEF PidsOwnedOnce, TimerMirrorsStop
  <2>3. InactiveIsFresh'
    BY <1>1 DEF SPInv, InactiveIsFresh, objVars
  <2> QED  BY <2>1, <2>2, <2>3 DEF SPInv
<1>4. ACTypeOK'
  BY <1>3, AppControllerAssumption
     DEF ACTypeOK, SPInv, Misses, NoEntry, NoRound, NoneKnown
<1>5. Supervised' /\ DownIsEmpty' /\ InHand'
  BY <1>1, <1>2 DEF Supervised, DownIsEmpty, InHand
<1>6. LiveAreListed'
  <2>1. \A p \in Pid : proc'[p] # "none" =>
          /\ proc[p] # "none"
          /\ running_servers[p] = 0
    BY DEF Killed, ACTypeOK, SPTypeOK
  <2>2. \A p \in Pid : proc'[p] # "none" => p \in unlisted'
    BY <1>1, <2>1 DEF LiveAreListed, Misses
  <2>3. running_servers'[NoPid] <= 1
    BY DEF NoEntry
  <2> QED  BY <2>2, <2>3 DEF LiveAreListed
<1>7. ExactInRound'
  BY <1>2 DEF ExactInRound, NoEntry
<1>8. StateSynced'
  BY AppControllerAssumption DEF StateSynced, NoneKnown
<1> QED  BY <1>3, <1>4, <1>5, <1>6, <1>7, <1>8

LEMMA GoneInv ==
  ASSUME ACInv, ControllerGone,
         proc' \in [Pid -> ProcStatus],
         crash_count' \in [Name -> 0 .. CountMax],
         running_servers' \in [Pid \cup {NoPid} -> Nat],
         running_servers'[NoPid] <= 1,
         unlisted' \subseteq Pid,
         \A p \in Pid : proc'[p] # "none" =>
           running_servers'[p] > 0 \/ p \in unlisted'
  PROVE  ACInv'
<1> USE DEF ACInv, ControllerGone
<1>1. \A o \in Object : ~Active(o)'
  BY DEF Active
<1>2. SPInv'
  <2>1. SPTypeOK'
    BY ServerProcessAssumption DEF ACTypeOK, SPTypeOK
  <2>2. PidsOwnedOnce' /\ TimerMirrorsStop'
    BY <1>1 DEF PidsOwnedOnce, TimerMirrorsStop
  <2>3. InactiveIsFresh'
    BY DEF InactiveIsFresh
  <2> QED  BY <2>1, <2>2, <2>3 DEF SPInv
<1>3. ACTypeOK'
  BY <1>2 DEF ACTypeOK, SPInv, NoRound, dbVars
<1>4. Supervised'
  BY <1>1 DEF Supervised
<1>5. DownIsEmpty' /\ InHand' /\ ExactInRound' /\ StateSynced'
  BY DEF DownIsEmpty, InHand, ExactInRound, StateSynced
<1>6. LiveAreListed'
  BY DEF LiveAreListed
<1> QED  BY <1>2, <1>3, <1>4, <1>5, <1>6

LEMMA DestroyInv ==
  ASSUME ACInv, DestroyController
  PROVE  ACInv'
<1> USE DEF ACInv, DestroyController
<1>1. /\ proc' \in [Pid -> ProcStatus]
      /\ \A p \in Pid : proc'[p] # "none" => proc[p] # "none"
  BY DEF ACTypeOK, SPTypeOK, ProcStatus
<1>2. \A p \in Pid : proc'[p] # "none" =>
        running_servers'[p] > 0 \/ p \in unlisted'
  BY <1>1 DEF LiveAreListed, Misses, Idle
<1>3. unlisted' \subseteq Pid
  BY DEF Misses, ACTypeOK
<1> QED  BY <1>1, <1>2, <1>3, GoneInv DEF ACTypeOK, SPTypeOK, LiveAreListed

LEMMA OrphanedEffect ==
  ASSUME ACInv, Orphaned
  PROVE  /\ proc' \in [Pid -> ProcStatus]
         /\ \A p \in Pid : proc'[p] # "none" => proc[p] # "none"
BY DEF Orphaned, ACInv, ACTypeOK, SPTypeOK, ProcStatus

LEMMA ControllerCrashInv ==
  ASSUME ACInv, ControllerCrash
  PROVE  ACInv'
<1> USE DEF ACInv, ControllerCrash
<1>1. /\ proc' \in [Pid -> ProcStatus]
      /\ \A p \in Pid : proc'[p] # "none" => proc[p] # "none"
  BY OrphanedEffect
<1>2. \A p \in Pid : proc'[p] # "none" =>
        running_servers'[p] > 0 \/ p \in unlisted'
  BY <1>1 DEF LiveAreListed, Misses
<1>3. unlisted' \subseteq Pid
  BY DEF Misses, ACTypeOK
<1> QED  BY <1>1, <1>2, <1>3, GoneInv DEF ACTypeOK, SPTypeOK, LiveAreListed

LEMMA CrashInRewriteInv ==
  ASSUME ACInv, CrashInRewrite
  PROVE  ACInv'
<1> USE DEF ACInv, CrashInRewrite
<1>1. /\ proc' \in [Pid -> ProcStatus]
      /\ \A p \in Pid : proc'[p] # "none" => proc[p] # "none"
  BY OrphanedEffect
<1>2. crash_count' \in [Name -> 0 .. CountMax]
  <2>1. CASE UNCHANGED crash_count
    BY <2>1 DEF ACTypeOK, SPTypeOK
  <2>2. CASE \E o \in Object : CountCrash(fName[o])
    BY <2>2, CountCrashType, ServerProcessAssumption DEF ACTypeOK
  <2> QED  BY <2>1, <2>2 DEF ACTypeOK
<1>3. /\ running_servers' \in [Pid \cup {NoPid} -> Nat]
      /\ running_servers'[NoPid] <= 1
  BY DEF NoEntry
<1>4. \A p \in Pid : proc'[p] # "none" =>
        running_servers'[p] > 0 \/ p \in unlisted'
  BY DEF Misses
<1>5. unlisted' \subseteq Pid
  BY DEF Misses, ACTypeOK
<1> QED  BY <1>1, <1>2, <1>3, <1>4, <1>5, GoneInv

----------------------------------------------------------------------------
LEMMA ACStutterInv ==
  ASSUME ACInv, UNCHANGED vars
  PROVE  ACInv'
<1> USE DEF ACInv, vars, acVars, ctlVars, dbVars
<1>1. SPInv'
  BY StutterInv
<1>2. UNCHANGED <<state, fProcess_ID, proc>>
  BY DEF spVars, objVars
<1>3. ACTypeOK' /\ DownIsEmpty'
  BY <1>1 DEF ACTypeOK, SPInv, DownIsEmpty
<1>4. Supervised' /\ InHand'
  BY <1>2 DEF Supervised, InHand, Active
<1>5. LiveAreListed' /\ StateSynced'
  BY <1>2 DEF LiveAreListed, StateSynced, ServersOf
<1>6. ExactInRound'
  BY <1>2 DEF ExactInRound, Owned, Active
<1> QED  BY <1>1, <1>3, <1>4, <1>5, <1>6

THEOREM ACInvariance == ACSpec => []ACInv
<1>1. ACInit => ACInv
  BY ACInitInv
<1>2. ACInv /\ [ACNext]_vars => ACInv'
  <2> SUFFICES ASSUME ACInv, [ACNext]_vars
               PROVE  ACInv'
    OBVIOUS
  <2>1. CASE StartupAllServers
    BY <2>1, StartupInv
  <2>2. CASE LoopStep
    BY <2>2, SpawnInv, SpawnForkFailsInv, RecordPidInv DEF LoopStep
  <2>3. ASSUME NEW n \in Name,
               \/ NewDeployedServer(n)
               \/ NewTakendownServer(n)
               \/ NewConfiguredServer(n)
        PROVE  ACInv'
    BY <2>3, RequestInv
  <2>4. CASE ShutdownAllServers
    <3>1. SPInv' /\ Quiet
      BY <2>4, StopIsQuiet DEF ShutdownAllServers, ctlVars, ACInv, ACTypeOK
    <3> QED  BY <3>1, QuietInv
  <2>5. ASSUME NEW o \in Object, Handle(o) \/ ServerStarted(o)
        PROVE  ACInv'
    BY <2>5, ProcessDeadInv, ServerRestartedInv, StartedQuiet DEF Handle
  <2>6. CASE DestroyController
    BY <2>6, DestroyInv
  <2>7. CASE ControllerCrash
    BY <2>7, ControllerCrashInv
  <2>8. CASE CrashInRewrite
    BY <2>8, CrashInRewriteInv
  <2>9. CASE World
    BY <2>9, WorldInv
  <2>10. CASE UNCHANGED vars
    BY <2>10, ACStutterInv
  <2> QED
    BY <2>1, <2>2, <2>3, <2>4, <2>5, <2>6, <2>7, <2>8, <2>9, <2>10 DEF ACNext
<1> QED  BY <1>1, <1>2, PTL DEF ACSpec

(* All fields of the controller keep their ranges; no entry count of the   *)
(* file and no round counter drops below zero.                             *)
THEOREM ACTypeCorrect == ACSpec => []ACTypeOK
<1>1. ACInv => ACTypeOK
  BY DEF ACInv
<1> QED  BY <1>1, ACInvariance, PTL

(* The map fServers holds exactly the objects that have a child.           *)
THEOREM AlwaysSupervised == ACSpec => []Supervised
<1>1. ACInv => Supervised
  BY DEF ACInv
<1> QED  BY <1>1, ACInvariance, PTL

(* The file lists every live process but those lost in one of three known  *)
(* ways, across any number of controller crashes and recycled pids.        *)
THEOREM AlwaysListed == ACSpec => []LiveAreListed
<1>1. ACInv => LiveAreListed
  BY DEF ACInv
<1> QED  BY <1>1, ACInvariance, PTL

(* Until the first restart the file lists the supervised children, each    *)
(* once, and nothing else.                                                 *)
THEOREM FileIsExact == ACSpec => []FileExact
<1>1. ACInv => FileExact
  BY DEF ACInv, ExactInRound, FileExact
<1> QED  BY <1>1, ACInvariance, PTL

(* The column server_state is right whenever its last UPDATE was stored.   *)
THEOREM StateIsSynced == ACSpec => []StateSynced
<1>1. ACInv => StateSynced
  BY DEF ACInv
<1> QED  BY <1>1, ACInvariance, PTL

----------------------------------------------------------------------------
(* What startupAllServers() finds alive after its cleanup is what the file *)
(* never told it of.                                                       *)
THEOREM CleanupIsComplete == ACSpec => CleanupComplete
<1>1. ACInv /\ [ACNext]_vars =>
        [~up /\ up' => \A p \in Pid : proc'[p] # "none" => p \in unlisted]_vars
  <2> SUFFICES ASSUME ACInv, ACNext, ~up, up', NEW p \in Pid, proc'[p] # "none"
               PROVE  p \in unlisted
    OBVIOUS
  <2>1. StartupAllServers
    <3>1. World => up' = up
      BY DEF World, ctlVars
    <3>2. LoopStep => up' = up
      BY DEF LoopStep, Spawn, SpawnForkFails, RecordPid
    <3>3. (DestroyController \/ ControllerCrash \/ CrashInRewrite) => up
      BY DEF DestroyController, ControllerCrash, CrashInRewrite, ControllerGone
    <3>4. \A n \in Name : NewDeployedServer(n) \/ NewTakendownServer(n)
                           \/ NewConfiguredServer(n) => up
      BY DEF NewDeployedServer, NewTakendownServer, NewConfiguredServer, Idle
    <3>5. ShutdownAllServers => up
      BY DEF ShutdownAllServers, Idle
    <3>6. \A o \in Object : Handle(o) \/ ServerStarted(o) => up
      BY DEF Handle, ProcessDead, ServerRestarted, ServerStarted, Idle
    <3> QED  BY <3>1, <3>2, <3>3, <3>4, <3>5, <3>6 DEF ACNext
  <2>2. proc[p] # "none" /\ running_servers[p] = 0
    BY <2>1 DEF StartupAllServers, Killed, ACInv, ACTypeOK, SPTypeOK
  <2> QED  BY <2>2 DEF ACInv, LiveAreListed, DownIsEmpty
<1> QED  BY <1>1, ACInvariance, PTL DEF ACSpec, CleanupComplete

(* TAKEDOWN and CONFIGURE kill the children of the name, all of them, and  *)
(* leave all others alone.                                                 *)
THEOREM TakedownIsExact == ACSpec => TakedownHitsName
<1>1. ACInv => [\A n \in Name : NewTakendownServer(n) \/ NewConfiguredServer(n) =>
         \A o \in fServers :
           /\ fName[o] = n => fSelf_Terminate'[o] /\ ~(Alive(fProcess_ID[o]))'
           /\ fName[o] # n => proc'[fProcess_ID[o]] = proc[fProcess_ID[o]]]_vars
  <2> SUFFICES ASSUME ACInv, NEW n \in Name,
                      NewTakendownServer(n) \/ NewConfiguredServer(n),
                      NEW o \in fServers
               PROVE  /\ fName[o] = n => fSelf_Terminate'[o] /\ ~(Alive(fProcess_ID[o]))'
                      /\ fName[o] # n => proc'[fProcess_ID[o]] = proc[fProcess_ID[o]]
    OBVIOUS
  <2> DEFINE S    == ServersOf(n)
             hit  == {s \in S : Stoppable(s)}
             pids == {fProcess_ID[s] : s \in hit}
  <2>1. /\ fSelf_Terminate' = [s \in Object |-> fSelf_Terminate[s] \/ s \in hit]
        /\ proc' = [p \in Pid |-> IF p \in pids /\ Alive(p) THEN "crashed" ELSE proc[p]]
        /\ fProcess_ID' = fProcess_ID
    BY DEF NewTakendownServer, NewConfiguredServer, TakedownServer, Stop
  <2>2. \A s \in fServers : s \in Object /\ Active(s) /\ Stoppable(s)
    BY DEF ACInv, Supervised, ACTypeOK, SPTypeOK, Active, Stoppable
  <2>3. fProcess_ID[o] \in Pid
    BY <2>2 DEF ACInv, SPInv, PidsOwnedOnce
  <2>4. ASSUME fName[o] = n
        PROVE  fSelf_Terminate'[o] /\ ~(Alive(fProcess_ID[o]))'
    <3>1. o \in hit /\ fProcess_ID[o] \in pids
      BY <2>2, <2>4 DEF ServersOf
    <3>2. proc'[fProcess_ID[o]] \notin {"forked", "live"}
      BY <2>1, <2>3, <3>1 DEF Alive
    <3> QED  BY <2>1, <2>2, <3>1, <3>2 DEF Alive
  <2>5. ASSUME fName[o] # n
        PROVE  proc'[fProcess_ID[o]] = proc[fProcess_ID[o]]
    <3>1. \A s \in hit : s # o /\ s \in Object /\ Active(s)
      BY <2>2, <2>5 DEF ServersOf
    <3>2. fProcess_ID[o] \notin pids
      BY <2>2, <3>1 DEF ACInv, SPInv, PidsOwnedOnce
    <3> QED  BY <2>1, <2>3, <3>2
  <2> QED  BY <2>4, <2>5
<1> QED  BY <1>1, ACInvariance, PTL DEF TakedownHitsName

----------------------------------------------------------------------------
(* What the objects promise whoever owns them holds with the controller as *)
(* their owner, through its crashes and restarts.                          *)

Gone == DestroyController \/ ControllerCrash \/ CrashInRewrite

(* To the objects a step of the controller is one of theirs, the cleanup   *)
(* of an earlier controller's children, or the end of all objects.         *)
LEMMA ControllerStep ==
  ASSUME ACInv, [ACNext]_vars
  PROVE  SPStep \/ StartupAllServers \/ Gone
<1>1. CASE LoopStep
  BY <1>1 DEF LoopStep, Spawn, SpawnForkFails, StartFails, RecordPid, SPStep
<1>2. ASSUME NEW n \in Name, \/ NewDeployedServer(n) \/ NewTakendownServer(n)
                             \/ NewConfiguredServer(n)
      PROVE  SPStep
  <2>1. \/ UNCHANGED spVars
        \/ \E S \in SUBSET fServers : Stop(S)
    BY <1>2 DEF NewDeployedServer, NewTakendownServer, NewConfiguredServer,
                TakedownServer, ServersOf
  <2> QED  BY <2>1 DEF SPStep, ACInv, ACTypeOK
<1>3. CASE ShutdownAllServers
  BY <1>3 DEF ShutdownAllServers, SPStep, ACInv, ACTypeOK
<1>4. ASSUME NEW o \in Object, Handle(o) \/ ServerStarted(o)
      PROVE  SPStep
  BY <1>4 DEF Handle, ProcessDead, ServerRestarted, ServerStarted, SPStep
<1>5. CASE World \/ UNCHANGED vars
  BY <1>5 DEF World, vars, SPStep
<1> QED  BY <1>1, <1>2, <1>3, <1>4, <1>5 DEF ACNext, Gone

LEMMA GoneEndsAll ==
  ASSUME Gone
  PROVE  /\ state' = [o \in Object |-> "NotRunning"]
         /\ fSelf_Terminate' = [o \in Object |-> FALSE]
BY DEF Gone, DestroyController, ControllerCrash, CrashInRewrite, ControllerGone

(* No two servers of the controller share a child.                         *)
THEOREM ControllerPidsOwnedOnce == ACSpec => []PidsOwnedOnce
<1>1. ACInv => PidsOwnedOnce
  BY DEF ACInv, SPInv
<1> QED  BY <1>1, ACInvariance, PTL

(* A server in the map that was told to stop is dead: StoppedLeave needs   *)
(* nothing but the event loop to hear of it.                               *)
THEOREM ControllerStoppedStayDead == ACSpec => []StoppedAreDead
<1>1. ACInit => StoppedAreDead
  BY DEF ACInit, SPInit, StoppedAreDead, Active
<1>2. ACInv /\ StoppedAreDead /\ [ACNext]_vars => StoppedAreDead'
  <2> SUFFICES ASSUME ACInv, StoppedAreDead, [ACNext]_vars
               PROVE  StoppedAreDead'
    OBVIOUS
  <2>1. CASE SPStep
    BY <2>1, StepKeepsDead DEF ACInv
  <2>2. CASE StartupAllServers
    <3>1. UNCHANGED objVars /\ fServers = {}
      BY <2>2 DEF StartupAllServers, ACInv, DownIsEmpty
    <3> QED  BY <3>1 DEF ACInv, Supervised, StoppedAreDead, objVars, Active
  <2>3. CASE Gone
    BY <2>3, GoneEndsAll DEF StoppedAreDead
  <2> QED  BY <2>1, <2>2, <2>3, ControllerStep
<1> QED  BY <1>1, <1>2, ACInvariance, PTL DEF ACSpec

(* No request, no handler and no crash of the controller gives a stopped   *)
(* server another child.                                                   *)
THEOREM ControllerStopIsFinal == ACSpec => NoRestartAfterStop
<1>1. ACInv /\ [ACNext]_vars => [\A o \in Object : EndsOrKeeps(o)]_spVars
  <2> SUFFICES ASSUME ACInv, [ACNext]_vars, NEW o \in Object
               PROVE  EndsOrKeeps(o) \/ UNCHANGED spVars
    BY Zenon
  <2>1. CASE SPStep
    BY <2>1, StepEndsOrKeeps DEF ACInv
  <2>2. CASE StartupAllServers
    BY <2>2 DEF StartupAllServers, EndsOrKeeps, objVars
  <2>3. CASE Gone
    BY <2>3, GoneEndsAll DEF EndsOrKeeps
  <2> QED  BY <2>1, <2>2, <2>3, ControllerStep
<1> QED  BY <1>1, ACInvariance, PTL DEF ACSpec, NoRestartAfterStop, EndsOrKeeps

(* The crash count of a name moves by one for a crash of one of its servers *)
(* that nobody asked for, also when the controller dies as it counts.      *)
THEOREM ControllerCountsOnlyCrashes == ACSpec => CountsOnlyCrashes
<1>1. ACInv /\ [ACNext]_vars => [\A n \in Name : CountsACrash(n)]_spVars
  <2> SUFFICES ASSUME ACInv, [ACNext]_vars, NEW n \in Name
               PROVE  CountsACrash(n) \/ UNCHANGED spVars
    BY Zenon
  <2>1. CASE SPStep
    BY <2>1, StepCountsACrash DEF ACInv
  <2>2. CASE StartupAllServers \/ DestroyController \/ ControllerCrash
    BY <2>2 DEF StartupAllServers, DestroyController, ControllerCrash, CountsACrash
  <2>3. CASE CrashInRewrite
    <3>1. CASE UNCHANGED crash_count
      BY <3>1 DEF CountsACrash
    <3>2. CASE ~UNCHANGED crash_count
      <4>1. PICK o \in fServers : Unplanned(o) /\ CountCrash(fName[o])
        BY <2>3, <3>2 DEF CrashInRewrite
      <4>2. o \in Object /\ fName[o] \in Name
        BY ServerProcessAssumption DEF ACInv, ACTypeOK
      <4> QED  BY <4>1, <4>2, CountCrashStep DEF CountsACrash, Unplanned, ACInv, ACTypeOK
    <3> QED  BY <3>1, <3>2
  <2> QED  BY <2>1, <2>2, <2>3, ControllerStep DEF Gone
<1> QED  BY <1>1, ACInvariance, PTL DEF ACSpec, CountsOnlyCrashes, CountsACrash

----------------------------------------------------------------------------
(* Refinement.                                                             *)

(* The fields of a server in the map, and the child that is its own.       *)
LEMMA ServerFields ==
  ASSUME ACInv, NEW o \in fServers
  PROVE  /\ o \in Object /\ Active(o)
         /\ fProcess_ID[o] \in Pid
         /\ fRetries[o] \in 0 .. RetryLimit
         /\ fSelf_Terminate[o] \in BOOLEAN
         /\ \A s \in fServers : s # o => fProcess_ID[s] # fProcess_ID[o]
<1>1. o \in Object /\ Active(o) /\ \A s \in fServers : s \in Object /\ Active(s)
  BY DEF ACInv, Supervised
<1>2. \A s \in fServers : s # o => fProcess_ID[s] # fProcess_ID[o]
  BY <1>1 DEF ACInv, SPInv, PidsOwnedOnce
<1>3. fProcess_ID[o] \in Pid
  BY <1>1 DEF ACInv, SPInv, PidsOwnedOnce
<1>4. fRetries[o] \in 0 .. RetryLimit /\ fSelf_Terminate[o] \in BOOLEAN
  BY <1>1 DEF ACInv, ACTypeOK, SPTypeOK
<1> QED  BY <1>1, <1>2, <1>3, <1>4

LEMMA InitImplements == ACInit => Abstract!Init
BY DEF ACInit, Abstract!Init, Stopping, Living, Left

(* stop() of some servers: their children are dead from there on.          *)
LEMMA StopImplements ==
  ASSUME ACInv, NEW S \in SUBSET fServers, Stop(S), UNCHANGED fServers
  PROVE  Abstract!Request
<1> DEFINE pids == {fProcess_ID[o] : o \in {s \in S : Stoppable(s)}}
<1>1. \A o \in S : Stoppable(o)
  BY ServerFields DEF Stoppable, ACInv, ACTypeOK, SPTypeOK, Active
<1>2. /\ \A o \in fServers : fSelf_Terminate'[o] <=> fSelf_Terminate[o] \/ o \in S
      /\ UNCHANGED <<fProcess_ID, fRetries>>
  BY <1>1, ServerFields DEF Stop
<1>3. Stopping' = Stopping \cup S /\ Left' = Left
  BY <1>2 DEF Stopping, Left
<1>4. ASSUME NEW o \in fServers
      PROVE  /\ (o \in Living)' => o \in Living
             /\ o \in Living /\ o \notin S => (o \in Living)'
  <2>1. fProcess_ID[o] \in Pid /\ fProcess_ID'[o] = fProcess_ID[o]
    BY <1>2, ServerFields
  <2>2. o \notin S => fProcess_ID[o] \notin pids
    BY ServerFields
  <2>3. proc' = [p \in Pid |-> IF p \in pids /\ Alive(p) THEN "crashed" ELSE proc[p]]
    BY DEF Stop
  <2>4. Alive(fProcess_ID[o])' => Alive(fProcess_ID[o])
    BY <2>1, <2>3 DEF Alive
  <2>5. o \notin S /\ Alive(fProcess_ID[o]) => Alive(fProcess_ID[o])'
    BY <2>1, <2>2, <2>3 DEF Alive
  <2> QED  BY <2>4, <2>5 DEF Living
<1>5. /\ fServers \subseteq Object /\ Stopping' \subseteq fServers
      /\ Living \subseteq fServers /\ Living' \subseteq fServers
  BY <1>3 DEF ACInv, ACTypeOK, Stopping, Living
<1> HIDE DEF pids
<1>6. Living' \subseteq Living /\ Living \ Stopping' \subseteq Living'
  BY <1>3, <1>4, <1>5
<1>7. Left = [o \in fServers |-> Left[o]]
  BY DEF Left
<1> QED  BY <1>3, <1>5, <1>6, <1>7 DEF Abstract!Request

LEMMA SpawnImplements ==
  ASSUME ACInv, NEW o \in Object, NEW p \in Pid, Spawn(o, p)
  PROVE  Abstract!Request
<1>1. /\ o \notin fServers /\ fServers' = fServers \cup {o}
      /\ ~fSelf_Terminate[o] /\ fRetries[o] = 0
      /\ fServers \subseteq Object
  <2>1. ~Active(o) /\ fServers' = fServers \cup {o}
    BY DEF Spawn, Start
  <2>2. ~fSelf_Terminate[o] /\ fRetries[o] = 0
    BY <2>1 DEF ACInv, SPInv, InactiveIsFresh
  <2>3. o \notin fServers
    BY <2>1 DEF ACInv, Supervised
  <2> QED  BY <2>1, <2>2, <2>3 DEF ACInv, ACTypeOK
<1>2. /\ UNCHANGED <<fRetries, fSelf_Terminate>>
      /\ proc[p] = "none"
      /\ fProcess_ID' = [fProcess_ID EXCEPT ![o] = p]
      /\ proc' = [proc EXCEPT ![p] = "forked"]
  BY DEF Spawn, Start
<1>3. Stopping' = Stopping
  BY <1>1, <1>2 DEF Stopping
<1>4. Left' = [s \in fServers' |-> IF s \in fServers' \ fServers THEN RetryLimit ELSE Left[s]]
  <2>1. RetryLimit - 0 = RetryLimit
    BY ServerProcessAssumption
  <2> QED  BY <1>1, <1>2, <2>1 DEF Left
<1>5. ASSUME NEW s \in fServers
      PROVE  (s \in Living)' <=> s \in Living
  <2>1. s # o /\ s \in Object /\ fProcess_ID[s] \in Pid /\ proc[fProcess_ID[s]] # "none"
    BY <1>1, ServerFields DEF ACInv, SPInv, PidsOwnedOnce
  <2>2. fProcess_ID'[s] = fProcess_ID[s] /\ fProcess_ID[s] # p
    BY <1>2, <2>1 DEF ACInv, ACTypeOK, SPTypeOK
  <2>3. proc'[fProcess_ID[s]] = proc[fProcess_ID[s]]
    BY <1>2, <2>1, <2>2 DEF ACInv, ACTypeOK, SPTypeOK
  <2> QED  BY <1>1, <2>2, <2>3 DEF Living, Alive
<1>6. (o \in Living)'
  <2>1. fProcess_ID'[o] = p /\ proc'[p] = "forked"
    BY <1>2 DEF ACInv, ACTypeOK, SPTypeOK
  <2> QED  BY <1>1, <2>1 DEF Living, Alive
<1>7. Living' = Living \cup {o}
  <2>1. Living \subseteq fServers /\ Living' \subseteq fServers'
    BY DEF Living
  <2> QED  BY <1>1, <1>5, <1>6, <2>1
<1>8. Stopping \subseteq fServers /\ fServers' \ fServers = {o}
  BY <1>1 DEF Stopping
<1> QED  BY <1>1, <1>3, <1>4, <1>7, <1>8 DEF Abstract!Request

LEMMA RestartImplements ==
  ASSUME ACInv, NEW o \in Object, NEW p \in Pid, ServerRestarted(o, p)
  PROVE  o \in fServers /\ Abstract!Relaunch(o)
<1>1. /\ o \in fServers /\ UNCHANGED <<fServers, fSelf_Terminate>>
      /\ ~fSelf_Terminate[o]
      /\ fRetries[o] # RetryLimit
      /\ fRetries' = [fRetries EXCEPT ![o] = @ + 1]
      /\ proc[fProcess_ID[o]] = "crashed"
      /\ proc[p] = "none" \/ p = fProcess_ID[o]
      /\ fProcess_ID' = [fProcess_ID EXCEPT ![o] = p]
      /\ proc' = [proc EXCEPT ![fProcess_ID[o]] = "none", ![p] = "forked"]
  BY DEF ServerRestarted, Restart, Unplanned, Died, ACInv, Supervised
<1>2. o \notin Stopping /\ o \notin Living
  BY <1>1 DEF Stopping, Living, Alive
<1>3. Left[o] > 0 /\ Left' = [Left EXCEPT ![o] = @ - 1]
  <2>1. fRetries'[o] = fRetries[o] + 1
    BY <1>1 DEF ACInv, ACTypeOK, SPTypeOK
  <2>2. \A s \in fServers \ {o} : fRetries'[s] = fRetries[s]
    BY <1>1, ServerFields DEF ACInv, ACTypeOK, SPTypeOK
  <2>3. /\ RetryLimit - fRetries[o] > 0
        /\ RetryLimit - fRetries'[o] = (RetryLimit - fRetries[o]) - 1
    BY <1>1, <2>1, ServerFields, ServerProcessAssumption
  <2>4. \A s \in fServers : Left'[s] = IF s = o THEN Left[s] - 1 ELSE Left[s]
    BY <1>1, <2>2, <2>3 DEF Left
  <2>5. DOMAIN Left = fServers /\ Left' = [s \in fServers |-> Left'[s]]
        /\ Left = [s \in fServers |-> Left[s]]
    BY <1>1 DEF Left
  <2>6. Left[o] > 0
    BY <1>1, <2>3 DEF Left
  <2> HIDE DEF Left
  <2> QED  BY <1>1, <2>4, <2>5, <2>6
<1>4. ASSUME NEW s \in fServers, s # o
      PROVE  (s \in Living)' <=> s \in Living
  <2>1. /\ s \in Object /\ fProcess_ID[s] \in Pid /\ proc[fProcess_ID[s]] # "none"
        /\ fProcess_ID[s] # fProcess_ID[o]
    BY <1>1, <1>4, ServerFields DEF ACInv, SPInv, PidsOwnedOnce
  <2>2. fProcess_ID'[s] = fProcess_ID[s] /\ fProcess_ID[s] # p
    BY <1>1, <1>4, <2>1 DEF ACInv, ACTypeOK, SPTypeOK
  <2>3. proc'[fProcess_ID[s]] = proc[fProcess_ID[s]]
    BY <1>1, <2>1, <2>2 DEF ACInv, ACTypeOK, SPTypeOK
  <2> QED  BY <1>1, <2>2, <2>3 DEF Living, Alive
<1>5. (o \in Living)'
  <2>1. fProcess_ID'[o] = p /\ proc'[p] = "forked"
    BY <1>1 DEF ACInv, ACTypeOK, SPTypeOK
  <2> QED  BY <1>1, <2>1 DEF Living, Alive
<1>6. Living' = Living \cup {o}
  <2>1. Living \subseteq fServers /\ Living' \subseteq fServers
    BY <1>1 DEF Living
  <2> QED  BY <1>1, <1>4, <1>5, <2>1
<1>7. Stopping' = Stopping
  BY <1>1 DEF Stopping
<1> QED  BY <1>1, <1>2, <1>3, <1>6, <1>7 DEF Abstract!Relaunch

LEMMA ProcessDeadImplements ==
  ASSUME ACInv, NEW o \in Object, ProcessDead(o)
  PROVE  o \in fServers /\ Abstract!Drop(o)
<1>1. EndOfLife(o) /\ Active(o) /\ ~Alive(fProcess_ID[o])
  BY DEF ProcessDead, EmitsProcessDead, FailedToStart, NormalExit,
         SelfTerminated, GiveUp, RestartFails, Unplanned, Died, Alive
<1>2. o \in fServers /\ fServers' = fServers \ {o}
  BY <1>1 DEF ACInv, Supervised, ProcessDead, Dropped
<1>3. ASSUME NEW s \in fServers, s # o
      PROVE  /\ fSelf_Terminate'[s] = fSelf_Terminate[s]
             /\ fRetries'[s] = fRetries[s]
             /\ fProcess_ID'[s] = fProcess_ID[s]
             /\ proc'[fProcess_ID[s]] = proc[fProcess_ID[s]]
  BY <1>1, <1>2, <1>3, ServerFields DEF EndOfLife, ACInv, ACTypeOK, SPTypeOK
<1>4. Stopping' = Stopping \ {o}
  BY <1>2, <1>3 DEF Stopping
<1>5. Living' = Living /\ o \notin Living
  BY <1>1, <1>2, <1>3 DEF Living, Alive
<1>6. Left' = [s \in fServers' |-> Left[s]]
  BY <1>2, <1>3 DEF Left
<1> QED  BY <1>2, <1>4, <1>5, <1>6 DEF Abstract!Drop

LEMMA GoneImplements ==
  ASSUME ControllerGone
  PROVE  Abstract!Halt
BY DEF ControllerGone, Abstract!Halt, Stopping, Living, Left

(* A child that ends, asked or not, is the child of one server or of none. *)
LEMMA WorldImplements ==
  ASSUME ACInv, World
  PROVE  \/ \E o \in fServers : Abstract!Die(o)
         \/ UNCHANGED <<fServers, Stopping, Living, Left>>
<1>1. /\ UNCHANGED <<fServers, fSelf_Terminate, fRetries, fProcess_ID>>
      /\ \/ UNCHANGED proc
         \/ \E p \in Pid : Exec(p)
         \/ \E p \in Pid, status \in {"noexec", "crashed", "exited"} :
              Alive(p) /\ Becomes(p, status)
  BY DEF World, Environment, Exec, ExecFails, Crash, Exit, Becomes,
         DatabaseFlips, objVars, Alive
<1>2. Stopping' = Stopping /\ Left' = Left
  BY <1>1 DEF Stopping, Left
<1>3. CASE UNCHANGED proc
  BY <1>1, <1>2, <1>3 DEF Living, Alive
<1>4. ASSUME NEW p \in Pid, Exec(p)
      PROVE  Living' = Living
  <2>1. \A q \in Pid : Alive(q)' <=> Alive(q)
    BY <1>4 DEF Exec, Alive, ACInv, ACTypeOK, SPTypeOK
  <2>2. \A o \in fServers : fProcess_ID[o] \in Pid
    BY ServerFields
  <2> QED  BY <1>1, <2>1, <2>2 DEF Living, Alive
<1>5. ASSUME NEW p \in Pid, NEW status \in {"noexec", "crashed", "exited"},
             Alive(p), Becomes(p, status)
      PROVE  \/ \E o \in fServers : Abstract!Die(o)
             \/ Living' = Living
  <2>1. /\ \A q \in Pid : q # p => proc'[q] = proc[q]
        /\ proc'[p] \notin {"forked", "live"}
    BY <1>5 DEF Becomes, ACInv, ACTypeOK, SPTypeOK
  <2>2. \A s \in fServers : fProcess_ID[s] # p => ((s \in Living)' <=> s \in Living)
    BY <1>1, <2>1, ServerFields DEF Living, Alive
  <2>3. \A s \in fServers : fProcess_ID[s] = p => s \in Living /\ ~(s \in Living)'
    BY <1>1, <1>5, <2>1 DEF Living, Alive
  <2>4. Living \subseteq fServers /\ Living' \subseteq fServers
    BY <1>1 DEF Living
  <2>5. CASE \A s \in fServers : fProcess_ID[s] # p
    BY <2>2, <2>4, <2>5
  <2>6. ASSUME NEW o \in fServers, fProcess_ID[o] = p
        PROVE  Abstract!Die(o)
    <3>1. \A s \in fServers : s # o => fProcess_ID[s] # p
      BY <2>6, ServerFields
    <3>2. Living' = Living \ {o} /\ o \in Living
      BY <2>2, <2>3, <2>4, <2>6, <3>1
    <3> QED  BY <1>1, <1>2, <3>2 DEF Abstract!Die
  <2> QED  BY <2>5, <2>6
<1> QED  BY <1>1, <1>2, <1>3, <1>4, <1>5

(* The controller with its objects, its file, the host and the database    *)
(* behaves like the abstract supervisor: no server is relaunched after a   *)
(* stop, beyond its limit or beside a living child, and none leaves the    *)
(* map before its child is dead, other than with the controller.           *)
THEOREM Implementation == ACSpec => ImplementsSupervision
<1>1. ACInit => Abstract!Init
  BY InitImplements
<1>2. ACInv /\ [ACNext]_vars =>
        [Abstract!Next]_<<fServers, Stopping, Living, Left>>
  <2> SUFFICES ASSUME ACInv, [ACNext]_vars
               PROVE  \/ Abstract!Next
                      \/ UNCHANGED <<fServers, Stopping, Living, Left>>
    OBVIOUS
  <2>1. ASSUME UNCHANGED <<fServers, fSelf_Terminate, fRetries, fProcess_ID, proc>>
        PROVE  UNCHANGED <<fServers, Stopping, Living, Left>>
    BY <2>1 DEF Stopping, Living, Left, Alive
  <2>2. CASE \/ RecordPid \/ UNCHANGED vars
             \/ \E o \in Object : SpawnForkFails(o) \/ ServerStarted(o)
             \/ \E n \in Name : NewDeployedServer(n)
    <3>1. UNCHANGED <<fServers, fSelf_Terminate, fRetries, fProcess_ID, proc>>
      <4>1. CASE \/ RecordPid \/ UNCHANGED vars
                 \/ \E n \in Name : NewDeployedServer(n)
        BY <4>1 DEF RecordPid, vars, acVars, spVars, objVars, NewDeployedServer
      <4>2. CASE \E o \in Object : SpawnForkFails(o) \/ ServerStarted(o)
        BY <4>2 DEF SpawnForkFails, StartFails, ServerStarted, Started,
                    spVars, objVars
      <4> QED  BY <2>2, <4>1, <4>2
    <3> QED  BY <2>1, <3>1
  <2>3. CASE \/ ShutdownAllServers
             \/ \E n \in Name : NewTakendownServer(n)
                               \/ NewConfiguredServer(n)
    <3>1. PICK S \in SUBSET fServers : Stop(S) /\ UNCHANGED fServers
      BY <2>3 DEF ShutdownAllServers, NewTakendownServer, NewConfiguredServer,
                  TakedownServer, ServersOf
    <3> QED  BY <3>1, StopImplements DEF Abstract!Next
  <2>4. CASE \E o \in Object : Handle(o)
    BY <2>4, ProcessDeadImplements, RestartImplements
       DEF Handle, Abstract!Next
  <2>5. CASE \E o \in Object, p \in Pid : Spawn(o, p)
    BY <2>5, SpawnImplements DEF Abstract!Next
  <2>6. CASE DestroyController \/ ControllerCrash \/ CrashInRewrite
    BY <2>6, GoneImplements
       DEF DestroyController, ControllerCrash, CrashInRewrite, Abstract!Next
  <2>7. CASE StartupAllServers
    <3>1. fServers = {} /\ fServers' = {}
      BY <2>7 DEF StartupAllServers, ACInv, DownIsEmpty
    <3> QED  BY <3>1 DEF Stopping, Living, Left
  <2>8. CASE World
    BY <2>8, WorldImplements DEF Abstract!Next
  <2> QED
    BY <2>2, <2>3, <2>4, <2>5, <2>6, <2>7, <2>8 DEF ACNext, LoopStep
<1> QED  BY <1>1, <1>2, ACInvariance, PTL
            DEF ACSpec, ImplementsSupervision, Abstract!Spec

============================================================================
