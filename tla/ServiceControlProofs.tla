------------------------ MODULE ServiceControlProofs ------------------------
(* Proofs about the service's commands and daemons, for any set of processes     *)
(* and users and any number of faults.                                           *)
EXTENDS ServiceControl, TLAPS

(* The inductive invariants of the proofs.                                       *)
Up(d) == pc[d] \in {"loop", "closed"} /\ cmd[d] = "start"
Young(p) == pc[p] \in {"connect", "waiting", "spawn", "init", "unlinked", "bound", "start"}

QuittingPlace ==
  \A p \in Proc :
    /\ quitting[p] => pc[p] \in {"loop", "closed"}
    /\ pc[p] = "closed" => quitting[p]
    /\ main[p] = "twice" => quitting[p]
LinkPlace == \A c \in Proc : link[c] # "none" => pc[c] = "waiting"
HasPathPlace == \A p \in Proc : hasPath[p] => pc[p] \in {"start", "loop", "closed"} /\ cmd[p] = "start"
PathOwner ==
  \A u \in User : path[u] \in Proc =>
    /\ user[path[u]] = u /\ cmd[path[u]] = "start"
    /\ pc[path[u]] \in {"bound", "start", "loop", "closed"}

\* What the patience of the operators adds.
OneYoung == \A p, q \in Proc : Young(p) /\ Young(q) => p = q
QuietStart == \A p, d \in Proc : Young(p) /\ quitting[d] => cmd[p] = "terminate"
Owned == \A d \in Proc : Up(d) => hasPath[d] /\ path[user[d]] = d
Coming ==
  \A p \in Proc :
    /\ pc[p] = "unlinked" => path[user[p]] = NoFile
    /\ pc[p] = "bound" => path[user[p]] = p
    /\ pc[p] = "start" /\ cmd[p] = "start" => path[user[p]] = p /\ hasPath[p]
    /\ pc[p] \in {"spawn", "init", "unlinked", "bound"} => cmd[p] = "start"
Alone ==
  \A p, d \in Proc : Up(d) /\ user[d] = user[p] /\ cmd[p] = "start" =>
    /\ pc[p] \notin {"spawn", "init"}
    /\ ~(pc[p] = "waiting" /\ link[p] \in {"none", "false", "eof"})
Heard ==
  \A c \in Proc : link[c] \in Requests /\ cmd[c] = "start" =>
    Up(peer[c]) /\ user[peer[c]] = user[c]

SCSafeInv == SCTypeOK /\ QuittingPlace /\ OneController
SCPatientInv ==
  /\ SCTypeOK /\ QuittingPlace /\ LinkPlace /\ HasPathPlace /\ PathOwner
  /\ OneYoung /\ QuietStart /\ Owned /\ Coming /\ Alone /\ Heard

LEMMA SCInitInv == SCInit => SCSafeInv /\ SCPatientInv
<1> SUFFICES ASSUME SCInit
             PROVE  SCSafeInv /\ SCPatientInv
  OBVIOUS
<1> USE DEF SCInit
<1>1. SCTypeOK
  <2>1. cmd \in [Proc -> AllCommands]
    BY DEF AllCommands
  <2>2. path \in [User -> Proc \cup {NoFile, Stale}]
    OBVIOUS
  <2>3. faults \in 0 .. MaxFaults
    BY SCAssumption
  <2> QED  BY <2>1, <2>2, <2>3 DEF SCTypeOK, Places
<1>2. QuittingPlace /\ OneController /\ LinkPlace /\ HasPathPlace
  BY DEF QuittingPlace, OneController, LinkPlace, HasPathPlace
<1>3. PathOwner
  BY SCAssumption DEF PathOwner
<1>4. OneYoung /\ QuietStart /\ Owned /\ Coming /\ Alone /\ Heard
  BY DEF OneYoung, QuietStart, Owned, Coming, Alone, Heard, Up, Young, Requests
<1> QED  BY <1>1, <1>2, <1>3, <1>4 DEF SCSafeInv, SCPatientInv

LEMMA EndsType == ASSUME SCTypeOK, NEW p \in Proc, Ends(p), faults' \in 0 .. MaxFaults PROVE SCTypeOK'
BY SCAssumption DEF SCTypeOK, Ends, HangUp, Places, AllCommands, Requests, Replies

LEMMA InvokeType == ASSUME SCTypeOK, NEW p \in Proc, NEW c \in Commands, NEW u \in User, Invoke(p, c, u) PROVE SCTypeOK'
BY SCAssumption DEF SCTypeOK, Invoke, Places, AllCommands, Requests, Replies

LEMMA ConnectType == ASSUME SCTypeOK, NEW p \in Proc, Connect(p) PROVE SCTypeOK'
BY SCAssumption DEF SCTypeOK, Connect, NotAnswered, IsRunning, Accepts, Places, AllCommands, Requests, Replies

LEMMA FinishType == ASSUME SCTypeOK, NEW p \in Proc, Finish(p) PROVE SCTypeOK'
BY SCAssumption DEF SCTypeOK, Finish, NotAnswered, Places, AllCommands, Requests, Replies

LEMMA SpawnType == ASSUME SCTypeOK, NEW p \in Proc, Spawn(p) PROVE SCTypeOK'
BY SCAssumption DEF SCTypeOK, Spawn, Places, AllCommands, Requests, Replies

LEMMA UnlinkType == ASSUME SCTypeOK, NEW p \in Proc, Unlink(p) PROVE SCTypeOK'
BY SCAssumption DEF SCTypeOK, Unlink, Places, AllCommands, Requests, Replies

LEMMA BindType == ASSUME SCTypeOK, NEW p \in Proc, Bind(p) PROVE SCTypeOK'
BY SCAssumption DEF SCTypeOK, Bind, Places, AllCommands, Requests, Replies

LEMMA ListenType == ASSUME SCTypeOK, NEW p \in Proc, Listen(p) PROVE SCTypeOK'
BY SCAssumption DEF SCTypeOK, Listen, Places, AllCommands, Requests, Replies

LEMMA StartType == ASSUME SCTypeOK, NEW p \in Proc, Start(p) PROVE SCTypeOK'
BY SCAssumption DEF SCTypeOK, Start, Places, AllCommands, Requests, Replies

LEMMA NetworkType == ASSUME SCTypeOK, NEW p \in Proc, OpenSession(p) \/ SessionError(p) PROVE SCTypeOK'
BY SCAssumption DEF SCTypeOK, OpenSession, SessionError, Places, AllCommands, Requests, Replies

LEMMA PollType == ASSUME SCTypeOK, NEW p \in Proc, Poll(p) PROVE SCTypeOK'
BY SCAssumption DEF SCTypeOK, Poll, Places, AllCommands, Requests, Replies

LEMMA ServeType == ASSUME SCTypeOK, NEW p \in Proc, NEW c \in Proc, Serve(p, c) PROVE SCTypeOK'
BY SCAssumption DEF SCTypeOK, Serve, Stops, Suspends, Deleted, ServiceFlags, Places, AllCommands, Requests, Replies

LEMMA CloseListenerType == ASSUME SCTypeOK, NEW p \in Proc, CloseListener(p) PROVE SCTypeOK'
BY SCAssumption DEF SCTypeOK, CloseListener, HangUp, Places, AllCommands, Requests, Replies

LEMMA CleanupType == ASSUME SCTypeOK, NEW p \in Proc, Cleanup(p) PROVE SCTypeOK'
BY SCAssumption DEF SCTypeOK, Cleanup, HangUp, Places, AllCommands, Requests, Replies

LEMMA EndsSafe == ASSUME SCSafeInv, NEW p \in Proc, Ends(p), faults' \in 0 .. MaxFaults PROVE SCSafeInv'
<1>1. SCTypeOK'
  BY EndsType DEF SCSafeInv
<1> USE DEF SCSafeInv, SCTypeOK, Ends
<1>2. QuittingPlace'
  BY DEF QuittingPlace, Places
<1>3. OneController'
  BY DEF OneController, QuittingPlace
<1> QED  BY <1>1, <1>2, <1>3 DEF SCSafeInv

LEMMA InvokeSafe == ASSUME SCSafeInv, NEW p \in Proc, NEW c \in Commands, NEW u \in User, Invoke(p, c, u) PROVE SCSafeInv'
<1>1. SCTypeOK'
  BY InvokeType DEF SCSafeInv
<1> USE DEF SCSafeInv, SCTypeOK, Invoke
<1>2. QuittingPlace'
  BY DEF QuittingPlace, Places
<1>3. OneController'
  BY DEF OneController, QuittingPlace
<1> QED  BY <1>1, <1>2, <1>3 DEF SCSafeInv

LEMMA ConnectSafe == ASSUME SCSafeInv, NEW p \in Proc, Connect(p) PROVE SCSafeInv'
<1>1. SCTypeOK'
  BY ConnectType DEF SCSafeInv
<1> USE DEF SCSafeInv, SCTypeOK, Connect, NotAnswered, IsRunning, Accepts
<1>2. QuittingPlace'
  BY DEF QuittingPlace, Places
<1>3. OneController'
  BY DEF OneController, QuittingPlace
<1> QED  BY <1>1, <1>2, <1>3 DEF SCSafeInv

LEMMA FinishSafe == ASSUME SCSafeInv, NEW p \in Proc, Finish(p) PROVE SCSafeInv'
<1>1. SCTypeOK'
  BY FinishType DEF SCSafeInv
<1> USE DEF SCSafeInv, SCTypeOK, Finish, NotAnswered
<1>2. QuittingPlace'
  BY DEF QuittingPlace, Places
<1>3. OneController'
  BY DEF OneController, QuittingPlace
<1> QED  BY <1>1, <1>2, <1>3 DEF SCSafeInv

LEMMA SpawnSafe == ASSUME SCSafeInv, NEW p \in Proc, Spawn(p) PROVE SCSafeInv'
<1>1. SCTypeOK'
  BY SpawnType DEF SCSafeInv
<1> USE DEF SCSafeInv, SCTypeOK, Spawn
<1>2. QuittingPlace'
  BY DEF QuittingPlace, Places
<1>3. OneController'
  BY DEF OneController, QuittingPlace
<1> QED  BY <1>1, <1>2, <1>3 DEF SCSafeInv

LEMMA UnlinkSafe == ASSUME SCSafeInv, NEW p \in Proc, Unlink(p) PROVE SCSafeInv'
<1>1. SCTypeOK'
  BY UnlinkType DEF SCSafeInv
<1> USE DEF SCSafeInv, SCTypeOK, Unlink
<1>2. QuittingPlace'
  BY DEF QuittingPlace, Places
<1>3. OneController'
  BY DEF OneController, QuittingPlace
<1> QED  BY <1>1, <1>2, <1>3 DEF SCSafeInv

LEMMA BindSafe == ASSUME SCSafeInv, NEW p \in Proc, Bind(p) PROVE SCSafeInv'
<1>1. SCTypeOK'
  BY BindType DEF SCSafeInv
<1> USE DEF SCSafeInv, SCTypeOK, Bind
<1>2. QuittingPlace'
  BY DEF QuittingPlace, Places
<1>3. OneController'
  BY DEF OneController, QuittingPlace
<1> QED  BY <1>1, <1>2, <1>3 DEF SCSafeInv

LEMMA ListenSafe == ASSUME SCSafeInv, NEW p \in Proc, Listen(p) PROVE SCSafeInv'
<1>1. SCTypeOK'
  BY ListenType DEF SCSafeInv
<1> USE DEF SCSafeInv, SCTypeOK, Listen
<1>2. QuittingPlace'
  BY DEF QuittingPlace, Places
<1>3. OneController'
  BY DEF OneController, QuittingPlace
<1> QED  BY <1>1, <1>2, <1>3 DEF SCSafeInv

LEMMA StartSafe == ASSUME SCSafeInv, NEW p \in Proc, Start(p) PROVE SCSafeInv'
<1>1. SCTypeOK'
  BY StartType DEF SCSafeInv
<1> USE DEF SCSafeInv, SCTypeOK, Start, PortFree
<1>2. QuittingPlace'
  BY DEF QuittingPlace, Places
<1>3. OneController'
  BY DEF OneController, QuittingPlace
<1> QED  BY <1>1, <1>2, <1>3 DEF SCSafeInv

LEMMA NetworkSafe == ASSUME SCSafeInv, NEW p \in Proc, OpenSession(p) \/ SessionError(p) PROVE SCSafeInv'
<1>1. SCTypeOK'
  BY NetworkType DEF SCSafeInv
<1> USE DEF SCSafeInv, SCTypeOK, OpenSession, SessionError, Opens, PortFree
<1>2. QuittingPlace'
  BY DEF QuittingPlace, Places
<1>3. OneController'
  BY DEF OneController, QuittingPlace
<1> QED  BY <1>1, <1>2, <1>3 DEF SCSafeInv

LEMMA PollSafe == ASSUME SCSafeInv, NEW p \in Proc, Poll(p) PROVE SCSafeInv'
<1>1. SCTypeOK'
  BY PollType DEF SCSafeInv
<1> USE DEF SCSafeInv, SCTypeOK, Poll
<1>2. QuittingPlace'
  BY DEF QuittingPlace, Places
<1>3. OneController'
  BY DEF OneController, QuittingPlace
<1> QED  BY <1>1, <1>2, <1>3 DEF SCSafeInv

LEMMA ServeSafe == ASSUME SCSafeInv, NEW p \in Proc, NEW c \in Proc, Serve(p, c) PROVE SCSafeInv'
<1>1. SCTypeOK'
  BY ServeType DEF SCSafeInv
<1> USE DEF SCSafeInv, SCTypeOK, Serve, Stops, Deleted
<1>2. QuittingPlace'
  BY DEF QuittingPlace, Places
<1>3. OneController'
  BY DEF OneController, QuittingPlace
<1> QED  BY <1>1, <1>2, <1>3 DEF SCSafeInv

LEMMA CloseListenerSafe == ASSUME SCSafeInv, NEW p \in Proc, CloseListener(p) PROVE SCSafeInv'
<1>1. SCTypeOK'
  BY CloseListenerType DEF SCSafeInv
<1> USE DEF SCSafeInv, SCTypeOK, CloseListener
<1>2. QuittingPlace'
  BY DEF QuittingPlace, Places
<1>3. OneController'
  BY DEF OneController, QuittingPlace
<1> QED  BY <1>1, <1>2, <1>3 DEF SCSafeInv

LEMMA CleanupSafe == ASSUME SCSafeInv, NEW p \in Proc, Cleanup(p) PROVE SCSafeInv'
<1>1. SCTypeOK'
  BY CleanupType DEF SCSafeInv
<1> USE DEF SCSafeInv, SCTypeOK, Cleanup
<1>2. QuittingPlace'
  BY DEF QuittingPlace, Places
<1>3. OneController'
  BY DEF OneController, QuittingPlace
<1> QED  BY <1>1, <1>2, <1>3 DEF SCSafeInv

LEMMA InvokePatient ==
  ASSUME patient', SCPatientInv, NEW p \in Proc, NEW c \in Commands, NEW u \in User, Invoke(p, c, u)
  PROVE  SCPatientInv'
<1>1. SCTypeOK'
  BY InvokeType DEF SCPatientInv
<1> USE DEF SCPatientInv, SCTypeOK, Invoke, Settled
<1>2. QuittingPlace'
  BY <1>1 DEF QuittingPlace
<1>3. LinkPlace'
  BY <1>1 DEF LinkPlace, Requests, Replies
<1>4. HasPathPlace'
  BY <1>1 DEF HasPathPlace
<1>5. PathOwner'
  BY <1>1 DEF PathOwner, HasPathPlace
<1>6. OneYoung'
  BY <1>1 DEF OneYoung, Young, QuittingPlace
<1>7. QuietStart'
  BY <1>1 DEF QuietStart, QuittingPlace, OneYoung, Young, LinkPlace
<1>8. Owned'
  BY <1>1 DEF Owned, Up, Coming, Alone, PathOwner, HasPathPlace
<1>9. Coming'
  BY <1>1 DEF Coming, Owned, Up, OneYoung, Young, PathOwner, HasPathPlace
<1>10. Alone'
  BY <1>1 DEF Alone, Up, Owned, Coming, Heard, OneYoung, Young, QuietStart, QuittingPlace, LinkPlace, PathOwner, HasPathPlace, Requests, Replies
<1>11. Heard'
  BY <1>1 DEF Heard, Up, Owned, OneYoung, Young, QuietStart, LinkPlace, PathOwner, HasPathPlace, QuittingPlace, Requests
<1> QED  BY <1>1, <1>2, <1>3, <1>4, <1>5, <1>6, <1>7, <1>8, <1>9, <1>10, <1>11 DEF SCPatientInv

LEMMA ConnectPatient ==
  ASSUME SCPatientInv, NEW p \in Proc, Connect(p)
  PROVE  SCPatientInv'
<1>1. SCTypeOK'
  BY ConnectType DEF SCPatientInv
<1> USE DEF SCPatientInv, SCTypeOK, Connect, NotAnswered, IsRunning, Accepts
<1>2. QuittingPlace'
  BY <1>1 DEF QuittingPlace
<1>3. LinkPlace'
  BY <1>1 DEF LinkPlace, Requests, Replies
<1>4. HasPathPlace'
  BY <1>1 DEF HasPathPlace
<1>5. PathOwner'
  BY <1>1 DEF PathOwner, HasPathPlace
<1>6. OneYoung'
  BY <1>1 DEF OneYoung, Young, QuittingPlace
<1>7. QuietStart'
  BY <1>1 DEF QuietStart, QuittingPlace, OneYoung, Young, LinkPlace
<1>8. Owned'
  BY <1>1 DEF Owned, Up, Coming, Alone, PathOwner, HasPathPlace
<1>9. Coming'
  BY <1>1 DEF Coming, Owned, Up, OneYoung, Young, PathOwner, HasPathPlace
<1>10. Alone'
  <2> SUFFICES ASSUME NEW q \in Proc, NEW d \in Proc, Up(d)', user'[d] = user'[q], cmd'[q] = "start"
               PROVE  /\ pc'[q] \notin {"spawn", "init"}
                      /\ ~(pc'[q] = "waiting" /\ link'[q] \in {"none", "false", "eof"})
    BY DEF Alone
  <2>1. Up(d) /\ user[d] = user[q] /\ cmd[q] = "start" /\ d # p
    BY DEF Up
  <2>2. CASE q # p
    BY <2>1, <2>2 DEF Alone
  <2>3. CASE q = p
    <3>1. pc[d] = "loop"
      BY <2>1, <2>3 DEF Up, QuietStart, QuittingPlace, Young
    <3>2. IsRunning(user[p])
      BY <2>1, <2>3, <3>1 DEF Owned
    <3> QED  BY <2>3, <3>2
  <2> QED  BY <2>2, <2>3
<1>11. Heard'
  <2>1. ASSUME IsRunning(user[p]) PROVE Up(path[user[p]]) /\ user[path[user[p]]] = user[p]
    BY <2>1 DEF PathOwner, HasPathPlace, OneYoung, Young, Up
  <2> QED  BY <1>1, <2>1 DEF Heard, Up
<1> QED  BY <1>1, <1>2, <1>3, <1>4, <1>5, <1>6, <1>7, <1>8, <1>9, <1>10, <1>11 DEF SCPatientInv

LEMMA FinishPatient ==
  ASSUME SCPatientInv, NEW p \in Proc, Finish(p)
  PROVE  SCPatientInv'
<1>1. SCTypeOK'
  BY FinishType DEF SCPatientInv
<1> USE DEF SCPatientInv, SCTypeOK, Finish, NotAnswered
<1>2. QuittingPlace'
  BY <1>1 DEF QuittingPlace
<1>3. LinkPlace'
  BY <1>1 DEF LinkPlace, Requests, Replies
<1>4. HasPathPlace'
  BY <1>1 DEF HasPathPlace
<1>5. PathOwner'
  BY <1>1 DEF PathOwner, HasPathPlace
<1>6. OneYoung'
  BY <1>1 DEF OneYoung, Young, QuittingPlace
<1>7. QuietStart'
  BY <1>1 DEF QuietStart, QuittingPlace, OneYoung, Young, LinkPlace
<1>8. Owned'
  BY <1>1 DEF Owned, Up, Coming, Alone, PathOwner, HasPathPlace
<1>9. Coming'
  BY <1>1 DEF Coming, Owned, Up, OneYoung, Young, PathOwner, HasPathPlace
<1>10. Alone'
  BY <1>1 DEF Alone, Up, Owned, Coming, Heard, OneYoung, Young, QuietStart, QuittingPlace, LinkPlace, PathOwner, HasPathPlace, Requests, Replies
<1>11. Heard'
  BY <1>1 DEF Heard, Up, Owned, OneYoung, Young, QuietStart, LinkPlace, PathOwner, HasPathPlace, QuittingPlace, Requests
<1> QED  BY <1>1, <1>2, <1>3, <1>4, <1>5, <1>6, <1>7, <1>8, <1>9, <1>10, <1>11 DEF SCPatientInv

LEMMA SpawnPatient ==
  ASSUME SCPatientInv, NEW p \in Proc, Spawn(p)
  PROVE  SCPatientInv'
<1>1. SCTypeOK'
  BY SpawnType DEF SCPatientInv
<1> USE DEF SCPatientInv, SCTypeOK, Spawn
<1>2. QuittingPlace'
  BY <1>1 DEF QuittingPlace
<1>3. LinkPlace'
  BY <1>1 DEF LinkPlace, Requests, Replies
<1>4. HasPathPlace'
  BY <1>1 DEF HasPathPlace
<1>5. PathOwner'
  BY <1>1 DEF PathOwner, HasPathPlace
<1>6. OneYoung'
  BY <1>1 DEF OneYoung, Young, QuittingPlace
<1>7. QuietStart'
  BY <1>1 DEF QuietStart, QuittingPlace, OneYoung, Young, LinkPlace
<1>8. Owned'
  BY <1>1 DEF Owned, Up, Coming, Alone, PathOwner, HasPathPlace
<1>9. Coming'
  BY <1>1 DEF Coming, Owned, Up, OneYoung, Young, PathOwner, HasPathPlace
<1>10. Alone'
  BY <1>1 DEF Alone, Up, Owned, Coming, Heard, OneYoung, Young, QuietStart, QuittingPlace, LinkPlace, PathOwner, HasPathPlace, Requests, Replies
<1>11. Heard'
  BY <1>1 DEF Heard, Up, Owned, OneYoung, Young, QuietStart, LinkPlace, PathOwner, HasPathPlace, QuittingPlace, Requests
<1> QED  BY <1>1, <1>2, <1>3, <1>4, <1>5, <1>6, <1>7, <1>8, <1>9, <1>10, <1>11 DEF SCPatientInv

LEMMA UnlinkPatient ==
  ASSUME SCPatientInv, NEW p \in Proc, Unlink(p)
  PROVE  SCPatientInv'
<1>1. SCTypeOK'
  BY UnlinkType DEF SCPatientInv
<1> USE DEF SCPatientInv, SCTypeOK, Unlink
<1>2. QuittingPlace'
  BY <1>1 DEF QuittingPlace
<1>3. LinkPlace'
  BY <1>1 DEF LinkPlace, Requests, Replies
<1>4. HasPathPlace'
  BY <1>1 DEF HasPathPlace
<1>5. PathOwner'
  BY <1>1, SCAssumption DEF PathOwner, HasPathPlace
<1>6. OneYoung'
  BY <1>1 DEF OneYoung, Young, QuittingPlace
<1>7. QuietStart'
  BY <1>1 DEF QuietStart, QuittingPlace, OneYoung, Young, LinkPlace
<1>8. Owned'
  BY <1>1 DEF Owned, Up, Coming, Alone, PathOwner, HasPathPlace
<1>9. Coming'
  BY <1>1 DEF Coming, Owned, Up, OneYoung, Young, PathOwner, HasPathPlace
<1>10. Alone'
  BY <1>1 DEF Alone, Up, Owned, Coming, Heard, OneYoung, Young, QuietStart, QuittingPlace, LinkPlace, PathOwner, HasPathPlace, Requests, Replies
<1>11. Heard'
  BY <1>1 DEF Heard, Up, Owned, OneYoung, Young, QuietStart, LinkPlace, PathOwner, HasPathPlace, QuittingPlace, Requests
<1> QED  BY <1>1, <1>2, <1>3, <1>4, <1>5, <1>6, <1>7, <1>8, <1>9, <1>10, <1>11 DEF SCPatientInv

LEMMA BindPatient ==
  ASSUME SCPatientInv, NEW p \in Proc, Bind(p)
  PROVE  SCPatientInv'
<1>1. SCTypeOK'
  BY BindType DEF SCPatientInv
<1> USE DEF SCPatientInv, SCTypeOK, Bind
<1>2. QuittingPlace'
  BY <1>1 DEF QuittingPlace
<1>3. LinkPlace'
  BY <1>1 DEF LinkPlace, Requests, Replies
<1>4. HasPathPlace'
  BY <1>1 DEF HasPathPlace
<1>5. PathOwner'
  BY <1>1, SCAssumption DEF PathOwner, Coming, HasPathPlace
<1>6. OneYoung'
  BY <1>1 DEF OneYoung, Young, QuittingPlace
<1>7. QuietStart'
  BY <1>1 DEF QuietStart, QuittingPlace, OneYoung, Young, LinkPlace
<1>8. Owned'
  BY <1>1, SCAssumption DEF Owned, Up, Coming, Alone, PathOwner, HasPathPlace
<1>9. Coming'
  BY <1>1 DEF Coming, Owned, Up, OneYoung, Young, PathOwner, HasPathPlace
<1>10. Alone'
  BY <1>1 DEF Alone, Up, Owned, Coming, Heard, OneYoung, Young, QuietStart, QuittingPlace, LinkPlace, PathOwner, HasPathPlace, Requests, Replies
<1>11. Heard'
  BY <1>1 DEF Heard, Up, Owned, OneYoung, Young, QuietStart, LinkPlace, PathOwner, HasPathPlace, QuittingPlace, Requests
<1> QED  BY <1>1, <1>2, <1>3, <1>4, <1>5, <1>6, <1>7, <1>8, <1>9, <1>10, <1>11 DEF SCPatientInv

LEMMA ListenPatient ==
  ASSUME SCPatientInv, NEW p \in Proc, Listen(p)
  PROVE  SCPatientInv'
<1>1. SCTypeOK'
  BY ListenType DEF SCPatientInv
<1> USE DEF SCPatientInv, SCTypeOK, Listen
<1>2. QuittingPlace'
  BY <1>1 DEF QuittingPlace
<1>3. LinkPlace'
  BY <1>1 DEF LinkPlace, Requests, Replies
<1>4. HasPathPlace'
  BY <1>1 DEF HasPathPlace, Coming
<1>5. PathOwner'
  BY <1>1 DEF PathOwner, HasPathPlace
<1>6. OneYoung'
  BY <1>1 DEF OneYoung, Young, QuittingPlace
<1>7. QuietStart'
  BY <1>1 DEF QuietStart, QuittingPlace, OneYoung, Young, LinkPlace
<1>8. Owned'
  BY <1>1 DEF Owned, Up, Coming, Alone, PathOwner, HasPathPlace
<1>9. Coming'
  BY <1>1 DEF Coming, Owned, Up, OneYoung, Young, PathOwner, HasPathPlace
<1>10. Alone'
  BY <1>1 DEF Alone, Up, Owned, Coming, Heard, OneYoung, Young, QuietStart, QuittingPlace, LinkPlace, PathOwner, HasPathPlace, Requests, Replies
<1>11. Heard'
  BY <1>1 DEF Heard, Up, Owned, OneYoung, Young, QuietStart, LinkPlace, PathOwner, HasPathPlace, QuittingPlace, Requests
<1> QED  BY <1>1, <1>2, <1>3, <1>4, <1>5, <1>6, <1>7, <1>8, <1>9, <1>10, <1>11 DEF SCPatientInv

LEMMA StartPatient ==
  ASSUME SCPatientInv, NEW p \in Proc, Start(p)
  PROVE  SCPatientInv'
<1>1. SCTypeOK'
  BY StartType DEF SCPatientInv
<1> USE DEF SCPatientInv, SCTypeOK, Start
<1>2. QuittingPlace'
  BY <1>1 DEF QuittingPlace
<1>3. LinkPlace'
  BY <1>1 DEF LinkPlace, Requests, Replies
<1>4. HasPathPlace'
  BY <1>1 DEF HasPathPlace
<1>5. PathOwner'
  BY <1>1 DEF PathOwner, HasPathPlace
<1>6. OneYoung'
  BY <1>1 DEF OneYoung, Young, QuittingPlace
<1>7. QuietStart'
  BY <1>1 DEF QuietStart, QuittingPlace, OneYoung, Young, LinkPlace
<1>8. Owned'
  BY <1>1 DEF Owned, Up, Coming, Alone, PathOwner, HasPathPlace
<1>9. Coming'
  BY <1>1 DEF Coming, Owned, Up, OneYoung, Young, PathOwner, HasPathPlace
<1>10. Alone'
  BY <1>1 DEF Alone, Up, Owned, Coming, Heard, OneYoung, Young, QuietStart, QuittingPlace, LinkPlace, PathOwner, HasPathPlace, Requests, Replies
<1>11. Heard'
  BY <1>1 DEF Heard, Up, Owned, OneYoung, Young, QuietStart, LinkPlace, PathOwner, HasPathPlace, QuittingPlace, Requests
<1> QED  BY <1>1, <1>2, <1>3, <1>4, <1>5, <1>6, <1>7, <1>8, <1>9, <1>10, <1>11 DEF SCPatientInv

LEMMA PollPatient ==
  ASSUME SCPatientInv, NEW p \in Proc, Poll(p)
  PROVE  SCPatientInv'
<1>1. SCTypeOK'
  BY PollType DEF SCPatientInv
<1> USE DEF SCPatientInv, SCTypeOK, Poll
<1>2. QuittingPlace'
  BY <1>1 DEF QuittingPlace
<1>3. LinkPlace'
  BY <1>1 DEF LinkPlace, Requests, Replies
<1>4. HasPathPlace'
  BY <1>1 DEF HasPathPlace
<1>5. PathOwner'
  BY <1>1 DEF PathOwner, HasPathPlace
<1>6. OneYoung'
  BY <1>1 DEF OneYoung, Young, QuittingPlace
<1>7. QuietStart'
  BY <1>1 DEF QuietStart, QuittingPlace, OneYoung, Young, LinkPlace
<1>8. Owned'
  BY <1>1 DEF Owned, Up, Coming, Alone, PathOwner, HasPathPlace
<1>9. Coming'
  BY <1>1 DEF Coming, Owned, Up, OneYoung, Young, PathOwner, HasPathPlace
<1>10. Alone'
  BY <1>1 DEF Alone, Up, Owned, Coming, Heard, OneYoung, Young, QuietStart, QuittingPlace, LinkPlace, PathOwner, HasPathPlace, Requests, Replies
<1>11. Heard'
  BY <1>1 DEF Heard, Up, Owned, OneYoung, Young, QuietStart, LinkPlace, PathOwner, HasPathPlace, QuittingPlace, Requests
<1> QED  BY <1>1, <1>2, <1>3, <1>4, <1>5, <1>6, <1>7, <1>8, <1>9, <1>10, <1>11 DEF SCPatientInv

LEMMA ServePatient ==
  ASSUME SCPatientInv, NEW p \in Proc, NEW c \in Proc, Serve(p, c)
  PROVE  SCPatientInv'
<1>1. SCTypeOK'
  BY ServeType DEF SCPatientInv
<1> USE DEF SCPatientInv, SCTypeOK, Serve, Stops
<1>2. QuittingPlace'
  BY <1>1 DEF QuittingPlace
<1>3. LinkPlace'
  BY <1>1 DEF LinkPlace, Requests, Replies
<1>4. HasPathPlace'
  BY <1>1 DEF HasPathPlace
<1>5. PathOwner'
  BY <1>1 DEF PathOwner, HasPathPlace
<1>6. OneYoung'
  BY <1>1 DEF OneYoung, Young, QuittingPlace
<1>7. QuietStart'
  BY <1>1 DEF QuietStart, QuittingPlace, OneYoung, Young, LinkPlace
<1>8. Owned'
  BY <1>1 DEF Owned, Up, Coming, Alone, PathOwner, HasPathPlace
<1>9. Coming'
  BY <1>1 DEF Coming, Owned, Up, OneYoung, Young, PathOwner, HasPathPlace
<1>10. Alone'
  BY <1>1 DEF Alone, Up, Owned, Coming, Heard, OneYoung, Young, QuietStart, QuittingPlace, LinkPlace, PathOwner, HasPathPlace, Requests, Replies
<1>11. Heard'
  BY <1>1 DEF Heard, Up, Owned, OneYoung, Young, QuietStart, LinkPlace, PathOwner, HasPathPlace, QuittingPlace, Requests
<1> QED  BY <1>1, <1>2, <1>3, <1>4, <1>5, <1>6, <1>7, <1>8, <1>9, <1>10, <1>11 DEF SCPatientInv

LEMMA CloseListenerPatient ==
  ASSUME SCPatientInv, NEW p \in Proc, CloseListener(p)
  PROVE  SCPatientInv'
<1>1. SCTypeOK'
  BY CloseListenerType DEF SCPatientInv
<1> USE DEF SCPatientInv, SCTypeOK, CloseListener, HangUp
<1>2. QuittingPlace'
  BY <1>1 DEF QuittingPlace
<1>3. LinkPlace'
  BY <1>1 DEF LinkPlace, Requests, Replies
<1>4. HasPathPlace'
  BY <1>1 DEF HasPathPlace
<1>5. PathOwner'
  BY <1>1 DEF PathOwner, HasPathPlace
<1>6. OneYoung'
  BY <1>1 DEF OneYoung, Young, QuittingPlace
<1>7. QuietStart'
  BY <1>1 DEF QuietStart, QuittingPlace, OneYoung, Young, LinkPlace
<1>8. Owned'
  BY <1>1 DEF Owned, Up, Coming, Alone, PathOwner, HasPathPlace
<1>9. Coming'
  BY <1>1 DEF Coming, Owned, Up, OneYoung, Young, PathOwner, HasPathPlace
<1>10. Alone'
  BY <1>1 DEF Alone, Up, Owned, Coming, Heard, OneYoung, Young, QuietStart, QuittingPlace, LinkPlace, PathOwner, HasPathPlace, Requests, Replies
<1>11. Heard'
  BY <1>1 DEF Heard, Up, Owned, OneYoung, Young, QuietStart, LinkPlace, PathOwner, HasPathPlace, QuittingPlace, Requests
<1> QED  BY <1>1, <1>2, <1>3, <1>4, <1>5, <1>6, <1>7, <1>8, <1>9, <1>10, <1>11 DEF SCPatientInv

LEMMA CleanupPatient ==
  ASSUME SCPatientInv, NEW p \in Proc, Cleanup(p)
  PROVE  SCPatientInv'
<1>1. SCTypeOK'
  BY CleanupType DEF SCPatientInv
<1> USE DEF SCPatientInv, SCTypeOK, Cleanup, HangUp
<1>2. QuittingPlace'
  BY <1>1 DEF QuittingPlace
<1>3. LinkPlace'
  BY <1>1 DEF LinkPlace, Requests, Replies
<1>4. HasPathPlace'
  BY <1>1 DEF HasPathPlace
<1>5. PathOwner'
  BY <1>1, SCAssumption DEF PathOwner, Owned, Up, HasPathPlace
<1>6. OneYoung'
  BY <1>1 DEF OneYoung, Young, QuittingPlace
<1>7. QuietStart'
  BY <1>1 DEF QuietStart, QuittingPlace, OneYoung, Young, LinkPlace
<1>8. Owned'
  BY <1>1 DEF Owned, Up, Coming, Alone, PathOwner, HasPathPlace
<1>9. Coming'
  BY <1>1 DEF Coming, Owned, Up, OneYoung, Young, PathOwner, HasPathPlace
<1>10. Alone'
  BY <1>1 DEF Alone, Up, Owned, Coming, Heard, OneYoung, Young, QuietStart, QuittingPlace, LinkPlace, PathOwner, HasPathPlace, Requests, Replies
<1>11. Heard'
  BY <1>1 DEF Heard, Up, Owned, OneYoung, Young, QuietStart, LinkPlace, PathOwner, HasPathPlace, QuittingPlace, Requests
<1> QED  BY <1>1, <1>2, <1>3, <1>4, <1>5, <1>6, <1>7, <1>8, <1>9, <1>10, <1>11 DEF SCPatientInv

LEMMA EndsPatient ==
  ASSUME SCPatientInv, NEW p \in Proc, Ends(p),
         pc[p] \in {"init", "unlinked", "bound", "start", "loop", "closed"}, faults' \in 0 .. MaxFaults
  PROVE  SCPatientInv'
<1>1. SCTypeOK'
  BY EndsType DEF SCPatientInv
<1> USE DEF SCPatientInv, SCTypeOK, Ends, HangUp
<1>2. QuittingPlace'
  BY <1>1 DEF QuittingPlace
<1>3. LinkPlace'
  BY <1>1 DEF LinkPlace, Requests, Replies
<1>4. HasPathPlace'
  BY <1>1 DEF HasPathPlace
<1>5. PathOwner'
  BY <1>1, SCAssumption DEF PathOwner, HasPathPlace
<1>6. OneYoung'
  BY <1>1 DEF OneYoung, Young, QuittingPlace
<1>7. QuietStart'
  BY <1>1 DEF QuietStart, QuittingPlace, OneYoung, Young, LinkPlace
<1>8. Owned'
  BY <1>1 DEF Owned, Up, Coming, Alone, PathOwner, HasPathPlace
<1>9. Coming'
  BY <1>1, SCAssumption DEF Coming, Owned, Up, OneYoung, Young, PathOwner, HasPathPlace
<1>10. Alone'
  BY <1>1 DEF Alone, Up, Owned, Coming, Heard, OneYoung, Young, QuietStart, QuittingPlace, LinkPlace, PathOwner, HasPathPlace, Requests, Replies
<1>11. Heard'
  BY <1>1 DEF Heard, Up, Owned, OneYoung, Young, QuietStart, LinkPlace, PathOwner, HasPathPlace, QuittingPlace, Requests
<1> QED  BY <1>1, <1>2, <1>3, <1>4, <1>5, <1>6, <1>7, <1>8, <1>9, <1>10, <1>11 DEF SCPatientInv

------------------------------------------------------------------------------
LEMMA SCNextSafe == SCSafeInv /\ [SCNext]_vars => SCSafeInv'
<1> SUFFICES ASSUME SCSafeInv, [SCNext]_vars
             PROVE  SCSafeInv'
  OBVIOUS
<1>1. CASE UNCHANGED vars
  BY <1>1 DEF SCSafeInv, SCTypeOK, QuittingPlace, OneController, vars
<1>2. ASSUME NEW p \in Proc, Command(p)
      PROVE  SCSafeInv'
  BY <1>2, InvokeSafe DEF Command
<1>3. ASSUME NEW p \in Proc, Client(p)
      PROVE  SCSafeInv'
  BY <1>3, ConnectSafe, FinishSafe, SpawnSafe DEF Client
<1>4. ASSUME NEW p \in Proc, Ends(p), StartFatal(p) \/ SessionFatal(p) \/ Kill(p) \/ Corrupted(p)
      PROVE  SCSafeInv'
  <2>1. faults' \in 0 .. MaxFaults
    BY <1>4, SCAssumption DEF StartFatal, SessionFatal, Opens, Kill, Corrupted, SCSafeInv, SCTypeOK
  <2> QED  BY <1>4, <2>1, EndsSafe
<1>5. ASSUME NEW p \in Proc, Daemon(p)
      PROVE  SCSafeInv'
  <2>1. CASE StartFatal(p)
    BY <2>1, <1>4 DEF StartFatal
  <2>2. CASE \E c \in Proc : Serve(p, c)
    BY <2>2, ServeSafe
  <2> QED  BY <1>5, <2>1, <2>2, UnlinkSafe, BindSafe, ListenSafe, StartSafe, PollSafe, CloseListenerSafe,
              CleanupSafe DEF Daemon
<1>6. ASSUME NEW p \in Proc, Fault(p)
      PROVE  SCSafeInv'
  BY <1>6, <1>4 DEF Fault, Kill, Corrupted
<1>7. ASSUME NEW p \in Proc, Network(p)
      PROVE  SCSafeInv'
  BY <1>7, <1>4, NetworkSafe DEF Network, SessionFatal
<1> QED  BY <1>1, <1>2, <1>3, <1>5, <1>6, <1>7 DEF SCNext

\* Every variable keeps its type, for any processes, users and commands.
THEOREM SCTypeCorrect == SCSpec => []SCTypeOK
<1>1. SCInit => SCSafeInv
  BY SCInitInv
<1>2. SCSafeInv => SCTypeOK
  BY DEF SCSafeInv
<1> QED  BY <1>1, <1>2, SCNextSafe, PTL DEF SCSpec

\* At most one process on the host's port and a controller exactly in a loop that
\* goes on, whatever commands are given at once, whatever is killed, and whether the
\* host wants a network session opened first or not; if not, at most one controller.
THEOREM SCOneController == SCSpec => []OneController
<1>1. SCInit => SCSafeInv
  BY SCInitInv
<1>2. SCSafeInv => OneController
  BY DEF SCSafeInv
<1> QED  BY <1>1, <1>2, SCNextSafe, PTL DEF SCSpec

LEMMA SCNextPatient == patient' /\ SCPatientInv /\ [SCNext]_vars => SCPatientInv'
<1> SUFFICES ASSUME patient', SCPatientInv, [SCNext]_vars
             PROVE  SCPatientInv'
  OBVIOUS
<1>1. CASE UNCHANGED <<pc, cmd, user, peer, link, hasPath, quitting, main, path>> /\ SCTypeOK'
  BY <1>1 DEF SCPatientInv, QuittingPlace, LinkPlace, HasPathPlace, PathOwner, OneYoung, QuietStart,
     Owned, Coming, Alone, Heard, Up, Young
<1>2. CASE UNCHANGED vars
  BY <1>2, <1>1 DEF vars, SCPatientInv, SCTypeOK
<1>4. ASSUME NEW p \in Proc, NEW c \in Commands, NEW u \in User, Invoke(p, c, u)
      PROVE  SCPatientInv'
  BY <1>4, InvokePatient
<1>5. ASSUME NEW p \in Proc, Client(p)
      PROVE  SCPatientInv'
  BY <1>5, ConnectPatient, FinishPatient, SpawnPatient DEF Client
<1>6. ASSUME NEW p \in Proc, Ends(p), StartFatal(p) \/ SessionFatal(p) \/ Kill(p) \/ Corrupted(p)
      PROVE  SCPatientInv'
  <2>1. faults' \in 0 .. MaxFaults
    BY <1>6, SCAssumption DEF StartFatal, SessionFatal, Opens, Kill, Corrupted, SCPatientInv, SCTypeOK
  <2>2. pc[p] \in {"init", "unlinked", "bound", "start", "loop", "closed"}
    BY <1>6 DEF StartFatal, SessionFatal, Opens, Kill, Corrupted, SCPatientInv, QuittingPlace
  <2> QED  BY <1>6, <2>1, <2>2, EndsPatient
<1>7. ASSUME NEW p \in Proc, Daemon(p)
      PROVE  SCPatientInv'
  <2>1. CASE StartFatal(p)
    BY <2>1, <1>6 DEF StartFatal
  <2>2. CASE \E c \in Proc : Serve(p, c)
    BY <2>2, ServePatient
  <2> QED  BY <1>7, <2>1, <2>2, UnlinkPatient, BindPatient, ListenPatient, StartPatient, PollPatient,
              CloseListenerPatient, CleanupPatient DEF Daemon
<1>8. ASSUME NEW p \in Proc, Fault(p)
      PROVE  SCPatientInv'
  BY <1>8, <1>6 DEF Fault, Kill, Corrupted
<1>9. ASSUME NEW p \in Proc, Network(p)
      PROVE  SCPatientInv'
  <2>1. CASE OpenSession(p) \/ SessionError(p)
    BY <2>1, <1>1, NetworkType DEF OpenSession, SessionError, SCPatientInv
  <2> QED  BY <1>9, <2>1, <1>6 DEF Network, SessionFatal
<1> QED  BY <1>2, <1>4, <1>5, <1>7, <1>8, <1>9 DEF SCNext, Command

\* Patience, once lost, does not come back.
LEMMA PatienceLost == [SCNext]_vars /\ patient' => patient
BY DEF SCNext, Command, Client, Daemon, Fault, Invoke, Connect, Finish, Spawn, Unlink, Bind, Listen, Start,
       StartFatal, Ends, OpenSession, SessionFatal, SessionError, Network, Poll, Serve, CloseListener, Cleanup, Kill, Corrupted,
       vars

LEMMA SCPatience == SCSpec => [](patient => SCPatientInv)
<1>1. SCInit => (patient => SCPatientInv)
  BY SCInitInv
<1>2. (patient => SCPatientInv) /\ [SCNext]_vars => (patient => SCPatientInv)'
  BY PatienceLost, SCNextPatient
<1> QED  BY <1>1, <1>2, PTL DEF SCSpec

\* For operators who wait, isRunning() tells every user the truth, for any number
\* of kills and whatever step they fall between.
THEOREM SCStatusTrue == SCSpec => []StatusTrue
<1>1. (patient => SCPatientInv) => StatusTrue
  <2> SUFFICES ASSUME SCPatientInv, Settled, NEW u \in User
               PROVE  IsRunning(u) <=> \E d \in Proc : Serving(d) /\ user[d] = u
    BY DEF StatusTrue
  <2> USE DEF SCPatientInv, Settled, Serving
  <2>1. ASSUME IsRunning(u)
        PROVE  Serving(path[u]) /\ user[path[u]] = u /\ path[u] \in Proc
    BY <2>1 DEF IsRunning, Accepts, PathOwner
  <2>2. ASSUME NEW d \in Proc, Serving(d), user[d] = u
        PROVE  IsRunning(u)
    BY <2>2 DEF IsRunning, Accepts, Owned, Up
  <2> QED  BY <2>1, <2>2
<1> QED  BY <1>1, SCPatience, PTL

\* And no daemon of theirs ever comes up beside a serving one of the same user.
THEOREM SCStartMeetsNobody == SCSpec => []StartMeetsNobody
<1>1. (patient => SCPatientInv) => StartMeetsNobody
  BY SCAssumption DEF SCPatientInv, StartMeetsNobody, Alone, Coming, Owned, Serving, Up
<1> QED  BY <1>1, SCPatience, PTL

------------------------------------------------------------------------------
(* Nobody waits in vain: what CommandReturns needs besides a schedule.           *)

Processes == {"init", "unlinked", "bound", "start", "loop", "closed"}

\* Whoever a socket file names has bound it, and listens once it is past bind().
PathListens == \A u \in User : path[u] \in Proc /\ pc[path[u]] # "bound" => hasPath[path[u]]

\* A command that waits has its answer, or a daemon of its own user that is up to
\* give one or to close the connection: not a dead one, and none that has closed
\* its listener without it.
NobodyForgotten ==
  \A c \in Proc : pc[c] = "waiting" =>
    \/ link[c] \in Replies
    \/ /\ link[c] \in Requests
       /\ user[peer[c]] = user[c] /\ cmd[peer[c]] = "start" /\ hasPath[peer[c]]
       /\ \/ pc[peer[c]] \in {"start", "loop"}
          \/ pc[peer[c]] = "closed" /\ link[c] # "queued"

\* Only a start command leaves a daemon behind.
StartsOnly == \A p \in Proc : pc[p] \in {"spawn", "init", "unlinked", "bound"} => cmd[p] = "start"

SCWaitInv ==
  /\ SCTypeOK /\ QuittingPlace /\ LinkPlace /\ HasPathPlace /\ PathOwner
  /\ StartsOnly /\ PathListens /\ NobodyForgotten

LEMMA InvokeWait ==
  ASSUME SCWaitInv, NEW p \in Proc, NEW c \in Commands, NEW u \in User, Invoke(p, c, u)
  PROVE  SCWaitInv'
<1>1. SCTypeOK'
  BY InvokeType DEF SCWaitInv
<1> USE DEF SCWaitInv, SCTypeOK, Invoke
<1>2. QuittingPlace' /\ LinkPlace'
  BY <1>1 DEF QuittingPlace, LinkPlace, Requests, Replies
<1>3. StartsOnly' /\ HasPathPlace'
  BY <1>1 DEF StartsOnly, HasPathPlace
<1>4. PathOwner' /\ PathListens'
  BY <1>1, SCAssumption DEF PathOwner, PathListens, HasPathPlace, StartsOnly
<1>5. NobodyForgotten'
  BY <1>1 DEF NobodyForgotten, LinkPlace, PathOwner, HasPathPlace, Requests, Replies
<1> QED  BY <1>1, <1>2, <1>3, <1>4, <1>5

LEMMA ConnectWait ==
  ASSUME SCWaitInv, NEW p \in Proc, Connect(p)
  PROVE  SCWaitInv'
<1>1. SCTypeOK'
  BY ConnectType DEF SCWaitInv
<1> USE DEF SCWaitInv, SCTypeOK, Connect, NotAnswered, IsRunning, Accepts
<1>2. QuittingPlace' /\ LinkPlace'
  BY <1>1 DEF QuittingPlace, LinkPlace, Requests, Replies
<1>3. StartsOnly' /\ HasPathPlace'
  BY <1>1 DEF StartsOnly, HasPathPlace
<1>4. PathOwner' /\ PathListens'
  BY <1>1, SCAssumption DEF PathOwner, PathListens, HasPathPlace, StartsOnly
<1>5. NobodyForgotten'
  <2> SUFFICES ASSUME NEW c \in Proc, pc'[c] = "waiting"
               PROVE  \/ link'[c] \in Replies
                      \/ /\ link'[c] \in Requests
                         /\ user'[peer'[c]] = user'[c] /\ cmd'[peer'[c]] = "start" /\ hasPath'[peer'[c]]
                         /\ \/ pc'[peer'[c]] \in {"start", "loop"}
                            \/ pc'[peer'[c]] = "closed" /\ link'[c] # "queued"
    BY DEF NobodyForgotten
  <2>1. CASE c = p
    <3> DEFINE d == path[user[p]]
    <3>1. IsRunning(user[p]) /\ peer'[p] = d /\ link'[p] = "queued"
      BY <2>1
    <3>2. d \in Proc /\ d # p /\ hasPath[d] /\ pc[d] \in {"start", "loop"} /\ user[d] = user[p] /\ cmd[d] = "start"
      BY <3>1 DEF PathOwner
    <3> QED  BY <2>1, <3>1, <3>2 DEF Requests
  <2>2. CASE c # p
    <3>1. pc[c] = "waiting" /\ peer'[c] = peer[c] /\ link'[c] = link[c]
      BY <2>2
    <3>2. pc[peer[c]] \in {"start", "loop", "closed"} => pc'[peer[c]] = pc[peer[c]]
      OBVIOUS
    <3> QED  BY <3>1, <3>2 DEF NobodyForgotten
  <2> QED  BY <2>1, <2>2
<1> QED  BY <1>1, <1>2, <1>3, <1>4, <1>5

LEMMA FinishWait ==
  ASSUME SCWaitInv, NEW p \in Proc, Finish(p)
  PROVE  SCWaitInv'
<1>1. SCTypeOK'
  BY FinishType DEF SCWaitInv
<1> USE DEF SCWaitInv, SCTypeOK, Finish, NotAnswered
<1>2. QuittingPlace' /\ LinkPlace'
  BY <1>1 DEF QuittingPlace, LinkPlace, Requests, Replies
<1>3. StartsOnly' /\ HasPathPlace'
  BY <1>1 DEF StartsOnly, HasPathPlace
<1>4. PathOwner' /\ PathListens'
  BY <1>1, SCAssumption DEF PathOwner, PathListens, HasPathPlace, StartsOnly
<1>5. NobodyForgotten'
  BY <1>1 DEF NobodyForgotten, LinkPlace, PathOwner, HasPathPlace, Requests, Replies
<1> QED  BY <1>1, <1>2, <1>3, <1>4, <1>5

LEMMA SpawnWait ==
  ASSUME SCWaitInv, NEW p \in Proc, Spawn(p)
  PROVE  SCWaitInv'
<1>1. SCTypeOK'
  BY SpawnType DEF SCWaitInv
<1> USE DEF SCWaitInv, SCTypeOK, Spawn
<1>2. QuittingPlace' /\ LinkPlace'
  BY <1>1 DEF QuittingPlace, LinkPlace, Requests, Replies
<1>3. StartsOnly' /\ HasPathPlace'
  BY <1>1 DEF StartsOnly, HasPathPlace
<1>4. PathOwner' /\ PathListens'
  BY <1>1, SCAssumption DEF PathOwner, PathListens, HasPathPlace, StartsOnly
<1>5. NobodyForgotten'
  BY <1>1 DEF NobodyForgotten, LinkPlace, PathOwner, HasPathPlace, Requests, Replies
<1> QED  BY <1>1, <1>2, <1>3, <1>4, <1>5

LEMMA UnlinkWait ==
  ASSUME SCWaitInv, NEW p \in Proc, Unlink(p)
  PROVE  SCWaitInv'
<1>1. SCTypeOK'
  BY UnlinkType DEF SCWaitInv
<1> USE DEF SCWaitInv, SCTypeOK, Unlink
<1>2. QuittingPlace' /\ LinkPlace'
  BY <1>1 DEF QuittingPlace, LinkPlace, Requests, Replies
<1>3. StartsOnly' /\ HasPathPlace'
  BY <1>1 DEF StartsOnly, HasPathPlace
<1>4. PathOwner' /\ PathListens'
  BY <1>1, SCAssumption DEF PathOwner, PathListens, HasPathPlace, StartsOnly
<1>5. NobodyForgotten'
  BY <1>1 DEF NobodyForgotten, LinkPlace, PathOwner, HasPathPlace, Requests, Replies
<1> QED  BY <1>1, <1>2, <1>3, <1>4, <1>5

LEMMA BindWait ==
  ASSUME SCWaitInv, NEW p \in Proc, Bind(p)
  PROVE  SCWaitInv'
<1>1. SCTypeOK'
  BY BindType DEF SCWaitInv
<1> USE DEF SCWaitInv, SCTypeOK, Bind
<1>2. QuittingPlace' /\ LinkPlace'
  BY <1>1 DEF QuittingPlace, LinkPlace, Requests, Replies
<1>3. StartsOnly' /\ HasPathPlace'
  BY <1>1 DEF StartsOnly, HasPathPlace
<1>4. PathOwner' /\ PathListens'
  BY <1>1, SCAssumption DEF PathOwner, PathListens, HasPathPlace, StartsOnly
<1>5. NobodyForgotten'
  BY <1>1 DEF NobodyForgotten, LinkPlace, PathOwner, HasPathPlace, Requests, Replies
<1> QED  BY <1>1, <1>2, <1>3, <1>4, <1>5

LEMMA ListenWait ==
  ASSUME SCWaitInv, NEW p \in Proc, Listen(p)
  PROVE  SCWaitInv'
<1>1. SCTypeOK'
  BY ListenType DEF SCWaitInv
<1> USE DEF SCWaitInv, SCTypeOK, Listen
<1>2. QuittingPlace' /\ LinkPlace'
  BY <1>1 DEF QuittingPlace, LinkPlace, Requests, Replies
<1>3. StartsOnly' /\ HasPathPlace'
  BY <1>1 DEF StartsOnly, HasPathPlace
<1>4. PathOwner' /\ PathListens'
  BY <1>1, SCAssumption DEF PathOwner, PathListens, HasPathPlace, StartsOnly
<1>5. NobodyForgotten'
  BY <1>1 DEF NobodyForgotten, LinkPlace, PathOwner, HasPathPlace, Requests, Replies
<1> QED  BY <1>1, <1>2, <1>3, <1>4, <1>5

LEMMA StartWait ==
  ASSUME SCWaitInv, NEW p \in Proc, Start(p)
  PROVE  SCWaitInv'
<1>1. SCTypeOK'
  BY StartType DEF SCWaitInv
<1> USE DEF SCWaitInv, SCTypeOK, Start
<1>2. QuittingPlace' /\ LinkPlace'
  BY <1>1 DEF QuittingPlace, LinkPlace, Requests, Replies
<1>3. StartsOnly' /\ HasPathPlace'
  BY <1>1 DEF StartsOnly, HasPathPlace
<1>4. PathOwner' /\ PathListens'
  BY <1>1, SCAssumption DEF PathOwner, PathListens, HasPathPlace, StartsOnly
<1>5. NobodyForgotten'
  BY <1>1 DEF NobodyForgotten, LinkPlace, PathOwner, HasPathPlace, Requests, Replies
<1> QED  BY <1>1, <1>2, <1>3, <1>4, <1>5

LEMMA PollWait ==
  ASSUME SCWaitInv, NEW p \in Proc, Poll(p)
  PROVE  SCWaitInv'
<1>1. SCTypeOK'
  BY PollType DEF SCWaitInv
<1> USE DEF SCWaitInv, SCTypeOK, Poll
<1>2. QuittingPlace' /\ LinkPlace'
  BY <1>1 DEF QuittingPlace, LinkPlace, Requests, Replies
<1>3. StartsOnly' /\ HasPathPlace'
  BY <1>1 DEF StartsOnly, HasPathPlace
<1>4. PathOwner' /\ PathListens'
  BY <1>1, SCAssumption DEF PathOwner, PathListens, HasPathPlace, StartsOnly
<1>5. NobodyForgotten'
  BY <1>1 DEF NobodyForgotten, LinkPlace, PathOwner, HasPathPlace, Requests, Replies
<1> QED  BY <1>1, <1>2, <1>3, <1>4, <1>5

LEMMA ServeWait ==
  ASSUME SCWaitInv, NEW p \in Proc, NEW c \in Proc, Serve(p, c)
  PROVE  SCWaitInv'
<1>1. SCTypeOK'
  BY ServeType DEF SCWaitInv
<1> USE DEF SCWaitInv, SCTypeOK, Serve, Stops
<1>2. QuittingPlace' /\ LinkPlace'
  <2>1. QuittingPlace'
    BY <1>1 DEF QuittingPlace
  <2>2. LinkPlace'
    BY <1>1 DEF LinkPlace, Requests, Replies
  <2> QED  BY <2>1, <2>2
<1>3. StartsOnly' /\ HasPathPlace'
  BY <1>1 DEF StartsOnly, HasPathPlace
<1>4. PathOwner' /\ PathListens'
  BY <1>1, SCAssumption DEF PathOwner, PathListens, HasPathPlace, StartsOnly
<1>5. NobodyForgotten'
  BY <1>1 DEF NobodyForgotten, LinkPlace, PathOwner, HasPathPlace, Requests, Replies
<1> QED  BY <1>1, <1>2, <1>3, <1>4, <1>5

LEMMA CloseListenerWait ==
  ASSUME SCWaitInv, NEW p \in Proc, CloseListener(p)
  PROVE  SCWaitInv'
<1>1. SCTypeOK'
  BY CloseListenerType DEF SCWaitInv
<1> USE DEF SCWaitInv, SCTypeOK, CloseListener, HangUp
<1>2. QuittingPlace' /\ LinkPlace'
  BY <1>1 DEF QuittingPlace, LinkPlace, Requests, Replies
<1>3. StartsOnly' /\ HasPathPlace'
  BY <1>1 DEF StartsOnly, HasPathPlace
<1>4. PathOwner' /\ PathListens'
  BY <1>1, SCAssumption DEF PathOwner, PathListens, HasPathPlace, StartsOnly
<1>5. NobodyForgotten'
  BY <1>1 DEF NobodyForgotten, LinkPlace, PathOwner, HasPathPlace, Requests, Replies
<1> QED  BY <1>1, <1>2, <1>3, <1>4, <1>5

LEMMA CleanupWait ==
  ASSUME SCWaitInv, NEW p \in Proc, Cleanup(p)
  PROVE  SCWaitInv'
<1>1. SCTypeOK'
  BY CleanupType DEF SCWaitInv
<1> USE DEF SCWaitInv, SCTypeOK, Cleanup, HangUp
<1>2. QuittingPlace' /\ LinkPlace'
  BY <1>1 DEF QuittingPlace, LinkPlace, Requests, Replies
<1>3. StartsOnly' /\ HasPathPlace'
  BY <1>1 DEF StartsOnly, HasPathPlace
<1>4. PathOwner' /\ PathListens'
  BY <1>1, SCAssumption DEF PathOwner, PathListens, HasPathPlace, StartsOnly
<1>5. NobodyForgotten'
  BY <1>1 DEF NobodyForgotten, LinkPlace, PathOwner, HasPathPlace, Requests, Replies
<1> QED  BY <1>1, <1>2, <1>3, <1>4, <1>5

LEMMA EndsWait ==
  ASSUME SCWaitInv, NEW p \in Proc, Ends(p), pc[p] \in Processes,
         faults' \in 0 .. MaxFaults
  PROVE  SCWaitInv'
<1>1. SCTypeOK'
  BY EndsType DEF SCWaitInv
<1> USE DEF SCWaitInv, SCTypeOK, Ends, HangUp
<1>2. QuittingPlace' /\ LinkPlace'
  BY <1>1 DEF QuittingPlace, LinkPlace, Requests, Replies, Processes
<1>3. StartsOnly' /\ HasPathPlace'
  BY <1>1 DEF StartsOnly, HasPathPlace, Processes
<1>4. PathOwner' /\ PathListens'
  BY <1>1, SCAssumption DEF PathOwner, PathListens, HasPathPlace, StartsOnly, Processes
<1>5. NobodyForgotten'
  BY <1>1 DEF NobodyForgotten, LinkPlace, PathOwner, HasPathPlace, Requests, Replies, Processes
<1> QED  BY <1>1, <1>2, <1>3, <1>4, <1>5

LEMMA SCNextWait == SCWaitInv /\ [SCNext]_vars => SCWaitInv'
<1> SUFFICES ASSUME SCWaitInv, [SCNext]_vars
             PROVE  SCWaitInv'
  OBVIOUS
<1>1. CASE UNCHANGED vars
  BY <1>1 DEF SCWaitInv, SCTypeOK, QuittingPlace, LinkPlace, HasPathPlace, PathOwner, PathListens,
     StartsOnly, NobodyForgotten, vars
<1>2. ASSUME NEW p \in Proc, Command(p) \/ Client(p)
      PROVE  SCWaitInv'
  BY <1>2, InvokeWait, ConnectWait, FinishWait, SpawnWait DEF Command, Client
<1>3. ASSUME NEW p \in Proc, Ends(p), StartFatal(p) \/ SessionFatal(p) \/ Kill(p) \/ Corrupted(p)
      PROVE  SCWaitInv'
  <2>1. faults' \in 0 .. MaxFaults
    BY <1>3, SCAssumption DEF StartFatal, SessionFatal, Opens, Kill, Corrupted, SCWaitInv, SCTypeOK
  <2>2. pc[p] \in Processes
    BY <1>3 DEF StartFatal, SessionFatal, Opens, Kill, Corrupted, SCWaitInv, QuittingPlace, Processes
  <2> QED  BY <1>3, <2>1, <2>2, EndsWait
<1>4. ASSUME NEW p \in Proc, Daemon(p)
      PROVE  SCWaitInv'
  <2>1. CASE StartFatal(p)
    BY <2>1, <1>3 DEF StartFatal
  <2>2. CASE \E c \in Proc : Serve(p, c)
    BY <2>2, ServeWait
  <2> QED  BY <1>4, <2>1, <2>2, UnlinkWait, BindWait, ListenWait, StartWait, PollWait, CloseListenerWait,
              CleanupWait DEF Daemon
<1>5. ASSUME NEW p \in Proc, Fault(p)
      PROVE  SCWaitInv'
  BY <1>5, <1>3 DEF Fault, Kill, Corrupted
<1>6. ASSUME NEW p \in Proc, Network(p)
      PROVE  SCWaitInv'
  <2>1. CASE OpenSession(p) \/ SessionError(p)
    BY <2>1, NetworkType DEF OpenSession, SessionError, SCWaitInv, SCTypeOK, QuittingPlace, LinkPlace, HasPathPlace,
       PathOwner, PathListens, StartsOnly, NobodyForgotten
  <2> QED  BY <1>6, <2>1, <1>3 DEF Network, SessionFatal
<1> QED  BY <1>1, <1>2, <1>4, <1>5, <1>6 DEF SCNext

\* Whatever is killed, refused or terminated, and in whichever step: no command
\* waits for an answer that nobody is left to give.
THEOREM SCNobodyForgotten == SCSpec => []NobodyForgotten
<1>1. SCInit => SCWaitInv
  <2> SUFFICES ASSUME SCInit PROVE SCWaitInv
    OBVIOUS
  <2>1. SCPatientInv
    BY SCInitInv
  <2>2. NobodyForgotten /\ StartsOnly /\ PathListens
    BY SCAssumption DEF SCInit, NobodyForgotten, StartsOnly, PathListens
  <2> QED  BY <2>1, <2>2 DEF SCPatientInv, SCWaitInv
<1>2. SCWaitInv => NobodyForgotten
  BY DEF SCWaitInv
<1> QED  BY <1>1, <1>2, SCNextWait, PTL DEF SCSpec

==============================================================================
