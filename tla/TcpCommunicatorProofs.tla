----------------------- MODULE TcpCommunicatorProofs -----------------------
(* Proofs about the listener, for any number of clients.                   *)
EXTENDS TcpCommunicator, FiniteSetTheorems, TLAPS

Connected(c) == conn[c] \in {"open", "closing"}

(* As long as nobody has left, a socket's ID is its position.              *)
Positions ==
  NobodyLeft => \A c \in Client : Connected(c) =>
    /\ fClient_ID[c] < Len(fConnected_Sockets)
    /\ fConnected_Sockets[fClient_ID[c] + 1] = c

TCInv ==
  TCTypeOK /\ ListExact /\ OneSession /\ Positions /\ IDsRespective

(* As long as nobody has left, a client that has been told nothing still   *)
(* has its ping under way.                                                 *)
PingUnderway ==
  NobodyLeft => \A c \in Client :
    conn[c] = "open" /\ got[c] = {} => ping[c] \in {"sent", "answered"}

(* A listener that is alive listens, or looks for a configuration, or      *)
(* opens a session: one of the three and no two of them.                   *)
OneOfThree ==
  up => /\ listening \/ updating \/ session = "opening"
        /\ ~(listening /\ updating)
        /\ ~(listening /\ session = "opening")
        /\ ~(updating /\ session = "opening")

TCWaitInv == TCInv /\ PingUnderway /\ OneOfThree

----------------------------------------------------------------------------
(* Facts about lists of clients.                                           *)

LEMMA CountIsNat == Cardinality(Client) \in Nat
BY FS_CardinalityType, TcpCommunicatorAssumption

(* A list that holds no client twice is no longer than their number.       *)
LEMMA NoLonger ==
  ASSUME NEW s \in Seq(Client),
         \A i, j \in 1 .. Len(s) : s[i] = s[j] => i = j
  PROVE  Len(s) <= Cardinality(Client)
<1>1. Len(s) \in Nat /\ s \in [1 .. Len(s) -> Client]
  OBVIOUS
<1>2. s \in Injection(1 .. Len(s), Client)
  BY <1>1 DEF Injection, IsInjective
<1>3. Cardinality(1 .. Len(s)) = Len(s)
  <2>1. 1 \in Int /\ Len(s) \in Int
    BY <1>1
  <2>2. Cardinality(1 .. Len(s)) =
          IF 1 > Len(s) THEN 0 ELSE Len(s) - 1 + 1
    BY <2>1, FS_Interval
  <2> QED  BY <1>1, <2>2
<1> QED
  BY <1>2, <1>3, FS_Injection, TcpCommunicatorAssumption

(* What removing the k-th entry leaves of a list without repetitions.      *)
LEMMA Removal ==
  ASSUME fConnected_Sockets \in Seq(Client),
         NEW k \in 1 .. Len(fConnected_Sockets),
         \A i, j \in 1 .. Len(fConnected_Sockets) :
           fConnected_Sockets[i] = fConnected_Sockets[j] => i = j
  PROVE  /\ WithoutAt(k) \in Seq(Client)
         /\ \A i, j \in 1 .. Len(WithoutAt(k)) :
              WithoutAt(k)[i] = WithoutAt(k)[j] => i = j
         /\ {WithoutAt(k)[i] : i \in 1 .. Len(WithoutAt(k))} =
              {fConnected_Sockets[i] : i \in 1 .. Len(fConnected_Sockets)}
                \ {fConnected_Sockets[k]}
<1> DEFINE s == fConnected_Sockets
           t == WithoutAt(k)
<1>0. t = [i \in 1 .. Len(s) - 1 |-> s[IF i < k THEN i ELSE i + 1]]
  BY DEF WithoutAt
<1> HIDE DEF t
<1>1. PICK n \in Nat : n = Len(s)
  OBVIOUS
<1>2. n - 1 \in Nat /\ k \in Nat /\ k <= n /\ k >= 1
  BY <1>1
<1>3. \A i \in 1 .. n - 1 :
        /\ i < k => t[i] = s[i] /\ i \in 1 .. n /\ i # k
        /\ i >= k => t[i] = s[i + 1] /\ i + 1 \in 1 .. n /\ i + 1 # k
  BY <1>0, <1>1, <1>2
<1>4. t \in Seq(Client) /\ Len(t) = n - 1
  <2>1. \A i \in 1 .. n - 1 : s[IF i < k THEN i ELSE i + 1] \in Client
    BY <1>1, <1>2
  <2>2. t \in [1 .. n - 1 -> Client]
    BY <1>0, <1>1, <2>1
  <2> QED  BY <1>1, <1>2, <2>2
<1>5. \A i, j \in 1 .. n - 1 : t[i] = t[j] => i = j
  <2> SUFFICES ASSUME NEW i \in 1 .. n - 1, NEW j \in 1 .. n - 1, t[i] = t[j]
               PROVE  i = j
    OBVIOUS
  <2>1. CASE i < k /\ j < k
    BY <1>1, <1>3, <2>1
  <2>2. CASE i < k /\ j >= k
    <3>1. s[i] = s[j + 1] /\ i \in 1 .. n /\ j + 1 \in 1 .. n
      BY <1>3, <2>2
    <3>2. i = j + 1
      BY <1>1, <3>1
    <3> QED  BY <1>2, <2>2, <3>2
  <2>3. CASE i >= k /\ j < k
    <3>1. s[i + 1] = s[j] /\ i + 1 \in 1 .. n /\ j \in 1 .. n
      BY <1>3, <2>3
    <3>2. i + 1 = j
      BY <1>1, <3>1
    <3> QED  BY <1>2, <2>3, <3>2
  <2>4. CASE i >= k /\ j >= k
    <3>1. s[i + 1] = s[j + 1] /\ i + 1 \in 1 .. n /\ j + 1 \in 1 .. n
      BY <1>3, <2>4
    <3>2. i + 1 = j + 1
      BY <1>1, <3>1
    <3> QED  BY <3>2
  <2> QED  BY <1>2, <2>1, <2>2, <2>3, <2>4
<1>6. ASSUME NEW i \in 1 .. n - 1
      PROVE  t[i] \in {s[j] : j \in 1 .. n} \ {s[k]}
  <2>1. CASE i < k
    BY <1>1, <1>3, <2>1
  <2>2. CASE i >= k
    BY <1>1, <1>3, <2>2
  <2>3. i < k \/ i >= k
    BY <1>2
  <2> QED  BY <2>1, <2>2, <2>3
<1>7. ASSUME NEW j \in 1 .. n, j # k
      PROVE  \E i \in 1 .. n - 1 : t[i] = s[j]
  <2>1. CASE j < k
    <3>1. j \in 1 .. n - 1
      BY <1>2, <2>1
    <3> QED  BY <1>3, <2>1, <3>1
  <2>2. CASE j > k
    <3>1. j - 1 \in 1 .. n - 1 /\ j - 1 >= k /\ (j - 1) + 1 = j
      BY <1>2, <2>2
    <3> QED  BY <1>3, <3>1
  <2>3. j < k \/ j > k
    BY <1>2, <1>7
  <2> QED  BY <2>1, <2>2, <2>3
<1>8. {t[i] : i \in 1 .. n - 1} = {s[j] : j \in 1 .. n} \ {s[k]}
  <2>1. {t[i] : i \in 1 .. n - 1} \subseteq {s[j] : j \in 1 .. n} \ {s[k]}
    BY <1>6, Zenon
  <2>2. ASSUME NEW x \in {s[j] : j \in 1 .. n} \ {s[k]}
        PROVE  x \in {t[i] : i \in 1 .. n - 1}
    <3>1. PICK j \in 1 .. n : x = s[j] /\ j # k
      OBVIOUS
    <3> QED  BY <3>1, <1>7
  <2> QED  BY <2>1, <2>2
<1> QED  BY <1>1, <1>4, <1>5, <1>8 DEF t

----------------------------------------------------------------------------
LEMMA TCInitInv == TCInit => TCInv
<1> SUFFICES ASSUME TCInit
             PROVE  TCInv
  OBVIOUS
<1> USE DEF TCInit
<1>1. TCTypeOK
  BY CountIsNat, TcpCommunicatorAssumption DEF TCTypeOK, ID
<1>2. ListExact
  BY DEF ListExact
<1>3. OneSession
  BY TcpCommunicatorAssumption DEF OneSession
<1>4. Positions
  BY DEF Positions, Connected
<1>5. IDsRespective
  BY DEF IDsRespective
<1> QED  BY <1>1, <1>2, <1>3, <1>4, <1>5 DEF TCInv

(* Steps of the network session leave the clients alone.                   *)
LEMMA SessionInv ==
  ASSUME TCInv, ConfigInvalid \/ ConfigValid \/ SessionOpened
                  \/ SessionFails \/ Destroy
  PROVE  TCInv'
<1> USE DEF TCInv, clientVars, netVars
<1>1. UNCHANGED clientVars
  BY DEF ConfigInvalid, ConfigValid, SessionOpened, SessionFails, Destroy
<1>2. /\ up' \in BOOLEAN /\ listening' \in BOOLEAN
      /\ session' \in {"null", "opening", "open", "deleted"}
      /\ updating' \in BOOLEAN
  BY DEF TCTypeOK, ConfigInvalid, ConfigValid, SessionOpened, SessionFails,
         Destroy, Update
<1>3. TCTypeOK'
  BY <1>1, <1>2 DEF TCTypeOK
<1>4. OneSession'
  BY DEF OneSession, TCTypeOK, ConfigInvalid, ConfigValid, SessionOpened,
         SessionFails, Destroy, Update
<1>5. ListExact' /\ Positions' /\ IDsRespective'
  BY <1>1 DEF ListExact, Positions, IDsRespective, NobodyLeft, Connected
<1> QED  BY <1>3, <1>4, <1>5

LEMMA AcceptInv ==
  ASSUME TCInv, NEW c \in Client, AcceptConnection(c)
  PROVE  TCInv'
<1> DEFINE s == fConnected_Sockets
           n == Len(s)
<1> USE DEF TCInv, AcceptConnection, netVars
<1>1. /\ s \in Seq(Client) /\ n \in Nat
      /\ s' \in Seq(Client) /\ Len(s') = n + 1
      /\ \A i \in 1 .. n : s'[i] = s[i]
      /\ s'[n + 1] = c
  BY DEF TCTypeOK
<1>2. /\ conn \in [Client -> {"away", "open", "closing", "gone"}]
      /\ fClient_ID \in [Client -> ID]
      /\ ping \in [Client -> {"none", "sent", "answered"}]
      /\ got \in [Client -> SUBSET ID]
      /\ n <= Cardinality(Client)
  BY DEF TCTypeOK
<1>3. /\ conn[c] = "away"
      /\ conn' = [conn EXCEPT ![c] = "open"]
      /\ fClient_ID' = [fClient_ID EXCEPT ![c] = n]
      /\ got' = got
  BY DEF NewID
<1>4. \A i \in 1 .. n : s[i] # c
  BY <1>3 DEF ListExact
<1>5. ListExact'
  <2>1. \A i, j \in 1 .. Len(s') : s'[i] = s'[j] => i = j
    BY <1>1, <1>4 DEF ListExact
  <2>2. {s'[i] : i \in 1 .. Len(s')} = {s[i] : i \in 1 .. n} \cup {c}
    BY <1>1
  <2>3. {d \in Client : conn'[d] \in {"open", "closing"}} =
          {d \in Client : conn[d] \in {"open", "closing"}} \cup {c}
    BY <1>2, <1>3
  <2> QED  BY <2>1, <2>2, <2>3 DEF ListExact
<1>6. Len(s') <= Cardinality(Client)
  BY <1>1, <1>5, NoLonger DEF ListExact
<1>7. TCTypeOK'
  <2>1. n \in ID
    BY <1>1, <1>2, CountIsNat DEF ID
  <2> QED  BY <1>1, <1>6, <2>1 DEF TCTypeOK, NewID
<1>8. OneSession'
  BY DEF OneSession
<1>9. NobodyLeft' => NobodyLeft
  BY <1>2, <1>3 DEF NobodyLeft
<1>10. Positions'
  <2> SUFFICES ASSUME NobodyLeft', NEW d \in Client, Connected(d)'
               PROVE  /\ fClient_ID'[d] < Len(s')
                      /\ s'[fClient_ID'[d] + 1] = d
    BY DEF Positions
  <2>1. CASE d = c
    BY <2>1, <1>1, <1>2, <1>3
  <2>2. CASE d # c
    <3>1. fClient_ID'[d] = fClient_ID[d] /\ Connected(d)
      BY <2>2, <1>2, <1>3 DEF Connected
    <3>2. fClient_ID[d] < n /\ s[fClient_ID[d] + 1] = d
      BY <3>1, <1>9 DEF Positions
    <3>3. fClient_ID[d] \in Nat
      BY <1>2, CountIsNat DEF ID
    <3> QED  BY <3>1, <3>2, <3>3, <1>1
  <2> QED  BY <2>1, <2>2
<1>11. IDsRespective'
  <2> SUFFICES ASSUME NobodyLeft', NEW d \in Client, NEW id \in got[d]
               PROVE  id < Len(s') /\ s'[id + 1] = d
    BY <1>3 DEF IDsRespective
  <2>1. id < n /\ s[id + 1] = d
    BY <1>9 DEF IDsRespective
  <2>2. id \in Nat
    BY <1>2, CountIsNat DEF ID
  <2> QED  BY <2>1, <2>2, <1>1
<1> QED  BY <1>5, <1>7, <1>8, <1>10, <1>11

LEMMA PongInv ==
  ASSUME TCInv, NEW c \in Client, Pong(c)
  PROVE  TCInv'
<1> DEFINE id == fClient_ID[c]
           s == fConnected_Sockets
<1> USE DEF TCInv, netVars
<1>1. UNCHANGED <<listening, session, updating, s, conn, fClient_ID>>
      /\ ping' = [ping EXCEPT ![c] = "none"]
      /\ Connected(c) /\ up' \in BOOLEAN
  BY DEF Pong, Connected
<1>2. /\ s \in Seq(Client) /\ Len(s) \in Nat
      /\ conn \in [Client -> {"away", "open", "closing", "gone"}]
      /\ got \in [Client -> SUBSET ID]
      /\ id \in ID /\ id \in Nat
  BY CountIsNat DEF TCTypeOK, ID
<1>3. \/ got' = got
      \/ \E t \in Client : got' = [got EXCEPT ![t] = @ \cup {id}]
  <2>1. id < Len(s) => s[id + 1] \in Client
    BY <1>2
  <2> QED  BY <2>1 DEF Pong, Told
<1>4. TCTypeOK'
  <2>1. got' \in [Client -> SUBSET ID]
    BY <1>2, <1>3
  <2> QED  BY <1>1, <2>1 DEF TCTypeOK
<1>5. ListExact' /\ OneSession' /\ Positions'
  BY <1>1 DEF ListExact, OneSession, Positions, NobodyLeft, Connected
<1>6. IDsRespective'
  <2> SUFFICES ASSUME NobodyLeft, NEW d \in Client, NEW k \in got'[d]
               PROVE  k < Len(s) /\ s[k + 1] = d
    BY <1>1 DEF IDsRespective, NobodyLeft
  <2>1. id < Len(s) /\ s[id + 1] = c
    BY <1>1 DEF Positions
  <2>2. got' = got \/ got' = [got EXCEPT ![c] = @ \cup {id}]
    BY <1>2, <2>1 DEF Pong, Told
  <2>3. k \in got[d] \/ (d = c /\ k = id)
    BY <1>2, <2>2
  <2> QED  BY <2>1, <2>3 DEF IDsRespective
<1> QED  BY <1>4, <1>5, <1>6

LEMMA DisconnectedInv ==
  ASSUME TCInv, NEW c \in Client, Disconnected(c)
  PROVE  TCInv'
<1> DEFINE s == fConnected_Sockets
           n == Len(s)
           k == CHOOSE i \in 1 .. n : s[i] = c
<1> USE DEF TCInv, Disconnected, netVars
<1>1. /\ s \in Seq(Client) /\ n \in Nat
      /\ conn \in [Client -> {"away", "open", "closing", "gone"}]
      /\ conn[c] = "closing"
      /\ conn' = [conn EXCEPT ![c] = "gone"]
  BY DEF TCTypeOK
<1>2. k \in 1 .. n /\ s[k] = c
  BY <1>1 DEF ListExact
<1>3. \A i, j \in 1 .. n : s[i] = s[j] => i = j
  BY DEF ListExact
<1>4. s' = WithoutAt(k)
  BY DEF Without
<1> HIDE DEF k, TCInv, Disconnected
<1>5. /\ s' \in Seq(Client)
      /\ \A i, j \in 1 .. Len(s') : s'[i] = s'[j] => i = j
      /\ {s'[i] : i \in 1 .. Len(s')} = {s[i] : i \in 1 .. n} \ {c}
  <2>1. /\ WithoutAt(k) \in Seq(Client)
        /\ \A i, j \in 1 .. Len(WithoutAt(k)) :
             WithoutAt(k)[i] = WithoutAt(k)[j] => i = j
        /\ {WithoutAt(k)[i] : i \in 1 .. Len(WithoutAt(k))} =
             {s[i] : i \in 1 .. n} \ {s[k]}
    BY <1>1, <1>2, <1>3, Removal
  <2> QED  BY <1>2, <1>4, <2>1
<1>6. ListExact'
  <2>1. {d \in Client : conn'[d] \in {"open", "closing"}} =
          {d \in Client : conn[d] \in {"open", "closing"}} \ {c}
    BY <1>1
  <2> QED  BY <1>5, <2>1 DEF TCInv, ListExact
<1>7. TCTypeOK'
  <2>1. Len(s') <= Cardinality(Client)
    BY <1>5, NoLonger
  <2> QED  BY <1>5, <2>1 DEF TCInv, Disconnected, TCTypeOK
<1>8. OneSession'
  BY DEF TCInv, Disconnected, OneSession
<1>9. ~NobodyLeft'
  BY <1>1 DEF NobodyLeft
<1>10. Positions' /\ IDsRespective'
  BY <1>9 DEF Positions, IDsRespective
<1> QED  BY <1>6, <1>7, <1>8, <1>10 DEF TCInv

(* What a client does by itself changes no list and tells nobody anything. *)
LEMMA ClientInv ==
  ASSUME TCInv, NEW c \in Client, Answer(c) \/ UnaskedPong(c) \/ Close(c)
  PROVE  TCInv'
<1> USE DEF TCInv, netVars
<1>1. UNCHANGED <<up, listening, session, updating, fConnected_Sockets,
                  fClient_ID, got>>
  BY DEF Answer, UnaskedPong, Close
<1>2. conn \in [Client -> {"away", "open", "closing", "gone"}]
  BY DEF TCTypeOK
<1>3. TCTypeOK'
  BY <1>1 DEF TCTypeOK, Answer, UnaskedPong, Close
<1>4. \A d \in Client : (Connected(d)' <=> Connected(d))
                        /\ (conn'[d] = "gone" <=> conn[d] = "gone")
  BY <1>2 DEF Connected, Answer, UnaskedPong, Close
<1>5. ListExact'
  BY <1>1, <1>4 DEF ListExact, Connected
<1>6. OneSession'
  BY <1>1 DEF OneSession
<1>7. Positions' /\ IDsRespective'
  BY <1>1, <1>4 DEF Positions, IDsRespective, NobodyLeft
<1> QED  BY <1>3, <1>5, <1>6, <1>7

----------------------------------------------------------------------------
LEMMA TCNextInv == TCInv /\ [TCNext]_tcVars => TCInv'
<1> SUFFICES ASSUME TCInv, [TCNext]_tcVars
             PROVE  TCInv'
  OBVIOUS
<1>1. CASE ConfigInvalid \/ ConfigValid \/ SessionOpened \/ SessionFails
             \/ Destroy
  BY <1>1, SessionInv
<1>2. ASSUME NEW c \in Client, AcceptConnection(c)
      PROVE  TCInv'
  BY <1>2, AcceptInv
<1>3. ASSUME NEW c \in Client, Pong(c)
      PROVE  TCInv'
  BY <1>3, PongInv
<1>4. ASSUME NEW c \in Client, Disconnected(c)
      PROVE  TCInv'
  BY <1>4, DisconnectedInv
<1>5. ASSUME NEW c \in Client, Answer(c) \/ UnaskedPong(c) \/ Close(c)
      PROVE  TCInv'
  BY <1>5, ClientInv
<1>6. CASE UNCHANGED tcVars
  BY <1>6 DEF TCInv, TCTypeOK, ListExact, OneSession, Positions,
              IDsRespective, NobodyLeft, Connected, tcVars, netVars,
              clientVars
<1> QED  BY <1>1, <1>2, <1>3, <1>4, <1>5, <1>6 DEF TCNext

LEMMA TCAlways == TCSpec => []TCInv
BY TCInitInv, TCNextInv, PTL DEF TCSpec

(* All variables of the listener keep their ranges; in particular no       *)
(* position that a client is given exceeds the number of clients.          *)
THEOREM TCTypeCorrect == TCSpec => []TCTypeOK
<1>1. TCInv => TCTypeOK
  BY DEF TCInv
<1> QED  BY <1>1, TCAlways, PTL

(* push_back() and removeOne() keep each connected socket once in the      *)
(* list, and no socket that has been deleted.                              *)
THEOREM ListIsExact == TCSpec => []ListExact
<1>1. TCInv => ListExact
  BY DEF TCInv
<1> QED  BY <1>1, TCAlways, PTL

(* configUpdated(), openSession() and networkSessionErrorHandler() take    *)
(* turns, whatever the network does.                                       *)
THEOREM SessionsTakeTurns == TCSpec => []OneSession
<1>1. TCInv => OneSession
  BY DEF TCInv
<1> QED  BY <1>1, TCAlways, PTL

(* The IDs sent by writeHttpData() are right until the first client leaves. *)
THEOREM IDsAreRespective == TCSpec => []IDsRespective
<1>1. TCInv => IDsRespective
  BY DEF TCInv
<1> QED  BY <1>1, TCAlways, PTL

----------------------------------------------------------------------------
(* Nobody waits for something that is not coming: what EveryoneTold and    *)
(* ListensAgain need besides fairness.                                     *)

LEMMA TCInitWait == TCInit => TCWaitInv
<1> SUFFICES ASSUME TCInit
             PROVE  TCWaitInv
  OBVIOUS
<1>1. TCInv
  BY TCInitInv
<1>2. PingUnderway
  BY DEF TCInit, PingUnderway
<1>3. OneOfThree
  BY TcpCommunicatorAssumption DEF TCInit, OneOfThree
<1> QED  BY <1>1, <1>2, <1>3 DEF TCWaitInv

LEMMA SessionWait ==
  ASSUME TCWaitInv, ConfigInvalid \/ ConfigValid \/ SessionOpened
                      \/ SessionFails \/ Destroy
  PROVE  PingUnderway' /\ OneOfThree'
<1>1. UNCHANGED clientVars
  BY DEF ConfigInvalid, ConfigValid, SessionOpened, SessionFails, Destroy
<1>2. PingUnderway'
  BY <1>1 DEF clientVars, TCWaitInv, PingUnderway, NobodyLeft
<1>3. OneOfThree'
  BY DEF TCWaitInv, TCInv, OneSession, OneOfThree, ConfigInvalid,
         ConfigValid, SessionOpened, SessionFails, Update, Destroy
<1> QED  BY <1>2, <1>3

(* What clients do leaves the session alone; the program may die of it.    *)
LEMMA ClientsKeepTheSession ==
  ASSUME OneOfThree, NEW c \in Client,
         AcceptConnection(c) \/ Pong(c) \/ Disconnected(c)
           \/ Answer(c) \/ UnaskedPong(c) \/ Close(c)
  PROVE  OneOfThree'
<1>1. (up /\ UNCHANGED netVars) \/ UNCHANGED <<up, netVars>>
  BY DEF AcceptConnection, Pong, Disconnected, Answer, UnaskedPong, Close
<1> QED  BY <1>1 DEF OneOfThree, netVars

LEMMA AcceptWait ==
  ASSUME TCWaitInv, NEW c \in Client, AcceptConnection(c)
  PROVE  PingUnderway'
<1>1. /\ conn \in [Client -> {"away", "open", "closing", "gone"}]
      /\ ping \in [Client -> {"none", "sent", "answered"}]
  BY DEF TCWaitInv, TCInv, TCTypeOK
<1>2. /\ conn[c] = "away" /\ conn' = [conn EXCEPT ![c] = "open"]
      /\ ping' = [ping EXCEPT ![c] = "sent"] /\ got' = got
  BY DEF AcceptConnection
<1>3. NobodyLeft' => NobodyLeft
  BY <1>1, <1>2 DEF NobodyLeft
<1> QED  BY <1>1, <1>2, <1>3 DEF TCWaitInv, PingUnderway

(* The pong of a client that is still there tells it its position: as long *)
(* as nobody has left, nobody else's.                                      *)
LEMMA PongWait ==
  ASSUME TCWaitInv, NEW c \in Client, Pong(c)
  PROVE  PingUnderway'
<1>1. /\ ping \in [Client -> {"none", "sent", "answered"}]
      /\ got \in [Client -> SUBSET ID]
  BY DEF TCWaitInv, TCInv, TCTypeOK
<1>2. /\ conn' = conn /\ ping' = [ping EXCEPT ![c] = "none"]
      /\ Connected(c)
  BY DEF Pong, Connected
<1> SUFFICES ASSUME NobodyLeft, NEW d \in Client,
                    conn[d] = "open", got'[d] = {}
             PROVE  ping'[d] \in {"sent", "answered"}
  BY <1>2 DEF PingUnderway, NobodyLeft
<1>3. /\ fClient_ID[c] < Len(fConnected_Sockets)
      /\ fConnected_Sockets[fClient_ID[c] + 1] = c
  BY <1>2 DEF TCWaitInv, TCInv, Positions
<1>4. Told(c, fClient_ID[c])
  <2>1. Len(fConnected_Sockets) \in Nat /\ fClient_ID[c] \in Nat
    BY CountIsNat DEF TCWaitInv, TCInv, TCTypeOK, ID
  <2> QED  BY <1>3, <2>1 DEF Pong
<1>5. d # c
  BY <1>1, <1>4 DEF Told
<1>6. got[d] = {}
  BY <1>1, <1>4, <1>5 DEF Told
<1> QED  BY <1>1, <1>2, <1>5, <1>6 DEF TCWaitInv, PingUnderway

LEMMA DisconnectedWait ==
  ASSUME TCWaitInv, NEW c \in Client, Disconnected(c)
  PROVE  PingUnderway'
<1>1. ~NobodyLeft'
  BY DEF TCWaitInv, TCInv, TCTypeOK, Disconnected, NobodyLeft
<1> QED  BY <1>1 DEF PingUnderway

LEMMA ClientWait ==
  ASSUME TCWaitInv, NEW c \in Client, Answer(c) \/ UnaskedPong(c) \/ Close(c)
  PROVE  PingUnderway'
<1>1. /\ conn \in [Client -> {"away", "open", "closing", "gone"}]
      /\ ping \in [Client -> {"none", "sent", "answered"}]
  BY DEF TCWaitInv, TCInv, TCTypeOK
<1>2. NobodyLeft' => NobodyLeft
  BY <1>1 DEF NobodyLeft, Answer, UnaskedPong, Close
<1>3. \A d \in Client : /\ conn'[d] = "open" => conn[d] = "open"
                        /\ ping'[d] = ping[d] \/ ping'[d] = "answered"
                        /\ got'[d] = got[d]
  BY <1>1 DEF Answer, UnaskedPong, Close
<1> QED  BY <1>2, <1>3 DEF TCWaitInv, PingUnderway

LEMMA TCNextWait == TCWaitInv /\ [TCNext]_tcVars => TCWaitInv'
<1> SUFFICES ASSUME TCWaitInv, [TCNext]_tcVars
             PROVE  PingUnderway' /\ OneOfThree'
  BY TCNextInv DEF TCWaitInv
<1>1. CASE ConfigInvalid \/ ConfigValid \/ SessionOpened \/ SessionFails
             \/ Destroy
  BY <1>1, SessionWait
<1>2. ASSUME NEW c \in Client, AcceptConnection(c) \/ Pong(c)
               \/ Disconnected(c) \/ Answer(c) \/ UnaskedPong(c) \/ Close(c)
      PROVE  PingUnderway' /\ OneOfThree'
  BY <1>2, ClientsKeepTheSession, AcceptWait, PongWait, DisconnectedWait,
     ClientWait DEF TCWaitInv
<1>3. CASE UNCHANGED tcVars
  BY <1>3 DEF TCWaitInv, PingUnderway, OneOfThree, NobodyLeft, tcVars,
              netVars, clientVars
<1> QED  BY <1>1, <1>2, <1>3 DEF TCNext

LEMMA TCWaitAlways == TCSpec => []TCWaitInv
BY TCInitWait, TCNextWait, PTL DEF TCSpec

(* Until somebody leaves, a client of acceptConnection() that was not sent *)
(* its ID by writeHttpData() has a ping that is still to be answered, or   *)
(* an answer that is still to be delivered: none is skipped, whatever the  *)
(* order in which pongs and new connections come in.                       *)
THEOREM NobodySkipped == TCSpec => []PingUnderway
<1>1. TCWaitInv => PingUnderway
  BY DEF TCWaitInv
<1> QED  BY <1>1, TCWaitAlways, PTL

(* The slots of the network session hand the listener on: it is never deaf *)
(* without a configuration update or a session that will open it again,    *)
(* and never two of the three at once.                                     *)
THEOREM NeverDeafForGood == TCSpec => []OneOfThree
<1>1. TCWaitInv => OneOfThree
  BY DEF TCWaitInv
<1> QED  BY <1>1, TCWaitAlways, PTL
============================================================================
