-------------------------- MODULE TcpCommunicator --------------------------
(***************************************************************************)
(* src/src/TcpCommunicator.cpp with src/src/MainController.*: the listener *)
(* for remote clients.  It listens while a network session is open (on a   *)
(* host that requires sessions), keeps the connected sockets in a list,    *)
(* and addresses a client by its position in that list.  The one message   *)
(* it sends is SETID, which tells a client its position; it is sent when   *)
(* the client has answered a ping.                                         *)
(*                                                                         *)
(* MainController::dataReceived() is empty, nothing emits sendData(), and  *)
(* fVerified_Clients, from which disconnected clients are removed, is      *)
(* always empty; so messages from clients change nothing.                  *)
(***************************************************************************)
EXTENDS Naturals, Sequences, FiniteSets

CONSTANTS
  Client,   \* the sockets; a client that comes back has another one
  Required, \* the host has capability NetworkSessionRequired
  Unasked   \* clients send pongs that answer no ping, as RFC 6455 lets them

ASSUME TcpCommunicatorAssumption ==
  /\ IsFiniteSet(Client)
  /\ Required \in BOOLEAN
  /\ Unasked \in BOOLEAN

VARIABLES
  up,                 \* the object exists
  listening,          \* isListening()
  session,            \* fNetwork_Session
  updating,           \* updateConfigurations() has not completed
  fConnected_Sockets, \* the list of sockets
  conn,               \* state of each connection
  fClient_ID,         \* the ID in the message each socket's pong sends
  ping,               \* the ping of writeHttpData() and its answer
  got                 \* the IDs each client was told

netVars    == <<listening, session, updating>>
clientVars == <<fConnected_Sockets, conn, fClient_ID, ping, got>>
tcVars     == <<up, netVars, clientVars>>

ID == 0 .. Cardinality(Client)

TCTypeOK ==
  /\ up \in BOOLEAN
  /\ listening \in BOOLEAN
  /\ session \in {"null", "opening", "open", "deleted"}
  /\ updating \in BOOLEAN
  /\ fConnected_Sockets \in Seq(Client)
  /\ Len(fConnected_Sockets) <= Cardinality(Client)
  /\ conn \in [Client -> {"away", "open", "closing", "gone"}]
  /\ fClient_ID \in [Client -> ID]
  /\ ping \in [Client -> {"none", "sent", "answered"}]
  /\ got \in [Client -> SUBSET ID]

(* The constructor.  Without sessions it goes straight to openSession().   *)
TCInit ==
  /\ up = TRUE
  /\ listening = ~Required
  /\ session = "null"
  /\ updating = Required
  /\ fConnected_Sockets = <<>>
  /\ conn = [c \in Client |-> "away"]
  /\ fClient_ID = [c \in Client |-> 0]
  /\ ping = [c \in Client |-> "none"]
  /\ got = [c \in Client |-> {}]

----------------------------------------------------------------------------
(* The network session.                                                    *)

(* configUpdated(), without and with a valid default configuration.        *)
ConfigInvalid ==
  /\ up /\ updating
  /\ updating' = TRUE
  /\ UNCHANGED <<up, listening, session, clientVars>>
ConfigValid ==
  /\ up /\ updating
  /\ updating' = FALSE
  /\ session' = "opening"
  /\ UNCHANGED <<up, listening, clientVars>>

(* openSession(): a port that cannot be bound ends the program (qFatal).   *)
SessionOpened ==
  /\ up /\ session = "opening"
  /\ session' = "open"
  /\ \/ ~listening /\ listening' = TRUE /\ up' = TRUE
     \/ listening' = FALSE /\ up' = FALSE
  /\ UNCHANGED <<updating, clientVars>>

\* Mutant: a session is deleted without asking for a new configuration.
NoUpdate == updating' = updating

(* updateConfigurations()                                                  *)
Update == updating' = TRUE

(* networkSessionErrorHandler(), other than for a roaming error, which it  *)
(* only logs: the session is deleted, its pointer is not reset.  A session *)
(* exists only where sessions are required.                                *)
SessionFails ==
  /\ up /\ session \in {"opening", "open"}
  /\ listening' = FALSE
  /\ session' = "deleted"
  /\ Update
  /\ UNCHANGED <<up, clientVars>>

----------------------------------------------------------------------------
(* The clients.                                                            *)

\* Mutant: the list is counted as if it did not hold the new socket yet.
IDFromEnd == Len(fConnected_Sockets) + 1

(* fConnected_Sockets->size() - 1, after push_back()                       *)
NewID == Len(fConnected_Sockets)

(* acceptConnection(), and writeHttpData() of the SETID message: the       *)
(* message is bound to the pong of the socket that now has its position.   *)
(* newConnection() is emitted for each connection, so one is pending.      *)
AcceptConnection(c) ==
  /\ up /\ listening
  /\ conn[c] = "away"
  /\ conn' = [conn EXCEPT ![c] = "open"]
  /\ fConnected_Sockets' = Append(fConnected_Sockets, c)
  /\ fClient_ID' = [fClient_ID EXCEPT ![c] = NewID]
  /\ ping' = [ping EXCEPT ![c] = "sent"]
  /\ UNCHANGED <<up, netVars, got>>

(* What the end of the program, or a message, makes of a client.           *)
Told(c, id) ==
  got' = IF conn[c] = "open" THEN [got EXCEPT ![c] = @ \cup {id}] ELSE got

(* The lambda connected to pong(): the position is looked up now.  Beyond  *)
(* the end of the list the program reads what is there: it dies, or the    *)
(* message goes to some socket, or to none.  It stays connected, so that   *)
(* each further pong of the client runs it again.                          *)
Pong(c) ==
  LET id == fClient_ID[c]
  IN /\ up
     /\ conn[c] \in {"open", "closing"}
     /\ ping[c] = "answered"
     /\ ping' = [ping EXCEPT ![c] = "none"]
     /\ \/ /\ id < Len(fConnected_Sockets)
           /\ Told(fConnected_Sockets[id + 1], id)
           /\ up' = TRUE
        \/ /\ id >= Len(fConnected_Sockets)
           /\ \/ \E t \in Client : Told(t, id) /\ up' = TRUE
              \/ UNCHANGED got /\ up' \in BOOLEAN
     /\ UNCHANGED <<netVars, fConnected_Sockets, conn, fClient_ID>>

(* The list without its k-th entry.                                        *)
WithoutAt(k) ==
  [i \in 1 .. Len(fConnected_Sockets) - 1 |->
     fConnected_Sockets[IF i < k THEN i ELSE i + 1]]

\* Mutant: the socket is removed by the ID it was told.
WithoutID(c) == WithoutAt(fClient_ID[c] + 1)

(* fConnected_Sockets->removeOne(socket), of a socket that is in the list. *)
Without(c) ==
  WithoutAt(CHOOSE i \in 1 .. Len(fConnected_Sockets) :
              fConnected_Sockets[i] = c)

(* The lambda connected to disconnected().                                 *)
Disconnected(c) ==
  /\ up
  /\ conn[c] = "closing"
  /\ conn' = [conn EXCEPT ![c] = "gone"]
  /\ fConnected_Sockets' = Without(c)
  /\ ping' = [ping EXCEPT ![c] = "none"]
  /\ UNCHANGED <<up, netVars, fClient_ID, got>>

(* ~TcpCommunicator() closes what is open.  With a deleted session it      *)
(* deletes it again, which ends the program in any case.                   *)
Destroy ==
  /\ up
  /\ up' = FALSE
  /\ UNCHANGED <<netVars, clientVars>>

(* The client's side: it answers a ping, or its connection ends.           *)
Answer(c) ==
  /\ conn[c] = "open"
  /\ ping[c] = "sent"
  /\ ping' = [ping EXCEPT ![c] = "answered"]
  /\ UNCHANGED <<up, netVars, fConnected_Sockets, conn, fClient_ID, got>>
UnaskedPong(c) ==
  /\ Unasked
  /\ conn[c] = "open"
  /\ ping[c] = "none"
  /\ ping' = [ping EXCEPT ![c] = "answered"]
  /\ UNCHANGED <<up, netVars, fConnected_Sockets, conn, fClient_ID, got>>
Close(c) ==
  /\ conn[c] = "open"
  /\ conn' = [conn EXCEPT ![c] = "closing"]
  /\ UNCHANGED <<up, netVars, fConnected_Sockets, fClient_ID, ping, got>>

----------------------------------------------------------------------------
TCNext ==
  \/ ConfigInvalid
  \/ ConfigValid
  \/ SessionOpened
  \/ SessionFails
  \/ \E c \in Client :
       AcceptConnection(c) \/ Pong(c) \/ Disconnected(c)
         \/ Answer(c) \/ UnaskedPong(c) \/ Close(c)
  \/ Destroy

(* The event loop delivers signals; a client that stays answers its ping;  *)
(* the host has a valid configuration, and a session that opens, again and *)
(* again.                                                                  *)
TCFairness ==
  /\ \A c \in Client : WF_tcVars(Pong(c)) /\ WF_tcVars(Answer(c))
  /\ WF_tcVars(ConfigValid)
  /\ SF_tcVars(SessionOpened)

TCSpec     == TCInit /\ [][TCNext]_tcVars
TCFairSpec == TCSpec /\ TCFairness

----------------------------------------------------------------------------
(* The list holds each connected socket once, and no other: a position in  *)
(* it always belongs to a socket that has not been deleted.                *)
ListExact ==
  /\ {fConnected_Sockets[i] : i \in 1 .. Len(fConnected_Sockets)} =
       {c \in Client : conn[c] \in {"open", "closing"}}
  /\ \A i, j \in 1 .. Len(fConnected_Sockets) :
       fConnected_Sockets[i] = fConnected_Sockets[j] => i = j

(* As long as nobody has left, every client is told its own position and   *)
(* nothing else, in whatever order the pongs come in.                      *)
NobodyLeft == \A c \in Client : conn[c] # "gone"
IDsRespective ==
  NobodyLeft => \A c \in Client : \A id \in got[c] :
    /\ id < Len(fConnected_Sockets)
    /\ fConnected_Sockets[id + 1] = c

(* Session, configuration update and listener take turns: the listener is  *)
(* never opened twice, an update never overwrites a live session, and a    *)
(* deleted session is always about to be replaced.                         *)
OneSession ==
  /\ session = "opening" => ~listening
  /\ updating => session \in {"null", "deleted"} /\ ~listening
  /\ session = "deleted" => updating
  /\ Required /\ listening => session = "open"

(* A client that is accepted is told a position in the end, unless someone *)
(* leaves or the program ends first.                                       *)
EveryoneTold ==
  \A c \in Client :
    conn[c] = "open" ~> got[c] # {} \/ conn[c] = "closing" \/ ~NobodyLeft \/ ~up

(* A lost session is replaced and clients can connect again.               *)
ListensAgain == up /\ ~listening ~> listening \/ ~up

(* acceptConnection() sets out "to give each client their respective       *)
(* socket Id's on the server": no two connected clients are told the same. *)
RespectiveIDs ==
  \A c, d \in Client :
    c # d /\ conn[c] = "open" /\ conn[d] = "open" => got[c] \cap got[d] = {}

(* writeHttpData() waits "for a corresponding pong from the client before  *)
(* sending the payload to the client": what a pong of one client sets off  *)
(* is told to no other.                                                    *)
CorrespondingPong ==
  [][\A c, d \in Client :
       ping[c] = "answered" /\ ping'[c] = "none" /\ c # d /\ up'
         => got'[d] = got[d]]_tcVars
============================================================================
