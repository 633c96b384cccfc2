---------------------------- MODULE ServiceControl ----------------------------
(* The program as a Unix service: the commands its executable takes, the         *)
(* detached daemon they start and stop, and the socket file under /var/tmp by    *)
(* which the ones find the other (main.cpp, Service.cpp and QtSolutions/).       *)
(*                                                                               *)
(* Proc is a pool of Unix processes. An idle one runs a command; the daemon a    *)
(* start command leaves behind keeps the slot of that command, whose own process *)
(* has nothing left to do. Data is abstracted: a reply is what sendCmd() tells   *)
(* apart, the socket file of a user is the process that bound it.                *)
EXTENDS Naturals

CONSTANTS
  Proc,          \* processes of this program that can exist at one time
  User,          \* accounts that run it: the socket's path ends in login()
  Commands,      \* commands the operators give
  NoFile,        \* no socket file at a user's path
  Stale,         \* a socket file whose process is gone
  MaxFaults      \* bound: kills and refusals of the database in one behaviour

AllCommands == {"start", "exec", "terminate", "pause", "resume", "num"}

ASSUME SCAssumption ==
  /\ NoFile \notin Proc /\ Stale \notin Proc /\ NoFile # Stale
  /\ Commands \subseteq AllCommands
  /\ MaxFaults \in Nat

VARIABLES
  pc,        \* where each process is
  cmd,       \* the command it was given
  user,      \* the account it runs under
  peer,      \* the daemon a command is connected to; itself when to none
  link,      \* how far its request has come
  hasPath,   \* a daemon's socket listens and its path_ is set
  quitting,  \* a daemon's event loop was told to end
  main,      \* a daemon's fMain_Controller
  onPort,    \* its TcpCommunicator listens on TCP port 48004
  required,  \* the host wants a network session opened before anything listens
  path,      \* the socket file of each user
  patient,   \* history: each command was given when all that was set off before had
             \* come to an end
  faults

vars == <<pc, cmd, user, peer, link, hasPath, quitting, main, onPort, required, path, patient, faults>>

Places == {"idle", "connect", "waiting", "spawn", "init", "unlinked", "bound", "start", "loop", "closed"}
Requests == {"queued", "accepted", "readable"}   \* of which the daemon owes an answer
Replies == {"true", "false", "eof"}
ServiceFlags == {}                               \* QtServiceBase::Default

Accepts(d) == hasPath[d] /\ pc[d] \in {"start", "loop"}
\* What -v prints of a user's service: a connection is all it tries.
IsRunning(u) == path[u] \in Proc /\ Accepts(path[u])
Serving(d) == pc[d] = "loop" /\ cmd[d] = "start" /\ ~quitting[d]
Settled == \A p \in Proc : pc[p] \in {"idle", "loop"} /\ ~quitting[p]
\* Mutant: the port can be shared.
PortShared == TRUE
PortFree == \A p \in Proc : ~onPort[p]

SCInit ==
  /\ pc = [p \in Proc |-> "idle"] /\ cmd \in [Proc -> {"start"}] /\ user \in [Proc -> User]
  /\ peer = [p \in Proc |-> p] /\ link = [p \in Proc |-> "none"]
  /\ hasPath = [p \in Proc |-> FALSE] /\ quitting = [p \in Proc |-> FALSE]
  /\ main = [p \in Proc |-> "null"]
  /\ onPort = [p \in Proc |-> FALSE] /\ required \in BOOLEAN
  /\ path = [u \in User |-> NoFile] /\ patient = TRUE /\ faults = 0

------------------------------------------------------------------------------
(* Commands. exec() looks at the first argument.                                 *)
\* A command that talks to the daemon, or -e, which runs the service in this
\* very process without a control socket.
Invoke(p, c, u) ==
  /\ pc[p] = "idle"
  /\ patient' = (patient /\ Settled)
  /\ pc' = [pc EXCEPT ![p] = IF c = "exec" THEN "start" ELSE "connect"]
  /\ cmd' = [cmd EXCEPT ![p] = c]
  /\ user' = [user EXCEPT ![p] = u]
  /\ UNCHANGED <<peer, link, hasPath, quitting, main, onPort, required, path, faults>>

\* sendCmd() without an answer from anyone: start goes on to spawn, the others end.
NotAnswered(p) == IF cmd[p] = "start" THEN "spawn" ELSE "idle"

\* sendCmd(): the connection and the write. A file without a listener refuses.
Connect(p) ==
  /\ pc[p] = "connect"
  /\ IF IsRunning(user[p])
       THEN /\ pc' = [pc EXCEPT ![p] = "waiting"]
            /\ peer' = [peer EXCEPT ![p] = path[user[p]]]
            /\ link' = [link EXCEPT ![p] = "queued"]
       ELSE /\ pc' = [pc EXCEPT ![p] = NotAnswered(p)]
            /\ UNCHANGED <<peer, link>>
  /\ UNCHANGED <<cmd, user, hasPath, quitting, main, onPort, required, path, patient, faults>>

\* Mutant: the daemon's "true" is taken for no answer.
FinishDeaf(p) ==
  /\ pc[p] = "waiting" /\ link[p] \in Replies
  /\ pc' = [pc EXCEPT ![p] = NotAnswered(p)]
  /\ peer' = [peer EXCEPT ![p] = p]
  /\ link' = [link EXCEPT ![p] = "none"]
  /\ UNCHANGED <<cmd, user, hasPath, quitting, main, onPort, required, path, patient, faults>>

\* waitForReadyRead(-1) returns: an answer came, or the other end closed.
Finish(p) ==
  /\ pc[p] = "waiting" /\ link[p] \in Replies
  /\ pc' = [pc EXCEPT ![p] = IF link[p] = "true" THEN "idle" ELSE NotAnswered(p)]
  /\ peer' = [peer EXCEPT ![p] = p]
  /\ link' = [link EXCEPT ![p] = "none"]
  /\ UNCHANGED <<cmd, user, hasPath, quitting, main, onPort, required, path, patient, faults>>

\* startDetached(): the daemon runs from here on, or could not be forked.
Spawn(p) ==
  /\ pc[p] = "spawn"
  /\ \E ok \in BOOLEAN : pc' = [pc EXCEPT ![p] = IF ok THEN "init" ELSE "idle"]
  /\ UNCHANGED <<cmd, user, peer, link, hasPath, quitting, main, onPort, required, path, patient, faults>>

------------------------------------------------------------------------------
(* The daemon. setPath() is three system calls another process can fall between. *)
\* Mutant: a file that is in the way is left there.
UnlinkNothing(p) ==
  /\ pc[p] = "init"
  /\ pc' = [pc EXCEPT ![p] = "unlinked"]
  /\ UNCHANGED <<cmd, user, peer, link, hasPath, quitting, main, onPort, required, path, patient, faults>>

Unlink(p) ==
  /\ pc[p] = "init"
  /\ pc' = [pc EXCEPT ![p] = "unlinked"]
  /\ path' = [path EXCEPT ![user[p]] = NoFile]
  /\ UNCHANGED <<cmd, user, peer, link, hasPath, quitting, main, onPort, required, patient, faults>>

\* bind() fails on a file that is there again: the daemon runs on without a socket.
Bind(p) ==
  /\ pc[p] = "unlinked"
  /\ IF path[user[p]] = NoFile
       THEN pc' = [pc EXCEPT ![p] = "bound"] /\ path' = [path EXCEPT ![user[p]] = p]
       ELSE pc' = [pc EXCEPT ![p] = "start"] /\ UNCHANGED path
  /\ UNCHANGED <<cmd, user, peer, link, hasPath, quitting, main, onPort, required, patient, faults>>

Listen(p) ==
  /\ pc[p] = "bound"
  /\ pc' = [pc EXCEPT ![p] = "start"]
  /\ hasPath' = [hasPath EXCEPT ![p] = TRUE]
  /\ UNCHANGED <<cmd, user, peer, link, quitting, main, onPort, required, path, patient, faults>>

\* Mutant: connections are not closed.
HangUpNothing(p, S) == link
\* The other end of p's connections is closed: for the requests in the states S.
HangUp(p, S) == [c \in Proc |-> IF peer[c] = p /\ link[c] \in S THEN "eof" ELSE link[c]]

\* The process ends without a word: what it bound stays behind as a file.
Ends(p) ==
  /\ pc' = [pc EXCEPT ![p] = "idle"]
  /\ hasPath' = [hasPath EXCEPT ![p] = FALSE]
  /\ quitting' = [quitting EXCEPT ![p] = FALSE]
  /\ main' = [main EXCEPT ![p] = "null"]
  /\ onPort' = [onPort EXCEPT ![p] = FALSE]
  /\ path' = [u \in User |-> IF path[u] = p THEN Stale ELSE path[u]]
  /\ link' = HangUp(p, Requests)
  /\ UNCHANGED <<cmd, user, peer, required, patient>>

\* slotStart(), the first event of the loop: Service::start(). The controller's
\* constructor listens at once, or leaves that to openSession() when a network
\* session has to be opened first. Without the port, or without the database, the
\* constructor is fatal.
Start(p) ==
  /\ pc[p] = "start" /\ (required \/ PortFree)
  /\ pc' = [pc EXCEPT ![p] = "loop"]
  /\ main' = [main EXCEPT ![p] = "live"]
  /\ onPort' = [onPort EXCEPT ![p] = ~required]
  /\ UNCHANGED <<cmd, user, peer, link, hasPath, quitting, required, path, patient, faults>>

StartFatal(p) ==
  /\ pc[p] = "start"
  /\ IF required \/ PortFree THEN faults < MaxFaults /\ faults' = faults + 1 ELSE faults' = faults
  /\ Ends(p)

\* The session is open: openSession() listens, or finds the port taken.
Opens(p) == pc[p] = "loop" /\ required /\ main[p] = "live" /\ ~onPort[p]
OpenSession(p) ==
  /\ Opens(p) /\ PortFree
  /\ onPort' = [onPort EXCEPT ![p] = TRUE]
  /\ UNCHANGED <<pc, cmd, user, peer, link, hasPath, quitting, main, required, path, patient, faults>>

SessionFatal(p) == Opens(p) /\ ~PortFree /\ Ends(p) /\ UNCHANGED faults

\* networkSessionErrorHandler() stops listening until the next session is open.
SessionError(p) ==
  /\ required /\ onPort[p]
  /\ onPort' = [onPort EXCEPT ![p] = FALSE]
  /\ UNCHANGED <<pc, cmd, user, peer, link, hasPath, quitting, main, required, path, patient, faults>>

\* Mutant: a loop that was told to end takes another round.
PollOn(d) ==
  LET mine(S) == {c \in Proc : peer[c] = d /\ link[c] \in S}
  IN  /\ pc[d] = "loop"
      /\ mine({"readable"}) = {} /\ mine({"queued", "accepted"}) # {}
      /\ link' = [c \in Proc |-> IF c \in mine({"queued"}) THEN "accepted"
                                 ELSE IF c \in mine({"accepted"}) THEN "readable" ELSE link[c]]
      /\ UNCHANGED <<pc, cmd, user, peer, hasPath, quitting, main, onPort, required, path, patient, faults>>

\* One round of the event loop: what was readable when it began is served in it,
\* new connections are accepted.
Poll(d) ==
  LET mine(S) == {c \in Proc : peer[c] = d /\ link[c] \in S}
  IN  /\ pc[d] = "loop" /\ ~quitting[d]
      /\ mine({"readable"}) = {} /\ mine({"queued", "accepted"}) # {}
      /\ link' = [c \in Proc |-> IF c \in mine({"queued"}) THEN "accepted"
                                 ELSE IF c \in mine({"accepted"}) THEN "readable" ELSE link[c]]
      /\ UNCHANGED <<pc, cmd, user, peer, hasPath, quitting, main, onPort, required, path, patient, faults>>

\* stop() deletes the controller whenever the pointer is set; it never clears it.
Deleted(m) == IF m = "null" THEN "null" ELSE IF m = "live" THEN "deleted" ELSE "twice"

\* Mutant: alive ends the loop as terminate does.
StopsOnAlive(c) == cmd[c] \in {"terminate", "start"}
Stops(c) == cmd[c] = "terminate" /\ "CannotBeStopped" \notin ServiceFlags
Suspends(c) == cmd[c] \in {"pause", "resume"} /\ "CanBeSuspended" \in ServiceFlags

\* slotReady(): the answer to one command. quit() lets the rest of the round run.
Serve(d, c) ==
  /\ pc[d] = "loop" /\ peer[c] = d /\ link[c] = "readable"
  /\ main' = [main EXCEPT ![d] = IF Stops(c) THEN Deleted(main[d]) ELSE main[d]]
  /\ onPort' = [onPort EXCEPT ![d] = onPort[d] /\ ~Stops(c)]
  /\ quitting' = [quitting EXCEPT ![d] = quitting[d] \/ Stops(c)]
  /\ link' = [link EXCEPT ![c] = IF Stops(c) \/ Suspends(c) \/ cmd[c] \in {"start", "num"}
                                    THEN "true" ELSE "false"]
  /\ UNCHANGED <<pc, cmd, user, peer, hasPath, required, path, patient, faults>>

\* A second delete of the controller: the process may die of it at any later time.
Corrupted(d) == main[d] = "twice" /\ Ends(d) /\ UNCHANGED faults

\* The round is over and the loop told to end: exec() returns, the application is
\* deleted and QTcpServer::close() resets what was not accepted.
CloseListener(d) ==
  /\ pc[d] = "loop" /\ quitting[d]
  /\ \A c \in Proc : ~(peer[c] = d /\ link[c] = "readable")
  /\ pc' = [pc EXCEPT ![d] = "closed"]
  /\ link' = HangUp(d, {"queued"})
  /\ UNCHANGED <<cmd, user, peer, hasPath, quitting, main, onPort, required, path, patient, faults>>

\* The rest of close() unlinks the path, whoever bound it last; then the process ends.
Cleanup(d) ==
  /\ pc[d] = "closed"
  /\ pc' = [pc EXCEPT ![d] = "idle"]
  /\ path' = [u \in User |-> IF hasPath[d] /\ u = user[d] THEN NoFile ELSE path[u]]
  /\ hasPath' = [hasPath EXCEPT ![d] = FALSE]
  /\ quitting' = [quitting EXCEPT ![d] = FALSE]
  /\ main' = [main EXCEPT ![d] = "null"]
  /\ onPort' = [onPort EXCEPT ![d] = FALSE]
  /\ link' = HangUp(d, Requests)
  /\ UNCHANGED <<cmd, user, peer, required, patient, faults>>

\* The host, or an operator, kills a daemon (or a service run with -e).
Kill(d) ==
  /\ pc[d] \in {"init", "unlinked", "bound", "start", "loop", "closed"}
  /\ faults < MaxFaults /\ faults' = faults + 1
  /\ Ends(d)

------------------------------------------------------------------------------
Command(p) == \E c \in Commands, u \in User : Invoke(p, c, u)
Client(p) == Connect(p) \/ Finish(p) \/ Spawn(p)
Daemon(p) ==
  \/ Unlink(p) \/ Bind(p) \/ Listen(p) \/ Start(p) \/ StartFatal(p)
  \/ Poll(p) \/ (\E c \in Proc : Serve(p, c)) \/ CloseListener(p) \/ Cleanup(p)
Network(p) == OpenSession(p) \/ SessionFatal(p) \/ SessionError(p)
Fault(p) == Kill(p) \/ Corrupted(p)

SCNext == \E p \in Proc : Command(p) \/ Client(p) \/ Daemon(p) \/ Network(p) \/ Fault(p)
SCSpec == SCInit /\ [][SCNext]_vars

\* The host schedules every process. Nobody has to give a command or kill,
\* and no network session has to open or fail.
SCFairness == \A p \in Proc : WF_vars(Client(p)) /\ WF_vars(Daemon(p))
SCFairSpec == SCSpec /\ SCFairness

------------------------------------------------------------------------------
\* Every variable has its type.
SCTypeOK ==
  /\ pc \in [Proc -> Places] /\ cmd \in [Proc -> AllCommands] /\ user \in [Proc -> User]
  /\ peer \in [Proc -> Proc] /\ link \in [Proc -> {"none"} \cup Requests \cup Replies]
  /\ hasPath \in [Proc -> BOOLEAN] /\ quitting \in [Proc -> BOOLEAN]
  /\ main \in [Proc -> {"null", "live", "deleted", "twice"}]
  /\ onPort \in [Proc -> BOOLEAN] /\ required \in BOOLEAN
  /\ path \in [User -> Proc \cup {NoFile, Stale}]
  /\ patient \in BOOLEAN /\ faults \in 0 .. MaxFaults

\* Whatever commands, kills, races of starts and lost network sessions there were,
\* at most one process of the host listens to clients, and a process has a live
\* MainController exactly while its event loop is to go on: no terminate comes
\* before start() or leaves a controller or its port behind, in which ever round of
\* the loop it was served. Where no session is required every live controller
\* listens, so only one is alive; where one is, several can be.
OneController ==
  /\ \A p, q \in Proc : onPort[p] /\ onPort[q] => p = q
  /\ \A p \in Proc : onPort[p] => main[p] = "live"
  /\ \A p \in Proc : main[p] = "live" <=> pc[p] = "loop" /\ ~quitting[p]
  /\ ~required => \A p \in Proc : main[p] = "live" => onPort[p]

\* As long as a command was only given when the last one and all it set off have
\* come to an end, -v tells the truth to every user: isRunning() is true just when
\* a daemon of that user serves, whatever was killed, at whichever step of its
\* start or its end, and whatever file it left behind.
StatusTrue ==
  patient /\ Settled => \A u \in User : IsRunning(u) <=> \E d \in Proc : Serving(d) /\ user[d] = u

\* Then a daemon on its way up never meets one of the same user that serves: its
\* unlink() takes no reachable socket away, and the port is not taken by its like.
StartMeetsNobody ==
  patient => \A p, d \in Proc : cmd[p] = "start" /\ Serving(d) /\ user[d] = user[p] =>
    pc[p] \notin {"spawn", "init", "unlinked", "bound", "start"}

\* waitForReadyRead(-1) has no timeout, yet every command comes back: a daemon that
\* dies, ends or is quitting either answers or closes, at whichever step it is.
CommandReturns == \A p \in Proc : pc[p] = "waiting" ~> pc[p] # "waiting"

\* A terminate answered "true" ends the process of the daemon that answered (unless
\* it has ended before the answer is read, and its slot is another daemon's).
TerminateEnds ==
  \A d \in Proc :
    (quitting[d] /\ \E c \in Proc : cmd[c] = "terminate" /\ link[c] = "true" /\ peer[c] = d)
      ~> pc[d] = "idle"

\* However many starts race, if nobody terminates or kills and the database can be
\* opened, one of the daemons comes up and stays up: the port decides between them.
ServiceComesUp ==
  [](faults = 0 /\ \A p \in Proc : cmd[p] # "terminate") =>
    ((\E p \in Proc : pc[p] = "init") ~> [](\E d \in Proc : main[d] = "live"))

==============================================================================
