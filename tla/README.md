# Verification of ProcessControllerServer

A Qt program that runs on a web host, starts the web applications listed in a
MySQL database as child processes, restarts the ones that crash, and is to take
deploy, takedown and configure requests from remote clients. This directory
holds TLA+ models of it, TLC configurations that check them on small instances,
and TLAPS proofs for instances of any size. Paths below are relative to the
repository, whose sources are under `src/src/` seen from here.

## 1. Inventory

| Part | State it keeps | Operations | What is hard about it |
|---|---|---|---|
| `ServerProcess` | the QProcess state, cached pid, retries, self-terminate flag, load timer | start, stop, restart; handlers of finished and errorOccurred; load update | signals of the child queued before or after a stop; crash loops; a count that doubles as an error code |
| `AppController` | map of `ServerProcess` objects, `running-servers.log`, column `server_state` | start up with cleanup, shut down, deploy, take down, configure, receiver of processDead | crash of the controller between a fork and its record; recycled pids; overlap of old and new instances of a name; unanswered UPDATEs |
| `Database` | tables User and ServerProcess | queryDB | every query may fail; callers look at the answer of reads only; streams whose cells are known by their place; two nested loops of retries |
| `TcpCommunicator` | list of connected sockets; handlers waiting for a pong | accept, write, disconnect, network session errors | client ids are list positions and shift; a handler per write that is never disconnected |
| `MainController` | verified clients | forwards messages (stub), forgets a client | inherits the ids of TcpCommunicator |
| `Service`, `main` | pointer to MainController | start, stop | a second terminate deletes it again |
| `QtSolutions` (vendored) | control socket, service settings | start, terminate, pause, resume, num, exec, isRunning; install, uninstall | starts race for the socket and the port; commands wait without a timeout; files of dead daemons |
| `AppConfigurer`, `AppDeployer`, `AppTakeDown`, `AppUpgrader`, `AppMonitor` | none | none | empty classes |
| `Test` | none | hand-run checks | the only creator of an AppController |

Interaction: `Service` owns `MainController`, which owns `TcpCommunicator` and
`Database`. `AppController` (created by `Test` only, so far) owns the
`ServerProcess` objects and is the only receiver of their `processDead()`. Both
write to table ServerProcess: `AppController` column `server_state`,
`ServerProcess` columns `crash_count` and `server_load`. Everything runs on one
Qt event loop; the child processes, the database and the death of the
controller itself are what moves beside it.

What makes each part correct:

* `ServerProcess`: its pid is its child's; a stop is final, is not counted as a
  crash and is never lost; a crash loop ends.
* `AppController`: map, file and `server_state` agree with what runs; the next
  controller finds every orphan in the file, with stated exceptions; a start
  loop ends with every port of the row served once.
* `TcpCommunicator`: each client is addressed by an id of its own, each message
  is sent once and to the client it was meant for.
* `Database`: a request reaches MySQL as its caller meant it and an answer its
  caller as the rows hold it; a request is not given up early.
* `Service`: start and stop are paired; at most one daemon listens to clients (and,
  where no network session has to be opened first, is there at all), and the
  commands of its user reach it and come back.

The complete list of hazards, with source lines and the properties that cover
them, is `hazards` in PROJECT.json.

## 2. Plan

| Step | Modules | Content | State |
|---|---|---|---|
| 1 | `ServerProcess`, `ServerProcessProofs` | the objects under any owner | done |
| 2 | `Supervision`, `AppController`, `AppControllerProofs` | the controller composed with the objects, its file and its column; refinement of the abstract supervisor | done |
| 3 | `StartInstances`, `StartInstancesProofs` | machine integers of the start loop | done |
| 4 | `TcpCommunicator` with `MainController`, `TcpCommunicatorProofs` | client ids, pong handlers, network session | done; an abstract specification (a mailbox per client) would not be implemented, see section 7 |
| 5 | `ServiceControl`, `ServiceControlProofs` | `Service` and all commands over the control socket, several users, kills | done |
| 6 | `Database`, `DatabaseProofs` | requests, statements, table and answers | done |
| 7 | `CrashReports`, `CrashReportsProofs` | the files of the crash reports | done |
| 8 | `Deployments`, `DeploymentsProofs` | rows, ports, numbers and deaths of the instances of a name; a second refinement of the abstract supervisor | done |
| 9 | all `*Proofs` | every safety property of every passing run, and the safety half of the liveness properties of controller, commands, listener, rows and deployments | done; what is left is out of the prover's reach (end of section 5) |

## 3. Modules

### ServerProcess

One action is one handler, run to completion on the event loop.

| Definition | Code |
|---|---|
| `Start`, `StartFails` | `start()` of a new object, with and without a successful fork |
| `Stop(S)` | `stop()` of each object of S |
| `Started` | QProcess notices the exec |
| `NormalExit`, `SelfTerminated` | `processFinished()` |
| `GiveUp`, `Restart`, `RestartFails` | `handleProcessCrash()`: retries used up; `restart()` forks; `restart()` cannot fork |
| `FailedToStart` | `processErrorHandler()` |
| `CountCrash` | the crash count in `handleProcessCrash()`; the UPDATE may fail unseen |
| `Exec`, `ExecFails`, `Crash`, `Exit`, `DatabaseFlips` | the host and the database |

`proc` is the process table: a process is forked, live, dead and not yet
reaped in one of three ways, or unknown to the host. An object can be reused
for a later `new ServerProcess` once it has emitted `processDead()`: its
receiver calls `deleteLater()`. `kill()` makes the child dead at once (SIGKILL
cannot be handled); the object learns it later. A restart that cannot fork
emits `processDead()` inside `start()`; the assignments that follow in `start()`
and `handleProcessCrash()` touch an object that is about to be deleted.

### AppController

`AppController` EXTENDS `ServerProcess` and conjoins its operators:
`ProcessDead(o)` is `EmitsProcessDead(o)` together with the lambda connected to
the signal, because the connection is direct. The map `fServers` is a set of
objects (an object knows its name), the file is a bag of pids, `server_state`
has one value per name since every UPDATE names only `server_name`.

`startServerInstances()` is split at the calls between which a crash of the
controller matters: `Spawn`/`SpawnForkFails` (up to and with `start()`) and
`RecordPid`. `pending` counts the rounds left by name; the order of the rows is
left open. While a loop is under way no handler is enabled. Two more cuts are
modelled: `CrashInRewrite` (the file emptied and not yet rewritten) and
`ControllerCrash` in any state. Crashes between two other writes of one handler
differ from these only in `crash_count` and `server_state` while the controller
is down, which no property looks at.

A name without a row is `Name \ Listed`: its UPDATEs match nothing and are
acknowledged, and deploying it starts one instance (ports 0 to 0), as
`deployServer()` does with an empty result. Reads fail exactly while `dbUp` is
FALSE (their retries are immediate); an UPDATE may fail at any time.

Three history variables state the properties and do not influence the rest:
`synced` (the last UPDATE of a name was stored), `unlisted` (processes the file
is known to miss), `drift` (a restart since the last cleanup).

### Supervision

The abstract supervisor: which servers are `served`, which of them somebody
asked to end (`stopping`), whose child is `alive`, and how many relaunches each
has `left`. A request asks some to end and launches others; a child dies; a dead
one may be launched again, unless it was asked to end or nothing is left; a
server whose child is dead is dropped; the controller ends. There is no file,
pid, port or database in it, and no handler: what takes `ServerProcess` and
`AppController` a signal, a queue and several calls is one step here or none.

Both detailed models of the controller implement it (`ImplementsSupervision`):

| `Supervision` | `AppController` | `Deployments` |
|---|---|---|
| `served` | `fServers` | the instances in the map |
| `stopping` | those with `fSelf_Terminate` | those with `stopped` |
| `alive` | those whose cached pid is a live process | those whose life is that of a live child |
| `left` | `RetryLimit - fRetries` | `RetryLimit - retries` |
| `Request` | `Spawn`, `TakedownServer`, `Configure`, `ShutdownAllServers` | `Deploy`, `Takedown`, `Configure` |
| `Die` | `Crash`, `Exit`, `ExecFails` of a supervised child | `Killed`, `Crash`, `Exit`, a child that meets a port in use |
| `Relaunch`, `Drop` | the handlers of finished and errorOccurred | `ProcessFinished` |
| `Halt` | destructor and crash of the controller | - |

The first has the file, pids that are recycled and a controller that dies, but
one server per round and few names; the second has rows, ports and servers that
are launched together and die late. What is common to them is the supervisor.

### StartInstances

The loop over `quint16` ports with its `quint8` instance number, both as
arithmetic modulo a constant.

### Deployments

What `AppController` leaves out to stay small: the instances a name gets when it
has no, one or several rows, or is deployed while it is up. An instance is a
record of name, port and number (with a copy number, since the map may hold two
equal ones); `RowsOf` and `FirstRows` say which row `deployServer()` reads, if the
database answers at all. `startServerInstances()` is one action here: its cuts are
`AppController`'s. Any of its forks may fail: `start()` then emits `processDead()`
before it returns, the receiver takes the instance off the map, the loop goes on
and the request is answered with success (`Forks`). An exec may fail and a program
end by itself (`Exit`), and a restart may find no fork; all of these are counted
in `failures`. `NumberOf` wraps as the `quint8` does that the instance number is.
Two history variables tell which of the behaviours a property is about: `careful`
(nobody has deployed a name that was up) and `prompt` (whatever a takedown has
killed was dead before a later child bound its port; the code does not wait for
that).

| Definition | Code |
|---|---|
| `Deploy`, `Takedown`, `Configure` | the slots of `AppController` and what they call |
| `Instances`, `NumberOf`, `PortsOf`, `Forks` | `startServerInstances()`, with the receiver of a `processDead()` inside `start()` |
| `Starts` | `deployServer()` when the row could be read |
| `Stopped` | `takedownServer()` |
| `ProcessFinished`, `GivesUp` | `processFinished()`, `processErrorHandler()`, `handleProcessCrash()` and the receiver of `processDead()` |
| `Bind`, `Killed`, `Crash`, `Exit` | the started program and the host |

A program that finds its port taken is assumed to exit, as a server does that
cannot listen. What it does is not part of the repository.

### CrashReports

One instance directory with the reports of both kinds, the objects that use it
one after the other or side by side, and a host on which reports are deleted
and disks fill up. `Makes` is `createCrashDir()`, `Number` and `Copies` are the
call of `QFile::copy()`, `Crash` is the part of `handleProcessCrash()` after the
count. `log` says whether the instance has a log to copy. `due` and `touched`
are history variables. Working directories are taken to be absolute, as those in
the test program are.

### Database

A request is written by its caller (`Request`), read back by `queryDB()` into a
statement (`insertQuery` .. `deleteQuery`), run by MySQL (`Insert`, `Update`,
`Delete`, `Orders`), and the answer is written by `selectDBQuery()` (`Selected`)
and read by the caller (`Read`). Each of these is an operator on sequences, so
that number, order and type of the cells matter as in the code; those that walk a
sequence (`Nth`, `Typed`, `Selected`) are written with sets and functions, which
is what makes them open to proof. `ReadAnswered`,
`ReadRefused` and `Write` are the queries of one request, `inner` and `outer` the
counters of the two loops of retries; the event loop waits for all of them, so
no other request begins before the last one has ended. A connection that breaks
in a write leaves open whether MySQL stored it (`Write`). `StrictMode` is the
setting of the server that decides what becomes of a value out of range.
`refused` is a history variable.

### ServiceControl

| Definition | Code |
|---|---|
| `Invoke` | `QtServiceBase::exec()` with the options of a command |
| `Connect`, `Finish`, `Spawn` | `sendCmd()` and `QtServiceBasePrivate::start()` |
| `Unlink`, `Bind`, `Listen` | the calls of `QtUnixServerSocket::setPath()` |
| `Start`, `StartFatal` | `slotStart()`, `Service::start()`; a fatal message of the constructors it calls |
| `OpenSession`, `SessionFatal`, `SessionError` | `openSession()` after the constructor, with the port free or taken; `networkSessionErrorHandler()` |
| `Poll`, `Serve` | one round of the event loop: `incomingConnection()`, `slotReady()` with `Service::stop()` |
| `CloseListener`, `Cleanup` | the end of `QtServiceBasePrivate::run()` and `QtUnixServerSocket::close()` |
| `Kill`, `Ends`, `Corrupted` | the host; a double delete |

Processes of several users share the host and with it TCP port 48004, but not
the path of the socket, which ends in the user's name. `required` says whether the
host wants a network session opened before anything listens (as in
`TcpCommunicator`, whose session states are one bit here, `onPort`). If not, the
constructor of the controller listens and is fatal without the port. If so, the
constructor comes first and the port later: several controllers can be alive, and
the one that opens its session second ends by `qFatal()`. A fatal message ends the
process as a kill does. A command may be given at any time. The history variable
`patient` tells the behaviours in which each was given when everything that was
set off before had come up or ended; `StatusTrue` and `StartMeetsNobody` are
about those, all other properties about any order and number of commands.

### TcpCommunicator

| Definition | Code |
|---|---|
| `TCInit` | the constructor; without sessions it ends in `openSession()` |
| `ConfigInvalid`, `ConfigValid` | `configUpdated()` |
| `SessionOpened` | `openSession()`; a port that cannot be bound ends the program |
| `SessionFails` | `networkSessionErrorHandler()` |
| `AcceptConnection` | `acceptConnection()` with `writeHttpData()` of the SETID message |
| `Pong` | the handler that `writeHttpData()` connects to the pong |
| `Disconnected` | the handler connected to `disconnected()`, with `removeVerifiedClient()` |
| `Destroy` | the destructor |
| `Answer`, `UnaskedPong`, `Close` | the remote client |

`writeHttpData()` never disconnects the handler of a pong, so every further pong of
the client runs it again; where `Unasked` is TRUE clients send such pongs.
`ping` and its answer stand for the frames on the connection, `conn` for what
Qt knows of it: a connection that has ended is "closing" until the handler has
run. `acceptConnection()` calls itself until nothing is pending; since
`newConnection()` is emitted once for each connection there is one to take. The
handlers that a second `openSession()` connects again find nothing to do. A
list that is read beyond its end is undefined: the model ends the program,
sends to any socket, or to none.

A client that comes back does so on a new socket, another member of `Client`.
Without a network session (`Required` FALSE) no session object exists and
`networkSessionErrorHandler()` is not called. `got` records what clients were
told; the code does not keep it.

## 4. Runs

| Run | Instance | Shows |
|---|---|---|
| `server_process` | 2 objects, 3 pids, 2 restarts, counts to 3 | `PidsOwnedOnce`, `NoRestartAfterStop`, `CountsOnlyCrashes`, `StopCompletes`, `CrashLoopEnds` |
| `webapp_promise` | 1 object, 9 restarts as in the code, counts to 12 | violation: see section 7 |
| `app_controller` | 2 instances of a listed name, 3 pids, 1 restart each | `Supervised`, `LiveAreListed`, `FileExact`, `StateSynced`, `CleanupComplete`, `TakedownHitsName`, refinement of `Supervision` |
| `app_controller_live` | 1 server of a listed and 1 of an unlisted name, 2 pids, no restarts | `TakedownHitsName`, `StoppedLeave` |
| `tcp_communicator` | 3 clients that also send pongs unasked, sessions required | `ListExact`, `IDsRespective`, `OneSession`, `EveryoneTold`, `ListensAgain` |
| `tcp_ids`, `tcp_pong` | 3 clients, no sessions | violations: see section 7 |
| `deployments` | a name with 1 row of 2 ports, one with 2 rows, one without; 4 instances, 2 requests, 1 crash, 1 failed fork, exec or child | `OwnLogFiles`, `ConfiguredIsOneRow`, `ComesUp`, `GoesAway`, refinement of `Supervision` |
| `crash_reports` | 2 objects, one of them of a web application, 4 crashes | `ReportsComplete`, `RecordsAgain` |
| `database` | 3 keys of 2 names, counts to 2, 3 times 3 tries, values cut off | `ReadsAsMeant`, `WritesAsMeant`, `CountMovesByOne`, `GivenUpLate` |
| `service_control` | 3 processes of a user; start, -e, terminate and pause at any time; 1 fault; hosts with and without network sessions | `OneController`, `StatusTrue`, `StartMeetsNobody`, `CommandReturns`, `TerminateEnds`, `ServiceComesUp` |
| `start_instances` | 8 ports, 4 numbers, all rows | `NumbersUnique`, `WholeRow`, `RowEnds` |

The type invariants of the other modules, and `TimerMirrorsStop`,
`PortsInOrder`, `ReportsKept`, `StoppedGetNoChild` and `ColumnsTyped`, are not
in a run: they are proved for all instances (section 5). So are the invariants
that only the proof modules define.

Bounds. `Object` and `Pid` are small sets; three pids for two objects leave one
for an orphan of an earlier controller, so that pids are recycled while both
objects run. `CountMax` stands for 65535; it is reached in `server_process` and
the runs of the controller, and larger than the number of crashes in
`webapp_promise`, so that only the database can make a count unreadable there. The
retry limit is nine in the code; it only sets how long a crash loop is, and the
proofs leave it open. With `MaxEntries` = 2 a pid can be listed by a stale entry
and by its present owner at once. `HasRoom` keeps requests within the objects of
the model; `MaxStarts` cuts the one loop of `StartInstances` that does not end and
is larger than any loop that does. Pids are symmetric; the liveness runs use no
symmetry. Three clients are the fewest with which one can leave, one stay and one
come. Three processes are two daemons and a command, or a daemon and two commands,
with the third kept for whatever comes between them; resume, num and a second user
add no behaviour to that, only states. Two requests are enough for a name to be
configured while the first children of it and the ones of the last request die and
restart; `MaxServers` leaves room for two generations of the largest row, and for
the start of all rows. `NumberMod` is as large as the largest row of
`deployments`: numbers that wrap are the subject of `start_instances`, and of the
proof for any width. One failure is enough for a round with a gap, a relaunch that
does not come and a child that ends unasked; two in one behaviour are left to the
proofs. `CountTop` and `LoadTop` stand for the largest values of their columns,
and values above them are asked for. Four crashes give both objects a second crash
and leave numbers to be deleted before and after. `StartInstances`,
`TcpCommunicator` and `Deployments` switch the deadlock check off: the loop is
over at some point, the program may end, and a controller without requests and
servers has nothing to do; all other models run for ever.

Fairness. `SPFairness`: the event loop delivers the death of each child.
`ACFairness`: the start loop, plain sequential code, goes on (WF); the handler of
each dead child is run even if requests keep coming in between (SF: the Qt loop
serves its sources in turn, a socket notifier is not starved by queued requests);
nothing makes anybody start a controller that is down. `TCFairness`: the event
loop delivers signals, a client that stays answers its ping, the host has a valid
network configuration, and a session that is opened again and again opens at some
time (assumptions about client and network, without which neither can be
promised). `SCFairness`: the host schedules every process, commands and daemons
alike; no network session has to open or fail. `DPFairSpec`: children run, signals
arrive and the event loop goes on; as requests and crashes are bounded there, one
WF over all of it lets each child come to its end. Nothing is assumed of children,
database, or the crash of the controller.

## 5. Proofs

Each `*Proofs` module has the same shape: an inductive invariant, a lemma per
action (and, where it is long, per conjunct) that says the action keeps it, one
theorem that puts them together, and then the properties, each from the
invariant. Every inductive invariant was checked by TLC on the instance of its
run before it was proved.

`ServerProcessProofs`: `SPInv` is the type invariant, `PidsOwnedOnce`,
`TimerMirrorsStop` and `InactiveIsFresh` (an object without a child carries no
mark, no pid and no retries). The last one is needed because `start()` does not
reset the flag: a reused object must come out of the constructor clean. The
lemmas `StartInv`, `StopInv`, ... state that each operation preserves `SPInv`;
they are used again for the controller. `SPStep` is a step of the objects under
an owner that stops any set of them at once. What is proved of `SPStep` holds
under `SPSpec` and under the controller: a stopped object ends its life or keeps
its child (`StepEndsOrKeeps`, for `NoRestartAfterStop`), a count moves only for
a crash (`StepCountsACrash`, for `CountsOnlyCrashes`), and a child that was told
to end is dead (`StepKeepsDead`, for `StoppedAreDead`). The last is what
`StopCompletes` needs besides fairness: only the signal is outstanding.

`AppControllerProofs`: `ACInv` adds to `SPInv` the type of the controller's
variables, `Supervised`, `LiveAreListed`, `StateSynced` and three facts the
properties alone do not give: `DownIsEmpty`, `InHand` (what the round under way
holds: a child, or pid 0 and a file without entry "0") and `ExactInRound`, which
is `FileExact` corrected by the round under way. Steps that touch neither map,
file nor column are covered once by `QuietInv`. From `ACInv` follow the
invariants, `CleanupComplete` and `TakedownHitsName`. `ControllerStep` says that
to the objects every step of the controller is an `SPStep`, the cleanup of an
earlier controller's children, or the end of all objects; with it the theorems
`Controller...` carry the properties of the objects over, to an owner that dies
at any point and comes back.

`Implementation`: every step is a step of `Supervision` or leaves its variables
unchanged. The order of the calls matters here in two places. A relaunch
(`RestartImplements`) must find the child before it dead and leave all others
alone, although the host may hand out the dead child's pid again; this is where
`PidsOwnedOnce` and `Supervised` are used. A drop (`ProcessDeadImplements`) must
come after the death, whichever of the five ends of a child it is.

`StartInstancesProofs`: type, `PortsInOrder`, `WholeRow` and `NumbersUnique` for
integers of any width. The last one goes through `NumbersApart`: the numbers of
two instances differ by the rounds between them, modulo the width.
`RoundsAreLeft` bounds the rounds of a row by its ports, so that the loop ends
because it runs out of ports and not because of the bound of the model (the
safety half of `RowEnds`); `LastPortNeverEnds` is its counterpart for a row that
ends at the largest port.

`ServiceControlProofs`: types, `OneController` (from the port being looked at when
a session is opened or, without one, when the controller is made), and under
patient operators `StatusTrue` and `StartMeetsNobody`. The invariant they need
says that a socket file belongs to the process that bound it, that a daemon whose
path is set owns the file of its user, and that at most one process is on its way
up or down, and then no command is under way but the one that process serves.
`NobodyForgotten` is the safety half of `CommandReturns` for operators of any
kind: a command that waits has its answer, or its connection leads to a daemon of
its own user that is still to read it or to close it. Its invariant `SCWaitInv`
uses no patience; the fact it turns on is `PathListens`, that who finds a socket
file of a process past `bind()` meets a listener.

`DatabaseProofs`: the type of the request under way and the counters of its tries
(`DBInv`) give `GivenUpLate`; `WritesAsMeant` follows from what each of the four
kinds of request is read back as, field by field. The reads need more. What is
read from a stream that names no cell is proved by going through it one position
at a time: `SelectIs` and `ColumnsMeant` say which cells each row is written as,
`StreamIs` where the cells of row i are in the stream, `ReadIs` what a caller that
reads them by position gets, `OrderIs` that an order of the rows leaves none out,
and `AnswerIs` puts them together for the four readers. `TInv` adds to
`ReadsAsMeant` the type of table and request and `CountIsNext`: between the read
of a crash count and its write nobody else writes that row, so that what is to be
written is the count plus one. `CountMovesByOne` follows. The type invariant
`DBTypeOK` is part of `TInv` and no result of its own: that a value stays in the
range of its column is MySQL's doing (`Stored`). `ColumnsTyped`, a fact about the
schema alone, says that every column has a type to be read by.

`DeploymentsProofs`: `DPInv` is `OwnLogFiles` with the types of map and answers.
`InstancesApart` says that the instances of a row differ in port, and in number
unless their ports are `NumberMod` or more apart (by `NumbersApart`: a `quint8`
repeats itself no sooner), `InstancesCounted` that they are as many as its ports,
`InstancesFresh` that none is in the map yet: by `CopyIsFree` a name and port
cannot use up the copy numbers while the map has room. What stays of a name after
a request is then either a part of what was wanted before (`FewerWanted`) or those
instances of one row whose fork worked (`NewWanted`, `StartsEffect`; `ForksCounts`
counts the others). `ConfiguredIsOneRow` and `StoppedGetNoChild` follow from the
same facts. `DownIsDown`, the safety half of `GoesAway`, says that a takedown
leaves no instance of its name that is to stay, and that nothing but a request for
that name brings one back. `DPImplementation` is the refinement of `Supervision`;
`RequestEffect` says once what every request does to the map, however it ends.

`CrashReportsProofs`: `CRInv` adds to the type that the directory is there when
it has reports, and, while nothing was touched, that it is there as soon as an
object has made it. Counting files and taking the count as the next number is
sound just as long as the numbers have no gap; `ReportsComplete` and
`RecordsAgain` both come down to that.

`TcpCommunicatorProofs`: `TCInv` adds `Positions` to the four invariants: while
nobody has left, the id bound to each pong handler is the position of its
socket. `IDsRespective` alone is not inductive, for it says nothing of a pong
that is still to come. `NoLonger` bounds the list by the number of clients,
which keeps ids in their range; `Removal` says what `removeOne()` leaves.
`PingUnderway` and `OneOfThree` are the safety halves of `EveryoneTold` (until
somebody leaves) and `ListensAgain`: a client that was told nothing has a ping or
an answer under way, and a listener that is deaf has an update or a session under
way, never two at once.

The proofs assume the named ASSUMEs of the modules only: what the constants are,
for `StartInstances` that the bound exceeds the number of ports, for `Deployments`
that no row has port 0. They hold for
any number of objects, names, pids, rows, retries and clients.

Only model-checked are the liveness properties: `StopCompletes`, `CrashLoopEnds`,
`ComesUp`, `StoppedLeave`, `RowEnds`, `EveryoneTold`, `ListensAgain`,
`GoesAway`, `CommandReturns`, `TerminateEnds` and `ServiceComesUp`. Fairness and
ENABLED are out of reach of the prover; for seven of them the part that is a
safety property is proved, as said above.

## 6. Not modelled

* `processCPULoad()` beyond what it may return (a `ps` that hangs blocks the
  event loop for thirty seconds; there is no time in the models), log messages,
  command lines and working directories.
* The table User, which only the test program uses, and the tables' creation.
* Install and uninstall, which write the settings only, `QtServiceController::start()`
  (no code calls it), syslog, help and version output, and the parts of
  `QtSolutions` for other systems than Unix.
* Failures to open `running-servers.log`. The code reports them and goes on.
* `~ServerProcess()` runs before the QProcess it derives from is destroyed, so a
  child that dies by itself at that very moment reaches `processFinished()` of a
  half destroyed object. What can come of it is a crash of the controller after
  all children were killed, which has the outcome of `DestroyController`.
* Processes of the host that are not servers.
* `startupAllServers()` on a controller that already runs: no code calls it so.
* `setName()`, `setPort()`, `setInstanceNumber()`: no code calls them.
* TLS, the encoding and compression of messages, and roaming between network
  configurations. Messages from clients end in an empty `dataReceived()`;
  nothing emits `sendData()`; nothing is ever added to `fVerified_Clients`.
* The empty classes.

## 7. Findings

`webapp_promise`: when the crash count cannot be read, `handleProcessCrash()`
logs that "the record will be -1 incorrect but the webapp will be restarted"
(ServerProcess.cpp:274-276). The restart that follows depends on `fRetries`
alone (277): the tenth crash of a server drops it, database or not. In the run the
database goes away before the tenth crash.

`tcp_ids`: `acceptConnection()` is "to give each client their respective socket
Id's" (TcpCommunicator.cpp:169-170), but the id is a position in a list that
gets shorter (181, where a comment suspects it): A and B connect and are told 0
and 1, A leaves, C connects and is told 1 too.

`tcp_pong`: `writeHttpData()` is to "wait for a corresponding pong from the
client before sending the payload to the client" (80-82), but its handler looks
the receiver up by position when the pong comes in (88): A leaves before B
answers, and B's pong sends B's message to C, or reads beyond the list.

Facts the properties state as exceptions and that are worth knowing:

* A restarted child is missing in `running-servers.log` (its old pid stays
  listed), so a crash of the controller leaves it running beside the instance
  the next controller starts (`LiveAreListed`, first exception).
* `isRunning()` is to return "true if the service is running; otherwise ... false"
  (qtservice.cpp:260). A start command only sees a daemon that already listens
  (qtservice_unix.cpp:409). A second start, given as soon as the first command
  has returned, sets off a second daemon: both unlink, the first binds the path,
  the second runs on without a socket but gets the port, the first ends on it.
  The service runs, its status says no, and terminate does not reach it
  (`StatusTrue` is about patient operators).
* `Service::stop()` never clears its pointer and `quit()` does not end the round
  of the event loop, so two terminates that are readable in one round delete the
  controller twice (Service.cpp:29; `Corrupted`).
* A row that ends at port 65535 starts servers without end (`Bounded`;
  `LastPortNeverEnds` is the proof).
* A name deployed on top of itself gets instances with the same ports and log
    files (`OwnLogFiles` assumes that nobody does), and so do instances of one row
  whose ports are a multiple of 256 apart, of the log files; CONFIGURE of a name with
  several rows leaves the instances of one of them (`ConfiguredIsOneRow`), and
  may find the ports still held by the children it has just killed, in which
  case the new ones exit for good (`ComesUp` is about prompt deaths).
* After a crash report was deleted, the number of the next one can be taken, and
  then no crash is reported any more (`RecordsAgain`).
* A name without a row is deployed as a server on port 0, and this is answered as a
  success; no property calls it wrong.
* DEPLOY and CONFIGURE are answered with success whatever became of their forks and
  execs: ports of failed ones stay empty (`ConfiguredIsOneRow` and `ComesUp` count
  them).
* Where the host wants a network session opened first, a second daemon can come up
  beside the first and make a controller of its own; it ends by `qFatal()` when its
  session opens, or takes the port over if the other has just lost its session
  (`OneController` says what holds there).
* A failed UPDATE leaves `server_state` wrong until the next one (`synced`).
