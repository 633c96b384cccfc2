------------------------------- MODULE Database -------------------------------
(* The class Database and the requests it is sent. A caller writes a request     *)
(* into a byte stream, queryDB() reads it back into an SQL statement, MySQL runs  *)
(* it, and the rows of a SELECT travel back in a stream that the caller reads    *)
(* cell by cell. Nothing in a stream names its cells: both sides rely on order,  *)
(* number and type. The MySQL server may go away and come back at any time.      *)
(*                                                                               *)
(* A stream is a sequence, a text a value, a row a record of the columns that    *)
(* change; every other column of a row has a value of its own. Of the two tables *)
(* the rows of ServerProcess are modelled: only Test.cpp uses User.              *)
EXTENDS Integers, Sequences, FiniteSets

CONSTANTS
  Keys,        \* keys of the unique index: <<server_name, url and ports>>
  CountTop,    \* largest crash_count, 65535 in the code: reads as (quint16)-1
  LoadTop,     \* largest server_load, 9.99 in the code
  Loads,       \* what processCPULoad() can return
  StrictMode,  \* MySQL refuses a value out of range; else it stores the nearest
  OuterTries,  \* tries of startupAllServers() and deployServer(): 5
  Retries      \* retries of retrieveData(): 6

ASSUME DBAssumption ==
  /\ CountTop \in Nat \ {0} /\ LoadTop \in Nat /\ Loads \subseteq Nat /\ StrictMode \in BOOLEAN
  /\ OuterTries \in Nat \ {0} /\ Retries \in Nat
  /\ \A k \in Keys : k = <<k[1], k[2]>> /\ k[1] # "all"

VARIABLES
  table,    \* the rows of ServerProcess by key
  up,       \* the MySQL server answers
  caller,   \* the request that is being made
  inner,    \* queries of the running retrieveData()
  outer,    \* calls of retrieveData() that have failed
  refused,  \* queries of this request that were refused, up to RefusedBound (to
            \* state properties)
  got       \* what the last READ gave its caller

vars == <<table, up, caller, inner, outer, refused, got>>

ServerName == {k[1] : k \in Keys}
Rows == [crash_count : 0 .. CountTop, server_state : {"OFFLINE", "ONLINE"}, server_load : 0 .. LoadTop]
NewRow == [crash_count |-> 0, server_state |-> "OFFLINE", server_load |-> 0]
All == "all"        \* no WHERE
RefusedBound == OuterTries * (Retries + 1) + 1
None == [by |-> "none"]

------------------------------------------------------------------------------
(* Columns.                                                                      *)
columnNameInString ==
  [USERNAME |-> "username", PASSWORD |-> "password", LOGINCOUNT |-> "login_count", LASTLOGIN |-> "last_login",
   GRANTPRIV |-> "grant_priv", DEPLOYPRIV |-> "deploy_priv", TAKEDOWNPRIV |-> "takedown_priv",
   CONFIGUREPRIV |-> "configure_priv", CLIENTNAME |-> "client_name", MOBILE |-> "mobile", EMAIL |-> "email",
   ADDRESS |-> "address", PROJECTSTARTDATE |-> "project_start_date", PROJECTSTOPDATE |-> "project_stop_date",
   SERVERNAME |-> "server_name", SERVERDEPLOYDATE |-> "server_deploy_date",
   SERVERTAKEDOWNDATE |-> "server_takedown_date", SERVERSTATE |-> "server_state",
   SERVERDESCRIPTION |-> "server_description", SERVERCOST |-> "server_cost", DEPLOYMENTCOST |-> "deployment_cost",
   CRASHCOUNT |-> "crash_count", INSTANCECOUNT |-> "instance_count", URL |-> "url", IP |-> "ip",
   PORTSTART |-> "port_start", PORTSTOP |-> "port_stop", HOSTSERVERNAME |-> "host_server_name",
   VPSOVZSOLUTION |-> "vps_ovz_solution", SERVERLOAD |-> "server_load", DIRECTORY |-> "directory",
   SUPPORTADS |-> "support_ads", OTHERWEBAPIS |-> "other_webapis", WEBAPP |-> "webapp"]

\* What CREATE TABLE says of the columns of User and ServerProcess.
Schema ==
  [TINYINT |-> {"instance_count"},
   SMALLINT |-> {"login_count", "crash_count", "port_start", "port_stop"},
   DATETIME |-> {"last_login", "project_start_date", "project_stop_date", "server_deploy_date",
                 "server_takedown_date"},
   ENUM |-> {"grant_priv", "deploy_priv", "takedown_priv", "configure_priv", "server_state", "support_ads",
             "other_webapis", "webapp"},
   NUMBER |-> {"server_cost", "deployment_cost", "server_load"},
   TEXT |-> {"username", "password", "client_name", "mobile", "email", "address", "server_name",
             "server_description", "url", "ip", "host_server_name", "vps_ovz_solution", "directory"}]

columnDataType(name) ==
  IF name = "instance_count" THEN "TINYINTUNSIGNED"
  ELSE IF name \in {"login_count", "crash_count", "port_start", "port_stop"} THEN "SMALLINTUNSIGNED"
  ELSE IF name \in {"username", "password", "client_name", "mobile", "email", "address", "server_name",
                    "server_description", "url", "ip", "host_server_name", "vps_ovz_solution", "grant_priv",
                    "deploy_priv", "takedown_priv", "configure_priv", "support_ads", "other_webapis",
                    "server_load", "server_cost", "deployment_cost", "server_state", "directory", "webapp"}
         THEN "STRING"
  ELSE IF name \in {"last_login", "project_start_date", "project_stop_date", "server_deploy_date",
                    "server_takedown_date"} THEN "DATETIME"
  ELSE "NULLVALUE"

------------------------------------------------------------------------------
(* Requests: what a caller wants, and the stream it writes.                      *)
Reads == [by : {"load", "count", "deploy"}, name : ServerName] \cup {[by |-> "startup", name |-> All]}
Updates ==
  [by : {"update"}, name : ServerName, column : {"CRASHCOUNT"}, value : 0 .. CountTop]
  \cup [by : {"update"}, name : ServerName, column : {"SERVERLOAD"}, value : Nat]
  \cup [by : {"update"}, name : ServerName, column : {"SERVERSTATE"}, value : {"OFFLINE", "ONLINE"}]
Creates == [by : {"create"}, key : Keys]
Deletes == [by : {"delete"}, name : ServerName]

Columns == [load |-> <<"SERVERLOAD">>, count |-> <<"CRASHCOUNT">>,
            startup |-> <<"SERVERNAME", "IP", "PORTSTART", "PORTSTOP", "DIRECTORY", "WEBAPP">>,
            deploy |-> <<"IP", "PORTSTART", "PORTSTOP", "DIRECTORY", "WEBAPP">>]

\* The C++ types of the variables the caller reads the cells into.
Variables == [load |-> <<"STRING">>, count |-> <<"SMALLINTUNSIGNED">>,
              startup |-> <<"STRING", "STRING", "SMALLINTUNSIGNED", "SMALLINTUNSIGNED", "STRING", "STRING">>,
              deploy |-> <<"STRING", "SMALLINTUNSIGNED", "SMALLINTUNSIGNED", "STRING", "STRING">>]

Request(r) ==
  LET names(cs) == [i \in 1 .. Len(cs) |-> columnNameInString[cs[i]]]
  IN  CASE r \in Reads -> <<Len(Columns[r.by]), "ServerProcess", r.name>> \o names(Columns[r.by])
        [] r.by = "update" -> <<1, "ServerProcess", r.name, <<columnNameInString[r.column], r.value>> >>
        [] r.by = "create" -> <<2, "ServerProcess", columnNameInString["SERVERNAME"], columnNameInString["URL"],
                                 r.key[1], r.key[2]>>
        [] r.by = "delete" -> <<"ServerProcess", r.name>>

\* queryDB(): the statement each kind of request is read as.
insertQuery(b) == [into |-> b[2], fields |-> SubSeq(b, 3, 2 + b[1]), values |-> SubSeq(b, 3 + b[1], 2 + 2 * b[1])]
selectQuery(b) ==
  [from |-> b[2], where |-> b[3], fields |-> SubSeq(b, 4, 3 + b[1]),
   columns |-> [i \in 1 .. b[1] |-> columnDataType(b[3 + i])]]
\* Mutant: the condition is not read.
updateQueryAll(b) == [table |-> b[2], where |-> All, set |-> SubSeq(b, 4, 3 + b[1])]
updateQuery(b) == [table |-> b[2], where |-> b[3], set |-> SubSeq(b, 4, 3 + b[1])]
deleteQuery(b) == [from |-> b[1], where |-> b[2]]

------------------------------------------------------------------------------
(* MySQL.                                                                        *)
Matches(k, where) == where = All \/ where = k[1]
Field(k, name) ==
  IF name \in {"crash_count", "server_state", "server_load"} THEN table[k][name]
  ELSE IF name = "server_name" THEN k[1] ELSE <<name, k>>

Insert(s) ==
  LET k == s.values IN
  IF k \in DOMAIN table THEN table
  ELSE [l \in DOMAIN table \cup {k} |-> IF l = k THEN NewRow ELSE table[l]]

\* A value too large for its column: refused, or cut off.
TopOf(name) == IF name = "crash_count" THEN CountTop ELSE LoadTop
Stored(name, v, old) ==
  IF name = "server_state" \/ v <= TopOf(name) THEN v
  ELSE IF StrictMode THEN old ELSE TopOf(name)

Update(s) ==
  LET name == s.set[1][1]
  IN  [k \in DOMAIN table |->
         IF Matches(k, s.where) THEN [table[k] EXCEPT ![name] = Stored(name, s.set[1][2], table[k][name])]
         ELSE table[k]]

Delete(s) == [k \in {l \in DOMAIN table : ~Matches(l, s.where)} |-> table[k]]

Written(r) ==
  CASE r.by = "update" -> Update(updateQuery(Request(r)))
    [] r.by = "create" -> Insert(insertQuery(Request(r)))
    [] r.by = "delete" -> Delete(deleteQuery(Request(r)))

\* The orders MySQL may return the rows of a SELECT in: there is no ORDER BY.
Orders(s) ==
  LET hits == {k \in DOMAIN table : Matches(k, s.where)}
  IN  {o \in [1 .. Cardinality(hits) -> hits] : \A i, j \in DOMAIN o : o[i] = o[j] => i = j}

\* The columns of a SELECT that have a type, and the n-th of them.
Typed(s) == {i \in DOMAIN s.columns : s.columns[i] # "NULLVALUE"}
Nth(n, T) == CHOOSE i \in T : Cardinality({j \in T : j <= i}) = n
Cell(s, o, m) ==
  LET w == Cardinality(Typed(s))
      c == Nth((m % w) + 1, Typed(s))
  IN  <<s.columns[c], Field(o[(m \div w) + 1], s.fields[c])>>

\* selectDBQuery(): the count, then the cells of each row that have a type. The
\* count is written twice, the second time over the first.
\* Mutant: the count of the rows is never written over the zero.
SelectedUncounted(s, o) ==
  [m \in 1 .. 1 + Len(o) * Cardinality(Typed(s)) |-> IF m = 1 THEN 0 ELSE Cell(s, o, m - 2)]
Selected(s, o) ==
  [m \in 1 .. 1 + Len(o) * Cardinality(Typed(s)) |-> IF m = 1 THEN Len(o) ELSE Cell(s, o, m - 2)]

\* The caller's reading: past the end a variable is set to its zero, and a cell of
\* another type is read as something else. Only startup looks at the count.
Read(by, b) ==
  LET types == Variables[by]
      cell(m, t) == IF m > Len(b) THEN <<"empty", t>>
                    ELSE IF b[m][1] = t THEN <<"value", b[m][2]>> ELSE <<"garbage", t>>
  IN  [i \in 1 .. (IF by = "startup" THEN b[1] ELSE 1) |->
        [j \in 1 .. Len(types) |-> cell(1 + (i - 1) * Len(types) + j, types[j])]]

------------------------------------------------------------------------------
DBInit ==
  /\ table = [k \in {} |-> NewRow] /\ up = TRUE
  /\ caller = None /\ inner = 0 /\ outer = 0 /\ refused = 0 /\ got = None

\* A handler makes a request; it keeps the event loop until it has its answer.
Ask(r) ==
  /\ caller = None
  /\ caller' = r /\ inner' = 0 /\ outer' = 0 /\ refused' = 0 /\ got' = None
  /\ UNCHANGED <<table, up>>

\* What the handler of a READ asks next: handleProcessCrash() counts the crash
\* unless the count is the error value, updateServerLoad() stores the mean.
\* Mutant: the count is one of 16 bits.
FollowUpsWrapped(r, rows) ==
  LET v == IF rows[1][1][1] = "value" THEN rows[1][1][2] ELSE 0
  IN  IF r.by = "count" THEN {[by |-> "update", name |-> r.name, column |-> "CRASHCOUNT", value |-> (v + 1) % (CountTop + 1)]}
      ELSE {None}
FollowUps(r, rows) ==
  LET v == IF rows[1][1][1] = "value" THEN rows[1][1][2] ELSE 0
  IN  IF r.by = "count" /\ v # CountTop
        THEN {[by |-> "update", name |-> r.name, column |-> "CRASHCOUNT", value |-> v + 1]}
      ELSE IF r.by = "load"
        THEN {[by |-> "update", name |-> r.name, column |-> "SERVERLOAD", value |-> (v + l) \div 2] : l \in Loads}
      ELSE {None}

ReadAnswered ==
  /\ up /\ caller \in Reads
  /\ LET s == selectQuery(Request(caller))
     IN  \E o \in Orders(s) : \E body \in {Selected(s, o)} : \E rows \in {Read(caller.by, body)} :
           got' = [asked |-> caller, rows |-> rows] /\ caller' \in FollowUps(caller, rows)
  /\ refused' = 0
  /\ UNCHANGED <<table, up, inner, outer>>

\* A READ that is refused is asked again: seven times, and by the two callers in
\* AppController that do it themselves five times seven times.
\* Mutant: retrieveData() stops as soon as its caller has failed before.
OutOfTriesEarly(r) == inner = Retries \/ outer > 0
OutOfTries(r) == inner = Retries
LastCall(r) == r.by \in {"load", "count"} \/ outer + 1 = OuterTries

ReadRefused ==
  /\ caller \in Reads /\ ~up
  /\ refused' = IF refused < RefusedBound THEN refused + 1 ELSE refused
  /\ IF ~OutOfTries(caller)
       THEN inner' = inner + 1 /\ UNCHANGED <<outer, caller>>
     ELSE IF ~LastCall(caller)
       THEN inner' = 0 /\ outer' = outer + 1 /\ UNCHANGED caller
     ELSE caller' = None /\ UNCHANGED <<inner, outer>>
  /\ UNCHANGED <<table, up, got>>

\* A write is asked once and its answer looked at by nobody. When the connection
\* is lost in it, MySQL may have done it all the same.
Write ==
  /\ caller # None /\ caller \notin Reads
  /\ \/ up /\ table' = Written(caller) /\ up' = TRUE
     \/ up /\ table' \in {table, Written(caller)} /\ up' = FALSE
     \/ ~up /\ UNCHANGED <<table, up>>
  /\ caller' = None /\ got' = None
  /\ UNCHANGED <<inner, outer, refused>>

ServerFlips == up' = ~up /\ UNCHANGED <<table, caller, inner, outer, refused, got>>

DBNext ==
  \/ \E r \in Reads \cup Creates \cup Deletes : Ask(r)
  \/ \E n \in ServerName, st \in {"OFFLINE", "ONLINE"} :
       Ask([by |-> "update", name |-> n, column |-> "SERVERSTATE", value |-> st])
  \/ ReadAnswered \/ ReadRefused \/ Write \/ ServerFlips
DBSpec == DBInit /\ [][DBNext]_vars

------------------------------------------------------------------------------
(* Properties.                                                                   *)

\* Every variable has its type. That a value stays in its column's range is not the
\* program's doing but MySQL's, which refuses it or cuts it off (Stored).
DBTypeOK ==
  /\ DOMAIN table \subseteq Keys /\ \A k \in DOMAIN table : table[k] \in Rows
  /\ up \in BOOLEAN /\ caller \in {None} \cup Reads \cup Updates \cup Creates \cup Deletes
  /\ inner \in 0 .. Retries /\ refused \in 0 .. RefusedBound /\ outer \in 0 .. OuterTries - 1
  /\ got # None => got.asked \in Reads

\* Every enumerator names a column of a table, in a type that holds what MySQL
\* stores there (but toBool() makes 0 or 1 of an instance_count), so that no
\* column is left out of an answer and shifts the cells after it.
ColumnsTyped ==
  \A c \in DOMAIN columnNameInString :
    LET name == columnNameInString[c]
        kind == columnDataType(name)
    IN  \/ kind = "TINYINTUNSIGNED" /\ name \in Schema.TINYINT
        \/ kind = "SMALLINTUNSIGNED" /\ name \in Schema.SMALLINT
        \/ kind = "DATETIME" /\ name \in Schema.DATETIME
        \/ kind = "STRING" /\ name \in Schema.ENUM \cup Schema.NUMBER \cup Schema.TEXT

\* What the reads are meant to find, told without streams: for startup every row of
\* the table once, for the others some row of the name.
Meant == [load |-> <<"server_load">>, count |-> <<"crash_count">>,
          startup |-> <<"server_name", "ip", "port_start", "port_stop", "directory", "webapp">>,
          deploy |-> <<"ip", "port_start", "port_stop", "directory", "webapp">>]

\* An answered READ gives its caller what the rows hold, column for column, from
\* the stream one function writes and another one reads. Without a row of the name
\* the variables are zero: deployServer() takes that for a server.
ReadsAsMeant ==
  got # None =>
    LET r == got.asked
        row(k) == [j \in DOMAIN Meant[r.by] |-> <<"value", Field(k, Meant[r.by][j])>>]
        hits == {k \in DOMAIN table : Matches(k, r.name)}
    IN  IF r.by = "startup"
          THEN /\ Len(got.rows) = Cardinality(hits)
               /\ {got.rows[i] : i \in DOMAIN got.rows} = {row(k) : k \in hits}
          ELSE IF hits # {} THEN \E k \in hits : got.rows = <<row(k)>>
          ELSE got.rows = <<[j \in DOMAIN Meant[r.by] |-> <<"empty", Variables[r.by][j]>>]>>

\* A write changes the table exactly as its caller meant, or not at all: one column
\* of the rows of one name, one new row beside the old ones, or the rows of a name.
\* No read, refusal or retry changes it.
WritesAsMeant ==
  [][table' # table =>
      \/ /\ caller.by = "update" /\ DOMAIN table' = DOMAIN table
         /\ \A k \in DOMAIN table :
              LET c == columnNameInString[caller.column]
              IN  /\ \A f \in DOMAIN NewRow \ {c} : table'[k][f] = table[k][f]
                  /\ IF k[1] = caller.name THEN table'[k][c] = Stored(c, caller.value, table[k][c])
                                           ELSE table'[k][c] = table[k][c]
      \/ /\ caller.by = "create" /\ caller.key \notin DOMAIN table
         /\ DOMAIN table' = DOMAIN table \cup {caller.key}
         /\ \A k \in DOMAIN table : table'[k] = table[k]
      \/ /\ caller.by = "delete" /\ DOMAIN table' = {k \in DOMAIN table : k[1] # caller.name}
         /\ \A k \in DOMAIN table' : table'[k] = table[k]]_vars

\* The crash count of a name with a single row moves by one or not at all: counting
\* is a READ and an UPDATE of what was read plus one, with losses between them, and
\* the value that stands for an error is never counted on from.
Single(k) == \A l \in DOMAIN table : l[1] = k[1] => l = k
CountMovesByOne ==
  [][\A k \in DOMAIN table \cap DOMAIN table' :
       Single(k) => table'[k].crash_count \in {table[k].crash_count, table[k].crash_count + 1}]_vars

\* A READ is given up only after it was refused seven times in a row, and in
\* AppController five times seven.
TriesOf(r) == (Retries + 1) * (IF r.by \in {"load", "count"} THEN 1 ELSE OuterTries)
GivesUp == caller \in Reads /\ caller' = None /\ ~up /\ UNCHANGED got
GivenUpLate == [][GivesUp => refused' = TriesOf(caller)]_vars

==============================================================================
