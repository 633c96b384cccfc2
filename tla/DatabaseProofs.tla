--------------------------- MODULE DatabaseProofs ---------------------------
(* Proofs about the requests to the database, for any rows, ranges and numbers   *)
(* of retries.                                                                   *)
EXTENDS Database, SequenceTheorems, FiniteSetTheorems, TLAPS

\* An update of one of the three columns that change, whatever the value.
Changing == {"crash_count", "server_state", "server_load"}
IsUpdate(r) ==
  \E n \in ServerName, c \in {"CRASHCOUNT", "SERVERSTATE", "SERVERLOAD"}, v \in {r.value} :
    r = [by |-> "update", name |-> n, column |-> c, value |-> v]

\* The statement a request for a write is read as is the one its caller meant.
LEMMA UpdateRequest ==
  ASSUME NEW r, IsUpdate(r)
  PROVE  /\ r \notin Reads /\ r.by = "update"
         /\ updateQuery(Request(r)).where = r.name
         /\ updateQuery(Request(r)).set[1] = <<columnNameInString[r.column], r.value>>
<1> DEFINE s == <<columnNameInString[r.column], r.value>>
           b == <<1, "ServerProcess", r.name, s>>
           S == {1, "ServerProcess", r.name, s}
<1>1. r.by = "update" /\ r \notin Reads
  BY DEF IsUpdate, Reads
<1>2. Request(r) = b
  BY <1>1 DEF Request
<1>3. SubSeq(b, 4, 3 + b[1])[1] = s
  <2> HIDE DEF s
  <2>1. b \in Seq(S) /\ Len(b) = 4 /\ b[1] = 1 /\ b[4] = s
    OBVIOUS
  <2> HIDE DEF b, S
  <2>2. SubSeq(b, 4, 4)[1] = b[4 + 1 - 1]
    BY <2>1, SubSeqProperties
  <2> QED  BY <2>1, <2>2
<1>4. updateQuery(b).where = r.name /\ updateQuery(b).set = SubSeq(b, 4, 3 + b[1])
  BY DEF updateQuery
<1> HIDE DEF b
<1> QED  BY <1>1, <1>2, <1>3, <1>4

LEMMA DeleteRequest ==
  ASSUME NEW r \in Deletes
  PROVE  /\ r \notin Reads /\ r.by = "delete"
         /\ deleteQuery(Request(r)) = [from |-> "ServerProcess", where |-> r.name]
<1>1. r.by = "delete" /\ r \notin Reads
  BY DEF Deletes, Reads
<1>2. Request(r) = <<"ServerProcess", r.name>>
  BY <1>1 DEF Request
<1> QED  BY <1>1, <1>2 DEF deleteQuery

LEMMA CreateRequest ==
  ASSUME NEW r \in Creates
  PROVE  /\ r \notin Reads /\ r.by = "create"
         /\ insertQuery(Request(r)).values = r.key
<1> DEFINE n1 == columnNameInString["SERVERNAME"]
           n2 == columnNameInString["URL"]
           c == <<2, "ServerProcess", n1, n2, r.key[1], r.key[2]>>
           S == {r.key[1], r.key[2]}
<1>1. r.by = "create" /\ r \notin Reads /\ r.key \in Keys
  BY DEF Creates, Reads
<1>2. Request(r) = c
  BY <1>1 DEF Request
<1>3. r.key = <<r.key[1], r.key[2]>>
  BY <1>1, DBAssumption
<1> HIDE DEF n1, n2
<1>4. SubSeq(c, 5, 6) = <<r.key[1], r.key[2]>>
  <2>1. c[5] = r.key[1] /\ c[6] = r.key[2]
    OBVIOUS
  <2> HIDE DEF c
  <2>2. \A i \in 5 .. 6 : c[i] \in S
    <3>1. \A i \in 5 .. 6 : i = 5 \/ i = 6
      OBVIOUS
    <3> QED  BY <2>1, <3>1
  <2> HIDE DEF S
  <2>3. /\ SubSeq(c, 5, 6) \in Seq(S) /\ Len(SubSeq(c, 5, 6)) = 6 - 5 + 1
        /\ SubSeq(c, 5, 6)[1] = c[5 + 1 - 1] /\ SubSeq(c, 5, 6)[2] = c[5 + 2 - 1]
    BY <2>2, SubSeqProperties
  <2>4. ASSUME NEW q \in Seq(S), Len(q) = 2
        PROVE  q = <<q[1], q[2]>>
    BY <2>4
  <2> DEFINE q == SubSeq(c, 5, 6)
  <2>5. q \in Seq(S) /\ Len(q) = 2 /\ q[1] = c[5] /\ q[2] = c[6]
    BY <2>3
  <2> HIDE DEF q
  <2>6. q = <<q[1], q[2]>>
    BY <2>4, <2>5
  <2> QED  BY <2>1, <2>5, <2>6 DEF q
<1>5. insertQuery(c).values = SubSeq(c, 5, 6)
  BY DEF insertQuery
<1> HIDE DEF c
<1> QED  BY <1>2, <1>1, <1>3, <1>4, <1>5

IsRequest == caller = None \/ caller \in Reads \cup Creates \cup Deletes \/ IsUpdate(caller)
HasRows == \A k \in DOMAIN table : table[k] = [f \in Changing |-> table[k][f]]

\* Every refusal is counted: by the retry it led to, or the call it ended.
RefusalsCounted ==
  /\ inner \in 0 .. Retries /\ outer \in 0 .. OuterTries - 1
  /\ caller \in Reads => refused = (Retries + 1) * outer + inner
  /\ caller \in Reads /\ caller.by \in {"load", "count"} => outer = 0

DBInv == IsRequest /\ HasRows /\ RefusalsCounted

LEMMA NewRowIs == NewRow = [f \in Changing |-> NewRow[f]]
BY DEF NewRow, Changing

LEMMA NoneIs == None \notin Reads /\ None \notin Creates /\ None \notin Deletes /\ ~IsUpdate(None)
  BY DEF None, Reads, Creates, Deletes, IsUpdate

\* The column an update names is one that changes.
LEMMA ColumnIs ==
  ASSUME NEW r, IsUpdate(r)
  PROVE  columnNameInString[r.column] \in Changing /\ r.name \in ServerName
<1>1. r.column \in {"CRASHCOUNT", "SERVERSTATE", "SERVERLOAD"} /\ r.name \in ServerName
  BY DEF IsUpdate
<1>2. /\ columnNameInString["CRASHCOUNT"] = "crash_count"
      /\ columnNameInString["SERVERSTATE"] = "server_state"
      /\ columnNameInString["SERVERLOAD"] = "server_load"
  BY DEF columnNameInString
<1> QED  BY <1>1, <1>2 DEF Changing

LEMMA NameIsNotAll == \A n \in ServerName : n # All
  BY DBAssumption DEF ServerName, All

\* What each write does to the table.
Means(r, t) ==
  \/ /\ r.by = "update" /\ DOMAIN t = DOMAIN table
     /\ \A k \in DOMAIN table :
          LET c == columnNameInString[r.column]
          IN  /\ \A f \in DOMAIN NewRow \ {c} : t[k][f] = table[k][f]
              /\ IF k[1] = r.name THEN t[k][c] = Stored(c, r.value, table[k][c])
                                  ELSE t[k][c] = table[k][c]
  \/ /\ r.by = "create" /\ r.key \notin DOMAIN table
     /\ DOMAIN t = DOMAIN table \cup {r.key}
     /\ \A k \in DOMAIN table : t[k] = table[k]
  \/ /\ r.by = "delete" /\ DOMAIN t = {k \in DOMAIN table : k[1] # r.name}
     /\ \A k \in DOMAIN t : t[k] = table[k]

LEMMA WrittenIs ==
  ASSUME HasRows, IsRequest, caller # None, caller \notin Reads
  PROVE  /\ Written(caller) # table => Means(caller, Written(caller))
         /\ \A k \in DOMAIN Written(caller) :
              /\ Written(caller)[k] = [f \in Changing |-> Written(caller)[k][f]]
              /\ k \notin DOMAIN table => Written(caller)[k] = NewRow
<1>1. CASE IsUpdate(caller)
  <2> DEFINE c == columnNameInString[caller.column]
             t == Written(caller)
             s == updateQuery(Request(caller))
  <2>1. s.where = caller.name /\ s.set[1] = <<c, caller.value>> /\ caller.by = "update"
    BY <1>1, UpdateRequest
  <2>2. caller.name # All /\ c \in Changing
    BY <1>1, ColumnIs, NameIsNotAll
  <2>3. t = Update(s)
    BY <2>1 DEF Written
  <2> HIDE DEF c, t, s
  <2>4. t = [k \in DOMAIN table |->
               IF k[1] = caller.name THEN [table[k] EXCEPT ![c] = Stored(c, caller.value, table[k][c])]
               ELSE table[k]]
    BY <2>1, <2>2, <2>3 DEF Update, Matches
  <2>5. ASSUME NEW k \in DOMAIN table
        PROVE  /\ t[k] = [f \in Changing |-> t[k][f]]
               /\ \A f \in Changing \ {c} : t[k][f] = table[k][f]
               /\ IF k[1] = caller.name THEN t[k][c] = Stored(c, caller.value, table[k][c])
                                        ELSE t[k][c] = table[k][c]
    <3>1. table[k] = [f \in Changing |-> table[k][f]]
      BY DEF HasRows
    <3>2. CASE k[1] = caller.name
      <4>1. t[k] = [f \in Changing |-> IF f = c THEN Stored(c, caller.value, table[k][c]) ELSE table[k][f]]
        BY <2>4, <3>1, <3>2
      <4> QED  BY <2>2, <3>2, <4>1
    <3>3. CASE k[1] # caller.name
      BY <2>4, <3>1, <3>3
    <3> QED  BY <3>2, <3>3
  <2>6. DOMAIN t = DOMAIN table /\ DOMAIN NewRow = Changing
    BY <2>4 DEF NewRow, Changing
  <2> QED  BY <2>1, <2>5, <2>6 DEF Means, c, t
<1>2. CASE caller \in Creates
  <2> DEFINE t == Written(caller)
  <2>1. insertQuery(Request(caller)).values = caller.key /\ caller.by = "create"
    BY <1>2, CreateRequest
  <2>2. t = Insert(insertQuery(Request(caller)))
    BY <2>1 DEF Written
  <2> HIDE DEF t
  <2>3. t = IF caller.key \in DOMAIN table THEN table
            ELSE [l \in DOMAIN table \cup {caller.key} |-> IF l = caller.key THEN NewRow ELSE table[l]]
    BY <2>1, <2>2 DEF Insert
  <2>4. \A k \in DOMAIN t : /\ t[k] = [f \in Changing |-> t[k][f]]
                            /\ k \notin DOMAIN table => t[k] = NewRow
    BY <2>3, NewRowIs DEF HasRows
  <2>5. t # table => Means(caller, t)
    BY <2>1, <2>3 DEF Means
  <2> QED  BY <2>4, <2>5 DEF t
<1>3. CASE caller \in Deletes
  <2> DEFINE t == Written(caller)
  <2>1. deleteQuery(Request(caller)).where = caller.name /\ caller.by = "delete"
    BY <1>3, DeleteRequest
  <2>2. t = Delete(deleteQuery(Request(caller)))
    BY <2>1 DEF Written
  <2>3. caller.name # All
    BY <1>3, NameIsNotAll DEF Deletes
  <2> HIDE DEF t
  <2>4. t = [k \in {l \in DOMAIN table : l[1] # caller.name} |-> table[k]]
    BY <2>1, <2>2, <2>3 DEF Delete, Matches
  <2>5. \A k \in DOMAIN t : t[k] = [f \in Changing |-> t[k][f]]
    BY <2>4 DEF HasRows
  <2> QED  BY <2>1, <2>4, <2>5 DEF Means, t
<1> QED  BY <1>1, <1>2, <1>3 DEF IsRequest

\* A step that leaves the table alone, or writes.
LEMMA TableSteps ==
  ASSUME DBInv, [DBNext]_vars
  PROVE  \/ UNCHANGED table
         \/ Write /\ caller # None /\ caller \notin Reads /\ table' = Written(caller)
<1>1. CASE Write
  BY <1>1 DEF Write
<1>2. CASE ~Write
  BY <1>2 DEF DBNext, Ask, ReadAnswered, ReadRefused, ServerFlips, vars
<1> QED  BY <1>1, <1>2

LEMMA FollowUpsAre ==
  ASSUME NEW r \in Reads, NEW rows, NEW q \in FollowUps(r, rows)
  PROVE  q \notin Reads /\ (q = None \/ IsUpdate(q))
<1>1. CASE q = None
  BY <1>1, NoneIs
<1>2. CASE q # None
  <2>1. r.by \in {"count", "load"}
    BY <1>2 DEF FollowUps
  <2>2. r.name \in ServerName
    BY <2>1 DEF Reads
  <2>3. \E c \in {"CRASHCOUNT", "SERVERLOAD"} :
          q = [by |-> "update", name |-> r.name, column |-> c, value |-> q.value]
    BY <1>2 DEF FollowUps
  <2>4. IsUpdate(q)
    BY <2>2, <2>3 DEF IsUpdate
  <2> QED  BY <2>3, <2>4 DEF Reads
<1> QED  BY <1>1, <1>2

LEMMA DBInitInv == DBInit => DBInv
<1> SUFFICES ASSUME DBInit PROVE DBInv
  OBVIOUS
<1>1. RefusalsCounted
  BY NoneIs, DBAssumption DEF DBInit, RefusalsCounted
<1> QED  BY <1>1 DEF DBInit, DBInv, IsRequest, HasRows

LEMMA RefusedInv ==
  ASSUME DBInv, ReadRefused
  PROVE  DBInv' /\ (caller' = None => refused' = TriesOf(caller))
<1> DEFINE R == Retries + 1
<1>1. /\ Retries \in Nat /\ OuterTries \in Nat /\ OuterTries >= 1
      /\ inner \in 0 .. Retries /\ outer \in 0 .. OuterTries - 1
      /\ refused = R * outer + inner /\ caller \in Reads
      /\ caller.by \in {"load", "count"} => outer = 0
  BY DBAssumption DEF ReadRefused, DBInv, RefusalsCounted
<1>2. R * (outer + 1) = R * outer + R /\ R * outer \in Nat
  BY <1>1
<1>3. R * (outer + 1) <= R * OuterTries
  <2>1. \A a, b, d \in Nat : a <= b => d * a <= d * b
    OBVIOUS
  <2>2. R \in Nat /\ outer + 1 \in Nat /\ OuterTries \in Nat /\ outer + 1 <= OuterTries
    BY <1>1
  <2> QED  BY <2>1, <2>2
<1>4. refused' = refused + 1 /\ refused \in Nat
  <2>1. RefusedBound = OuterTries * R + 1 /\ OuterTries * R = R * OuterTries
    BY <1>1 DEF RefusedBound
  <2>2. refused < RefusedBound
    BY <1>1, <1>2, <1>3, <2>1
  <2> QED  BY <1>1, <1>2, <2>2 DEF ReadRefused
<1>5. UNCHANGED table
  BY DEF ReadRefused
<1>6. CASE ~OutOfTries(caller)
  <2>1. inner' = inner + 1 /\ outer' = outer /\ caller' = caller /\ inner < Retries
    BY <1>1, <1>6 DEF ReadRefused, OutOfTries
  <2>2. RefusalsCounted'
    BY <1>1, <1>2, <1>4, <2>1 DEF RefusalsCounted
  <2> QED  BY <1>1, <1>5, <2>1, <2>2, NoneIs DEF DBInv, IsRequest, HasRows
<1>7. CASE OutOfTries(caller) /\ ~LastCall(caller)
  <2>1. /\ inner' = 0 /\ outer' = outer + 1 /\ caller' = caller /\ inner = Retries
        /\ caller.by \notin {"load", "count"} /\ outer + 1 # OuterTries
    BY <1>7 DEF ReadRefused, OutOfTries, LastCall
  <2>2. RefusalsCounted'
    BY <1>1, <1>2, <1>4, <2>1 DEF RefusalsCounted
  <2> QED  BY <1>1, <1>5, <2>1, <2>2, NoneIs DEF DBInv, IsRequest, HasRows
<1>8. CASE OutOfTries(caller) /\ LastCall(caller)
  <2>1. /\ inner' = inner /\ outer' = outer /\ caller' = None /\ inner = Retries
        /\ caller.by \in {"load", "count"} \/ outer + 1 = OuterTries
    BY <1>8 DEF ReadRefused, OutOfTries, LastCall
  <2>2. RefusalsCounted'
    BY <1>1, <2>1, NoneIs DEF RefusalsCounted
  <2>3. CASE caller.by \in {"load", "count"}
    <3>1. refused' = R /\ TriesOf(caller) = R * 1
      BY <1>1, <1>4, <2>1, <2>3 DEF TriesOf
    <3> QED  BY <1>1, <1>5, <2>1, <2>2, <3>1 DEF DBInv, IsRequest, HasRows
  <2>4. CASE caller.by \notin {"load", "count"}
    <3>1. refused' = R * (outer + 1) /\ outer + 1 = OuterTries
      BY <1>1, <1>2, <1>4, <2>1, <2>4
    <3>2. TriesOf(caller) = R * OuterTries
      BY <2>4 DEF TriesOf
    <3> QED  BY <1>1, <1>5, <2>1, <2>2, <3>1, <3>2 DEF DBInv, IsRequest, HasRows
  <2> QED  BY <2>3, <2>4
<1> QED  BY <1>6, <1>7, <1>8

THEOREM DBInvariance == DBSpec => []DBInv
<1>1. DBInit => DBInv
  BY DBInitInv
<1>2. DBInv /\ [DBNext]_vars => DBInv'
  <2> SUFFICES ASSUME DBInv, [DBNext]_vars PROVE DBInv'
    OBVIOUS
  <2>1. HasRows'
    <3>1. CASE UNCHANGED table
      BY <3>1 DEF DBInv, HasRows
    <3>2. CASE caller # None /\ caller \notin Reads /\ table' = Written(caller)
      <4>1. \A k \in DOMAIN Written(caller) :
              Written(caller)[k] = [f \in Changing |-> Written(caller)[k][f]]
        BY <3>2, WrittenIs DEF DBInv
      <4> QED  BY <3>2, <4>1 DEF HasRows
    <3> QED  BY <3>1, <3>2, TableSteps
  <2>2. ASSUME NEW r, Ask(r), r \in Reads \cup Creates \cup Deletes \/ IsUpdate(r)
        PROVE  IsRequest' /\ RefusalsCounted'
    <3>1. IsRequest'
      BY <2>2 DEF Ask, IsRequest
    <3>2. RefusalsCounted'
      BY <2>2, DBAssumption DEF Ask, RefusalsCounted
    <3> QED  BY <3>1, <3>2
  <2>3. ASSUME NEW n \in ServerName, NEW st \in {"OFFLINE", "ONLINE"}
        PROVE  IsUpdate([by |-> "update", name |-> n, column |-> "SERVERSTATE", value |-> st])
    BY DEF IsUpdate
  <2>4. CASE ReadAnswered
    <3>1. PICK rows : caller' \in FollowUps(caller, rows)
      BY <2>4 DEF ReadAnswered
    <3>2. caller' \notin Reads /\ (caller' = None \/ IsUpdate(caller'))
      BY <2>4, <3>1, FollowUpsAre DEF ReadAnswered
    <3>3. RefusalsCounted'
      BY <2>4, <3>2 DEF ReadAnswered, DBInv, RefusalsCounted
    <3> QED  BY <2>1, <3>2, <3>3 DEF DBInv, IsRequest
  <2>5. CASE ReadRefused
    BY <2>5, RefusedInv
  <2>6. CASE Write
    <3>1. IsRequest'
      BY <2>6 DEF Write, IsRequest
    <3>2. RefusalsCounted'
      BY <2>6, NoneIs DEF Write, DBInv, RefusalsCounted
    <3> QED  BY <2>1, <3>1, <3>2 DEF DBInv
  <2>7. CASE ServerFlips \/ UNCHANGED vars
    BY <2>1, <2>7 DEF ServerFlips, vars, DBInv, IsRequest, RefusalsCounted, IsUpdate
  <2> QED  BY <2>1, <2>2, <2>3, <2>4, <2>5, <2>6, <2>7 DEF DBNext, DBInv
<1> QED  BY <1>1, <1>2, PTL DEF DBSpec

\* Whatever rows there are, and whatever the server does to the connection, the
\* table changes by the writes that were asked for and as they were meant.
THEOREM WritesAreAsMeant == DBSpec => WritesAsMeant
<1>1. DBInv /\ [DBNext]_vars => [table' # table => Means(caller, table')]_vars
  BY TableSteps, WrittenIs DEF DBInv
<1> QED  BY <1>1, DBInvariance, PTL DEF DBSpec, WritesAsMeant, Means

\* No READ is given up before its last try, for any number of retries.
THEOREM GivenUpAtTheEnd == DBSpec => GivenUpLate
<1>1. ASSUME DBInv, [DBNext]_vars, GivesUp
      PROVE  refused' = TriesOf(caller)
  <2>1. ReadRefused /\ caller' = None
    BY <1>1, NoneIs DEF GivesUp, DBNext, Ask, ReadAnswered, Write, ServerFlips, vars
  <2> QED  BY <1>1, <2>1, RefusedInv
<1>2. DBInv /\ [DBNext]_vars => [GivesUp => refused' = TriesOf(caller)]_vars
  BY <1>1
<1> QED  BY <1>2, DBInvariance, PTL DEF DBSpec, GivenUpLate

------------------------------------------------------------------------------
(* The reads: what a caller reads from the stream of its answer.                 *)

\* The n-th member of an interval from 1 is n.
LEMMA NthIs ==
  ASSUME NEW n \in Nat, NEW i \in 1 .. n
  PROVE  Nth(i, 1 .. n) = i
<1>1. ASSUME NEW k \in 1 .. n
      PROVE  Cardinality({j \in 1 .. n : j <= k}) = k
  <2>1. {j \in 1 .. n : j <= k} = 1 .. k
    OBVIOUS
  <2>2. Cardinality(1 .. k) = k
    BY FS_Interval
  <2> QED  BY <2>1, <2>2
<1> QED  BY <1>1 DEF Nth

\* The four reads, and the number of columns each asks for.
ByReads == {"load", "count", "startup", "deploy"}
Width(by) == Len(Columns[by])

\* Each read names a server, or is startup and names all of them.
LEMMA ReadersAre ==
  ASSUME NEW r \in Reads
  PROVE  /\ r.by \in ByReads /\ r.name \in ServerName \cup {All}
         /\ r.by # "startup" => r.name \in ServerName
         /\ r.by = "startup" => r.name = All
BY DEF Reads, ByReads

\* What a read asks for, cell by cell.
LEMMA ColumnsMeant ==
  ASSUME NEW by \in ByReads
  PROVE  /\ Width(by) \in {1, 5, 6}
         /\ DOMAIN Meant[by] = 1 .. Width(by) /\ Len(Variables[by]) = Width(by)
         /\ \A i \in 1 .. Width(by) :
              /\ columnNameInString[Columns[by][i]] = Meant[by][i]
              /\ columnDataType(Meant[by][i]) = Variables[by][i]
              /\ Variables[by][i] # "NULLVALUE"
<1>1. /\ \A i \in 1 .. 1 : i = 1
      /\ \A i \in 1 .. 5 : i = 1 \/ i = 2 \/ i = 3 \/ i = 4 \/ i = 5
      /\ \A i \in 1 .. 6 : i = 1 \/ i = 2 \/ i = 3 \/ i = 4 \/ i = 5 \/ i = 6
  OBVIOUS
<1>2. /\ columnDataType("server_load") = "STRING" /\ columnDataType("crash_count") = "SMALLINTUNSIGNED"
      /\ columnDataType("server_name") = "STRING" /\ columnDataType("ip") = "STRING"
      /\ columnDataType("port_start") = "SMALLINTUNSIGNED" /\ columnDataType("port_stop") = "SMALLINTUNSIGNED"
      /\ columnDataType("directory") = "STRING" /\ columnDataType("webapp") = "STRING"
  BY DEF columnDataType
<1>3. /\ columnNameInString["SERVERLOAD"] = "server_load" /\ columnNameInString["CRASHCOUNT"] = "crash_count"
      /\ columnNameInString["SERVERNAME"] = "server_name" /\ columnNameInString["IP"] = "ip"
      /\ columnNameInString["PORTSTART"] = "port_start" /\ columnNameInString["PORTSTOP"] = "port_stop"
      /\ columnNameInString["DIRECTORY"] = "directory" /\ columnNameInString["WEBAPP"] = "webapp"
  BY DEF columnNameInString
<1>4. CASE by = "load"
  BY <1>1, <1>2, <1>3, <1>4 DEF Width, Columns, Meant, Variables
<1>5. CASE by = "count"
  BY <1>1, <1>2, <1>3, <1>5 DEF Width, Columns, Meant, Variables
<1>6. CASE by = "startup"
  BY <1>1, <1>2, <1>3, <1>6 DEF Width, Columns, Meant, Variables
<1>7. CASE by = "deploy"
  BY <1>1, <1>2, <1>3, <1>7 DEF Width, Columns, Meant, Variables
<1> QED  BY <1>4, <1>5, <1>6, <1>7 DEF ByReads

\* The SELECT that a read is read back as asks for what is meant.
LEMMA SelectIs ==
  ASSUME NEW r \in Reads
  PROVE  LET s == selectQuery(Request(r)) IN
         /\ s.where = r.name
         /\ DOMAIN s.columns = 1 .. Width(r.by)
         /\ \A i \in 1 .. Width(r.by) :
              s.columns[i] = Variables[r.by][i] /\ s.fields[i] = Meant[r.by][i]
<1> DEFINE n == Width(r.by)
           a == <<n, "ServerProcess", r.name>>
           cs == [i \in 1 .. n |-> columnNameInString[Columns[r.by][i]]]
           b == a \o cs
           S == {a[i] : i \in 1 .. 3} \cup {cs[i] : i \in 1 .. n}
<1>1. Request(r) = b
  <2>1. r.by \notin {"update", "create", "delete"}
    BY ReadersAre DEF ByReads
  <2> QED  BY <2>1 DEF Request, Width
<1>2. n \in Nat /\ n >= 1 /\ \A i \in 1 .. n : cs[i] = Meant[r.by][i] /\ columnDataType(cs[i]) = Variables[r.by][i]
  BY ReadersAre, ColumnsMeant
<1>3. a \in Seq(S) /\ cs \in Seq(S) /\ Len(a) = 3 /\ Len(cs) = n /\ a[1] = n /\ a[3] = r.name
  <2>1. a[1] \in S /\ a[2] \in S /\ a[3] \in S
    OBVIOUS
  <2>2. cs \in [1 .. n -> S]
    OBVIOUS
  <2> HIDE DEF n, S, cs
  <2>3. a \in Seq(S)
    BY <2>1
  <2>4. cs \in Seq(S) /\ Len(cs) = n
    BY <1>2, <2>2
  <2> QED  BY <2>3, <2>4
<1> HIDE DEF n, a, cs, S
<1>4. /\ b \in Seq(S) /\ Len(b) = 3 + n /\ b[1] = n /\ b[3] = r.name
      /\ \A i \in 1 .. n : b[3 + i] = cs[i]
  <2>1. /\ b \in Seq(S) /\ Len(b) = Len(a) + Len(cs)
        /\ \A i \in 1 .. Len(a) + Len(cs) : b[i] = IF i <= Len(a) THEN a[i] ELSE cs[i - Len(a)]
    BY <1>3, ConcatProperties
  <2> HIDE DEF b
  <2>2. \A i \in 1 .. n : 3 + i \in 1 .. 3 + n /\ ~(3 + i <= 3) /\ (3 + i) - 3 = i
    BY <1>2
  <2>3. 1 \in 1 .. 3 + n /\ 3 \in 1 .. 3 + n
    BY <1>2
  <2> QED  BY <1>3, <2>1, <2>2, <2>3
<1> HIDE DEF b
<1>5. \A i \in 1 .. n : SubSeq(b, 4, 3 + n)[i] = b[3 + i]
  <2>1. 4 \in 1 .. Len(b) + 1 /\ 3 + n \in 3 .. Len(b) /\ \A i \in 4 .. 3 + n : b[i] \in S
    BY <1>2, <1>4
  <2>2. \A i \in 1 .. (3 + n) - 4 + 1 : SubSeq(b, 4, 3 + n)[i] = b[4 + i - 1]
    BY <1>2, <1>4, <2>1, SubSeqProperties
  <2>3. (3 + n) - 4 + 1 = n /\ \A i \in 1 .. n : 4 + i - 1 = 3 + i
    BY <1>2
  <2> QED  BY <2>2, <2>3
<1> QED  BY <1>1, <1>2, <1>4, <1>5 DEF selectQuery, n

\* The cell of column j of row i, and back.
LEMMA Positions ==
  ASSUME NEW n \in {1, 5, 6}, NEW c \in Nat, NEW i \in 1 .. c, NEW j \in 1 .. n
  PROVE  LET m == 1 + (i - 1) * n + j
         IN  /\ m \in 1 .. 1 + c * n /\ m # 1
             /\ ((m - 2) % n) + 1 = j /\ ((m - 2) \div n) + 1 = i
<1>1. CASE n = 1
  BY <1>1
<1>2. CASE n = 5
  BY <1>2
<1>3. CASE n = 6
  BY <1>3
<1> QED  BY <1>1, <1>2, <1>3

\* The stream of an answer holds the number of rows, and then them cell by cell.
LEMMA StreamIs ==
  ASSUME NEW r \in Reads, NEW c \in Nat, NEW o \in [1 .. c -> DOMAIN table]
  PROVE  LET s == selectQuery(Request(r))
             n == Width(r.by)
             b == Selected(s, o)
         IN  /\ Len(b) = 1 + c * n /\ b[1] = c
             /\ \A i \in 1 .. c, j \in 1 .. n :
                  b[1 + (i - 1) * n + j] = <<Variables[r.by][j], Field(o[i], Meant[r.by][j])>>
<1> DEFINE s == selectQuery(Request(r))
           n == Width(r.by)
           b == Selected(s, o)
<1>1. /\ n \in {1, 5, 6} /\ n \in Nat
      /\ DOMAIN s.columns = 1 .. n
      /\ \A i \in 1 .. n : /\ s.columns[i] = Variables[r.by][i] /\ s.fields[i] = Meant[r.by][i]
                           /\ s.columns[i] # "NULLVALUE"
  BY ReadersAre, ColumnsMeant, SelectIs
<1> HIDE DEF s, n
<1>2. Typed(s) = 1 .. n /\ Cardinality(Typed(s)) = n
  <2>1. Typed(s) = 1 .. n
    BY <1>1 DEF Typed
  <2>2. Cardinality(1 .. n) = n
    BY <1>1, FS_Interval
  <2> QED  BY <2>1, <2>2
<1>3. Len(o) = c /\ c * n \in Nat
  BY <1>1
<1>4. b = [m \in 1 .. 1 + c * n |-> IF m = 1 THEN c ELSE Cell(s, o, m - 2)]
  BY <1>2, <1>3 DEF Selected
<1>5. ASSUME NEW i \in 1 .. c, NEW j \in 1 .. n
      PROVE  b[1 + (i - 1) * n + j] = <<Variables[r.by][j], Field(o[i], Meant[r.by][j])>>
  <2> DEFINE m == 1 + (i - 1) * n + j
  <2>1. m \in 1 .. 1 + c * n /\ m # 1 /\ ((m - 2) % n) + 1 = j /\ ((m - 2) \div n) + 1 = i
    BY <1>1, Positions
  <2> HIDE DEF m
  <2>2. b[m] = Cell(s, o, m - 2)
    BY <1>4, <2>1
  <2>3. Nth(((m - 2) % n) + 1, 1 .. n) = j
    BY <1>1, <2>1, NthIs
  <2>4. Cell(s, o, m - 2) = <<s.columns[j], Field(o[i], s.fields[j])>>
    BY <1>2, <2>1, <2>3 DEF Cell
  <2> QED  BY <1>1, <2>2, <2>4 DEF m
<1>6. Len(b) = 1 + c * n /\ b[1] = c
  <2> HIDE DEF b
  <2>1. c * n + 1 \in Nat /\ 1 \in 1 .. 1 + c * n
    BY <1>3
  <2> QED  BY <1>3, <1>4, <2>1
<1> QED  BY <1>5, <1>6 DEF s, n

\* The row of a key, as its caller should read it.
RowOf(by, k) == [j \in DOMAIN Meant[by] |-> <<"value", Field(k, Meant[by][j])>>]
NoRow(by) == [j \in DOMAIN Meant[by] |-> <<"empty", Variables[by][j]>>]

\* The caller reads back the rows, in the order they were sent in.
LEMMA ReadIs ==
  ASSUME NEW r \in Reads, NEW c \in Nat, NEW o \in [1 .. c -> DOMAIN table]
  PROVE  LET rows == Read(r.by, Selected(selectQuery(Request(r)), o))
         IN  rows = [i \in 1 .. (IF r.by = "startup" THEN c ELSE 1) |->
                      IF i <= c THEN RowOf(r.by, o[i]) ELSE NoRow(r.by)]
<1> DEFINE n == Width(r.by)
           b == Selected(selectQuery(Request(r)), o)
           types == Variables[r.by]
           cell(m, t) == IF m > Len(b) THEN <<"empty", t>>
                         ELSE IF b[m][1] = t THEN <<"value", b[m][2]>> ELSE <<"garbage", t>>
<1>1. /\ n \in {1, 5, 6} /\ DOMAIN Meant[r.by] = 1 .. n /\ Len(types) = n
  BY ReadersAre, ColumnsMeant
<1>2. /\ Len(b) = 1 + c * n /\ b[1] = c
      /\ \A i \in 1 .. c, j \in 1 .. n :
           b[1 + (i - 1) * n + j] = <<types[j], Field(o[i], Meant[r.by][j])>>
  BY StreamIs
<1>3. Read(r.by, b) = [i \in 1 .. (IF r.by = "startup" THEN b[1] ELSE 1) |->
                        [j \in 1 .. Len(types) |-> cell(1 + (i - 1) * Len(types) + j, types[j])]]
  BY DEF Read
<1> HIDE DEF n, b, types
<1>4. ASSUME NEW i \in 1 .. (IF r.by = "startup" THEN c ELSE 1)
      PROVE  [j \in 1 .. n |-> cell(1 + (i - 1) * n + j, types[j])] =
             IF i <= c THEN RowOf(r.by, o[i]) ELSE NoRow(r.by)
  <2>1. CASE i <= c
    <3>1. ASSUME NEW j \in 1 .. n
          PROVE  cell(1 + (i - 1) * n + j, types[j]) = <<"value", Field(o[i], Meant[r.by][j])>>
      <4>1. i \in 1 .. c
        BY <2>1
      <4>2. 1 + (i - 1) * n + j \in 1 .. 1 + c * n
        BY <1>1, <4>1, Positions
      <4>3. b[1 + (i - 1) * n + j] = <<types[j], Field(o[i], Meant[r.by][j])>>
        BY <1>2, <4>1
      <4>4. ~(1 + (i - 1) * n + j > Len(b))
        BY <1>1, <1>2, <4>2
      <4> DEFINE m == 1 + (i - 1) * n + j
      <4> HIDE DEF m
      <4>5. ~(m > Len(b)) /\ b[m] = <<types[j], Field(o[i], Meant[r.by][j])>>
        BY <4>3, <4>4 DEF m
      <4>6. cell(m, types[j]) = <<"value", Field(o[i], Meant[r.by][j])>>
        BY <4>5
      <4> QED  BY <4>6 DEF m
    <3> QED  BY <1>1, <2>1, <3>1 DEF RowOf
  <2>2. CASE ~(i <= c)
    <3>1. i = 1 /\ c = 0
      BY <2>2
    <3>2. ASSUME NEW j \in 1 .. n
          PROVE  cell(1 + (i - 1) * n + j, types[j]) = <<"empty", types[j]>>
      BY <1>1, <1>2, <3>1
    <3> QED  BY <1>1, <2>2, <3>2 DEF NoRow, types
  <2> QED  BY <2>1, <2>2
<1> HIDE DEF cell
<1>5. Read(r.by, b) = [i \in 1 .. (IF r.by = "startup" THEN c ELSE 1) |->
                        [j \in 1 .. n |-> cell(1 + (i - 1) * n + j, types[j])]]
  BY <1>1, <1>2, <1>3
<1>6. Read(r.by, b) = [i \in 1 .. (IF r.by = "startup" THEN c ELSE 1) |->
                        IF i <= c THEN RowOf(r.by, o[i]) ELSE NoRow(r.by)]
  BY <1>4, <1>5
<1> QED  BY <1>6 DEF b

\* An order of the rows leaves none of them out.
LEMMA OrderIs ==
  ASSUME NEW s, IsFiniteSet(DOMAIN table), NEW o \in Orders(s)
  PROVE  LET hits == {k \in DOMAIN table : Matches(k, s.where)}
             c == Cardinality(hits)
         IN  /\ c \in Nat /\ o \in [1 .. c -> DOMAIN table] /\ o \in [1 .. c -> hits]
             /\ {o[i] : i \in 1 .. c} = hits
             /\ c = 0 <=> hits = {}
<1> DEFINE hits == {k \in DOMAIN table : Matches(k, s.where)}
           c == Cardinality(hits)
<1>1. IsFiniteSet(hits)
  <2>1. hits \in SUBSET DOMAIN table
    OBVIOUS
  <2> HIDE DEF hits
  <2> QED  BY <2>1, FS_Subset
<1>2. o \in [1 .. c -> hits] /\ \A i, j \in 1 .. c : o[i] = o[j] => i = j
  BY DEF Orders
<1>3. o \in [1 .. c -> DOMAIN table]
  BY <1>2
<1> HIDE DEF hits
<1>4. c \in Nat /\ (c = 0 <=> hits = {})
  BY <1>1, FS_CardinalityType, FS_EmptySet
<1>5. IsFiniteSet(1 .. c) /\ Cardinality(1 .. c) = c
  BY <1>4, FS_Interval
<1>6. o \in Injection(1 .. c, hits)
  BY <1>2 DEF Injection, IsInjective
<1>7. o \in Surjection(1 .. c, hits)
  BY <1>1, <1>5, <1>6, FS_Injection
<1>8. {o[i] : i \in 1 .. c} = hits
  BY <1>2, <1>7 DEF Surjection
<1> QED  BY <1>2, <1>3, <1>4, <1>8 DEF hits

\* While a crash is counted, what is to be written is the count of the row plus one.
CountIsNext ==
  caller # None /\ caller.by = "update" /\ caller.column = "CRASHCOUNT" =>
    \A k \in DOMAIN table :
      k[1] = caller.name /\ Single(k) => caller.value = table[k].crash_count + 1

TInv == DBTypeOK /\ IsFiniteSet(DOMAIN table) /\ ReadsAsMeant /\ CountIsNext

\* An answer is what the rows hold, in an order of theirs.
LEMMA AnswerIs ==
  ASSUME IsFiniteSet(DOMAIN table), NEW r \in Reads, NEW o \in Orders(selectQuery(Request(r)))
  PROVE  LET rows == Read(r.by, Selected(selectQuery(Request(r)), o))
             hits == {k \in DOMAIN table : Matches(k, r.name)}
         IN  /\ r.by = "startup" => /\ Len(rows) = Cardinality(hits)
                                    /\ {rows[i] : i \in DOMAIN rows} = {RowOf(r.by, k) : k \in hits}
             /\ r.by # "startup" /\ hits # {} => \E k \in hits : rows = <<RowOf(r.by, k)>>
             /\ r.by # "startup" /\ hits = {} => rows = <<NoRow(r.by)>>
<1> DEFINE s == selectQuery(Request(r))
           rows == Read(r.by, Selected(s, o))
           hits == {k \in DOMAIN table : Matches(k, r.name)}
           c == Cardinality(hits)
<1>1. s.where = r.name
  BY SelectIs
<1>2. /\ c \in Nat /\ o \in [1 .. c -> DOMAIN table] /\ o \in [1 .. c -> hits]
      /\ {o[i] : i \in 1 .. c} = hits
      /\ c = 0 <=> hits = {}
  <2> HIDE DEF s
  <2>1. o \in Orders(s)
    BY DEF s
  <2> QED  BY <1>1, <2>1, OrderIs
<1>3. rows = [i \in 1 .. (IF r.by = "startup" THEN c ELSE 1) |->
               IF i <= c THEN RowOf(r.by, o[i]) ELSE NoRow(r.by)]
  <2> HIDE DEF c, hits
  <2>1. c \in Nat /\ o \in [1 .. c -> DOMAIN table]
    BY <1>2
  <2> QED  BY <2>1, ReadIs
<1> HIDE DEF s, rows, hits, c
<1>4. CASE r.by = "startup"
  <2>1. rows = [i \in 1 .. c |-> RowOf(r.by, o[i])]
    BY <1>2, <1>3, <1>4
  <2>2. Len(rows) = c /\ DOMAIN rows = 1 .. c
    BY <1>2, <2>1
  <2>3. {rows[i] : i \in 1 .. c} = {RowOf(r.by, o[i]) : i \in 1 .. c}
    BY <2>1
  <2>4. {RowOf(r.by, o[i]) : i \in 1 .. c} = {RowOf(r.by, k) : k \in hits}
    BY <1>2
  <2> QED  BY <1>4, <2>2, <2>3, <2>4 DEF rows, s, hits, c
<1>5. CASE r.by # "startup" /\ hits # {}
  <2>1. 1 \in 1 .. c /\ o[1] \in hits
    BY <1>2, <1>5
  <2>2. rows = <<RowOf(r.by, o[1])>>
    BY <1>2, <1>3, <1>5, <2>1
  <2> QED  BY <1>5, <2>1, <2>2 DEF rows, s, hits
<1>6. CASE r.by # "startup" /\ hits = {}
  <2>1. rows = <<NoRow(r.by)>>
    BY <1>2, <1>3, <1>6
  <2> QED  BY <1>6, <2>1 DEF rows, s, hits
<1> QED  BY <1>4, <1>5, <1>6 DEF rows, s, hits, c

\* Only startup reads all names.
LEMMA NamesMatch ==
  ASSUME NEW n \in ServerName, NEW k
  PROVE  Matches(k, n) <=> k[1] = n
BY NameIsNotAll DEF Matches

\* What is asked after an answer is in range, and counts on from it.
LEMMA FollowUpsMeant ==
  ASSUME TInv, NEW r \in Reads, NEW o \in Orders(selectQuery(Request(r))),
         NEW q \in FollowUps(r, Read(r.by, Selected(selectQuery(Request(r)), o)))
  PROVE  /\ q \in {None} \cup Updates
         /\ q # None /\ q.column = "CRASHCOUNT" =>
              \A k \in DOMAIN table : k[1] = q.name /\ Single(k) => q.value = table[k].crash_count + 1
<1> DEFINE rows == Read(r.by, Selected(selectQuery(Request(r)), o))
           hits == {k \in DOMAIN table : Matches(k, r.name)}
           v == IF rows[1][1][1] = "value" THEN rows[1][1][2] ELSE 0
<1>1. /\ r.by # "startup" /\ hits # {} => \E k \in hits : rows = <<RowOf(r.by, k)>>
      /\ r.by # "startup" /\ hits = {} => rows = <<NoRow(r.by)>>
  BY AnswerIs DEF TInv
<1>2. /\ CountTop \in Nat \ {0} /\ LoadTop \in Nat /\ Loads \subseteq Nat
      /\ \A k \in DOMAIN table : table[k].crash_count \in 0 .. CountTop /\ table[k].server_load \in 0 .. LoadTop
  BY DBAssumption DEF TInv, DBTypeOK, Rows
<1>3. q \in FollowUps(r, rows)
  OBVIOUS
<1> HIDE DEF rows
<1>4. q = None \/ (r.by = "count" /\ v # CountTop /\ q = [by |-> "update", name |-> r.name, column |-> "CRASHCOUNT", value |-> v + 1])
        \/ (r.by = "load" /\ \E l \in Loads : q = [by |-> "update", name |-> r.name, column |-> "SERVERLOAD", value |-> (v + l) \div 2])
  BY <1>3 DEF FollowUps
<1>5. CASE q = None
  BY <1>5
<1>6. CASE r.by = "count" /\ v # CountTop /\ q = [by |-> "update", name |-> r.name, column |-> "CRASHCOUNT", value |-> v + 1]
  <2>1. Meant[r.by] = <<"crash_count">> /\ r.name \in ServerName
    BY <1>6, ReadersAre DEF Meant
  <2>2. CASE hits = {}
    <3>1. v = 0
      BY <1>1, <1>6, <2>1, <2>2 DEF NoRow
    <3>2. \A k \in DOMAIN table : k[1] # r.name
      BY <2>1, <2>2, NamesMatch
    <3> QED  BY <1>2, <1>6, <2>1, <3>1, <3>2 DEF Updates
  <2>3. CASE hits # {}
    <3>1. PICK k \in hits : rows = <<RowOf(r.by, k)>>
      BY <1>1, <1>6, <2>3
    <3>2. RowOf(r.by, k)[1] = <<"value", table[k].crash_count>>
      BY <2>1 DEF RowOf, Field
    <3>3. v = table[k].crash_count
      BY <3>1, <3>2
    <3>4. k \in DOMAIN table /\ k[1] = r.name
      BY <2>1, NamesMatch
    <3>5. v + 1 \in 0 .. CountTop
      BY <1>2, <1>6, <3>3, <3>4
    <3>6. \A l \in DOMAIN table : l[1] = r.name /\ Single(l) => l = k
      BY <3>4 DEF Single
    <3> HIDE DEF v, hits
    <3> QED  BY <1>6, <2>1, <3>3, <3>5, <3>6 DEF Updates
  <2> QED  BY <2>2, <2>3
<1>7. CASE r.by = "load" /\ \E l \in Loads : q = [by |-> "update", name |-> r.name, column |-> "SERVERLOAD", value |-> (v + l) \div 2]
  <2>1. Meant[r.by] = <<"server_load">> /\ r.name \in ServerName
    BY <1>7, ReadersAre DEF Meant
  <2>2. v \in Nat
    <3>1. CASE hits = {}
      BY <1>1, <1>7, <2>1, <3>1 DEF NoRow
    <3>2. CASE hits # {}
      <4>1. PICK k \in hits : rows = <<RowOf(r.by, k)>>
        BY <1>1, <1>7, <3>2
      <4>2. RowOf(r.by, k)[1] = <<"value", table[k].server_load>>
        BY <2>1 DEF RowOf, Field
      <4> QED  BY <1>2, <4>1, <4>2
    <3> QED  BY <3>1, <3>2
  <2> HIDE DEF v
  <2>3. PICK l \in Loads : q = [by |-> "update", name |-> r.name, column |-> "SERVERLOAD", value |-> (v + l) \div 2]
    BY <1>7
  <2>4. (v + l) \div 2 \in Nat
    BY <1>2, <2>2
  <2> QED  BY <2>1, <2>3, <2>4 DEF Updates
<1> HIDE DEF v
<1> QED  BY <1>4, <1>5, <1>6, <1>7

\* No write leaves a value out of its column's range.
LEMMA WrittenTyped ==
  ASSUME DBInv, DBTypeOK, IsFiniteSet(DOMAIN table), caller # None, caller \notin Reads
  PROVE  LET t == Written(caller)
         IN  DOMAIN t \subseteq Keys /\ IsFiniteSet(DOMAIN t) /\ \A k \in DOMAIN t : t[k] \in Rows
<1> DEFINE t == Written(caller)
<1>1. /\ t # table => Means(caller, t)
      /\ \A k \in DOMAIN t : t[k] = [f \in Changing |-> t[k][f]] /\ (k \notin DOMAIN table => t[k] = NewRow)
  BY WrittenIs DEF DBInv
<1> HIDE DEF t
<1>2. /\ DOMAIN table \subseteq Keys /\ \A k \in DOMAIN table : table[k] \in Rows
      /\ caller \in Updates \cup Creates \cup Deletes
      /\ CountTop \in Nat /\ LoadTop \in Nat
  BY DBAssumption DEF DBTypeOK
<1>3. NewRow \in Rows
  BY <1>2 DEF NewRow, Rows
<1>4. CASE t = table
  BY <1>2, <1>4 DEF t
<1>5. CASE t # table /\ caller.by = "update"
  <2>1. /\ DOMAIN t = DOMAIN table /\ caller \in Updates
        /\ \A k \in DOMAIN table :
             LET c == columnNameInString[caller.column]
             IN  /\ \A f \in DOMAIN NewRow \ {c} : t[k][f] = table[k][f]
                 /\ IF k[1] = caller.name THEN t[k][c] = Stored(c, caller.value, table[k][c])
                                          ELSE t[k][c] = table[k][c]
    BY <1>1, <1>2, <1>5 DEF Means, Creates, Deletes
  <2>2. DOMAIN NewRow = Changing
    BY DEF NewRow, Changing
  <2>3. ASSUME NEW k \in DOMAIN table
        PROVE  t[k] \in Rows
    <3> DEFINE c == columnNameInString[caller.column]
    <3>1. /\ t[k] = [f \in Changing |-> t[k][f]]
          /\ \A f \in Changing \ {c} : t[k][f] = table[k][f]
          /\ t[k][c] = Stored(c, caller.value, table[k][c]) \/ t[k][c] = table[k][c]
      BY <1>1, <2>1, <2>2
    <3>2. \/ c = "crash_count" /\ caller.value \in 0 .. CountTop
          \/ c = "server_load" /\ caller.value \in Nat
          \/ c = "server_state" /\ caller.value \in {"OFFLINE", "ONLINE"}
      BY <2>1 DEF Updates, columnNameInString
    <3> HIDE DEF c
    <3>3. /\ table[k].crash_count \in 0 .. CountTop /\ table[k].server_load \in 0 .. LoadTop
          /\ table[k].server_state \in {"OFFLINE", "ONLINE"}
      BY <1>2 DEF Rows
    <3>4. /\ t[k]["crash_count"] \in 0 .. CountTop /\ t[k]["server_load"] \in 0 .. LoadTop
          /\ t[k]["server_state"] \in {"OFFLINE", "ONLINE"}
      <4>1. CASE c = "crash_count"
        <5>1. Stored(c, caller.value, table[k][c]) = caller.value /\ caller.value \in 0 .. CountTop
          BY <1>2, <3>2, <4>1 DEF Stored, TopOf
        <5> QED  BY <3>1, <3>3, <4>1, <5>1 DEF Changing
      <4>2. CASE c = "server_load"
        <5>1. Stored(c, caller.value, table[k][c]) \in 0 .. LoadTop
          BY <1>2, <3>2, <3>3, <4>2 DEF Stored, TopOf
        <5> QED  BY <3>1, <3>3, <4>2, <5>1 DEF Changing
      <4>3. CASE c = "server_state"
        <5>1. Stored(c, caller.value, table[k][c]) = caller.value
          BY <4>3 DEF Stored
        <5> QED  BY <3>1, <3>2, <3>3, <4>3, <5>1 DEF Changing
      <4> QED  BY <3>2, <4>1, <4>2, <4>3
    <3>5. t[k] = [crash_count |-> t[k]["crash_count"], server_state |-> t[k]["server_state"],
                  server_load |-> t[k]["server_load"]]
      BY <3>1 DEF Changing
    <3> QED  BY <3>4, <3>5 DEF Rows
  <2> QED  BY <1>2, <2>1, <2>3 DEF t
<1>6. CASE t # table /\ caller.by = "create"
  <2>1. /\ DOMAIN t = DOMAIN table \cup {caller.key} /\ \A k \in DOMAIN table : t[k] = table[k]
        /\ caller \in Creates
    BY <1>1, <1>2, <1>6 DEF Means, Updates, Deletes
  <2>2. caller.key \in Keys
    BY <2>1 DEF Creates
  <2>3. IsFiniteSet(DOMAIN t)
    BY <2>1, FS_AddElement
  <2> QED  BY <1>1, <1>2, <1>3, <2>1, <2>2, <2>3 DEF t
<1>7. CASE t # table /\ caller.by = "delete"
  <2>1. DOMAIN t = {k \in DOMAIN table : k[1] # caller.name} /\ \A k \in DOMAIN t : t[k] = table[k]
    BY <1>1, <1>7 DEF Means
  <2>2. DOMAIN t \in SUBSET DOMAIN table
    BY <2>1
  <2>3. IsFiniteSet(DOMAIN t)
    BY <2>2, FS_Subset
  <2> QED  BY <1>2, <2>1, <2>3 DEF t
<1> QED  BY <1>1, <1>4, <1>5, <1>6, <1>7 DEF Means

\* ReadsAsMeant, with the table it is about as a parameter.
FieldOf(t, k, name) ==
  IF name \in {"crash_count", "server_state", "server_load"} THEN t[k][name]
  ELSE IF name = "server_name" THEN k[1] ELSE <<name, k>>
IsAnswer(t, r, rows) ==
  LET row(k) == [j \in DOMAIN Meant[r.by] |-> <<"value", FieldOf(t, k, Meant[r.by][j])>>]
      hits == {k \in DOMAIN t : Matches(k, r.name)}
  IN  IF r.by = "startup"
        THEN /\ Len(rows) = Cardinality(hits)
             /\ {rows[i] : i \in DOMAIN rows} = {row(k) : k \in hits}
        ELSE IF hits # {} THEN \E k \in hits : rows = <<row(k)>>
        ELSE rows = <<[j \in DOMAIN Meant[r.by] |-> <<"empty", Variables[r.by][j]>>]>>

LEMMA MeantIs == ReadsAsMeant <=> (got # None => IsAnswer(table, got.asked, got.rows))
BY DEF ReadsAsMeant, IsAnswer, Field, FieldOf

LEMMA MeantIsNext == ReadsAsMeant' <=> (got' # None => IsAnswer(table', got'.asked, got'.rows))
BY DEF ReadsAsMeant, IsAnswer, Field, FieldOf

\* The meaning of an answer stays while the table does.
LEMMA MeantStays ==
  ASSUME ReadsAsMeant, UNCHANGED <<table, got>>
  PROVE  ReadsAsMeant'
BY MeantIs, MeantIsNext

\* The types, the meaning of the last answer and the count to be written, together.
THEOREM TInvariance == DBSpec => []TInv
<1>1. DBInit => TInv
  <2> SUFFICES ASSUME DBInit PROVE TInv
    OBVIOUS
  <2>1. RefusedBound \in Nat
    BY DBAssumption DEF RefusedBound
  <2>2. IsFiniteSet(DOMAIN table)
    BY FS_EmptySet DEF DBInit
  <2>3. DBTypeOK
    BY <2>1, DBAssumption DEF DBInit, DBTypeOK
  <2> QED  BY <2>2, <2>3 DEF DBInit, TInv, ReadsAsMeant, CountIsNext
<1>2. TInv /\ DBInv /\ DBInv' /\ [DBNext]_vars => TInv'
  <2> SUFFICES ASSUME TInv, DBInv, DBInv', [DBNext]_vars PROVE TInv'
    OBVIOUS
  <2>1. RefusedBound \in Nat /\ Retries \in Nat /\ OuterTries \in Nat \ {0}
    BY DBAssumption DEF RefusedBound
  <2>2. inner' \in 0 .. Retries /\ outer' \in 0 .. OuterTries - 1
    BY DEF DBInv, RefusalsCounted
  <2>3. ASSUME NEW r, Ask(r), r \in Reads \cup Creates \cup Deletes \/ (r \in Updates /\ r.column = "SERVERSTATE")
        PROVE  TInv'
    <3>1. DBTypeOK'
      BY <2>1, <2>2, <2>3 DEF Ask, TInv, DBTypeOK
    <3>2. caller'.by = "update" => caller'.column = "SERVERSTATE"
      BY <2>3 DEF Ask, Reads, Creates, Deletes
    <3>3. ReadsAsMeant' /\ CountIsNext'
      BY <2>3, <3>2 DEF Ask, ReadsAsMeant, CountIsNext
    <3> QED  BY <2>3, <3>1, <3>3 DEF Ask, TInv
  <2>4. ASSUME NEW n \in ServerName, NEW st \in {"OFFLINE", "ONLINE"}
        PROVE  LET r == [by |-> "update", name |-> n, column |-> "SERVERSTATE", value |-> st]
               IN  r \in Updates /\ r.column = "SERVERSTATE"
    BY DEF Updates
  <2>5. CASE ReadAnswered
    <3> DEFINE s == selectQuery(Request(caller))
    <3>1. PICK o \in Orders(s) :
            LET rows == Read(caller.by, Selected(s, o))
            IN  got' = [asked |-> caller, rows |-> rows] /\ caller' \in FollowUps(caller, rows)
      BY <2>5 DEF ReadAnswered
    <3> DEFINE rows == Read(caller.by, Selected(s, o))
    <3>2. caller \in Reads /\ refused' = 0 /\ UNCHANGED <<table, up>>
      BY <2>5 DEF ReadAnswered
    <3>3. got'.asked = caller /\ got'.rows = rows /\ caller' \in FollowUps(caller, rows)
      BY <3>1
    <3>4. /\ caller' \in {None} \cup Updates
          /\ caller' # None /\ caller'.column = "CRASHCOUNT" =>
               \A k \in DOMAIN table :
                 k[1] = caller'.name /\ Single(k) => caller'.value = table[k].crash_count + 1
      BY <3>2, <3>3, FollowUpsMeant
    <3>5. DBTypeOK'
      BY <2>1, <2>2, <3>2, <3>3, <3>4 DEF TInv, DBTypeOK
    <3>6. CountIsNext'
      BY <3>2, <3>4 DEF CountIsNext, Single
    <3>7. LET hits == {k \in DOMAIN table : Matches(k, caller.name)}
          IN  /\ caller.by = "startup" => /\ Len(rows) = Cardinality(hits)
                                         /\ {rows[i] : i \in DOMAIN rows} = {RowOf(caller.by, k) : k \in hits}
              /\ caller.by # "startup" /\ hits # {} => \E k \in hits : rows = <<RowOf(caller.by, k)>>
              /\ caller.by # "startup" /\ hits = {} => rows = <<NoRow(caller.by)>>
      BY <3>2, AnswerIs DEF TInv
    <3> HIDE DEF rows, s
    <3>8. ReadsAsMeant'
      BY <3>2, <3>3, <3>7 DEF ReadsAsMeant, RowOf, NoRow, Field, Matches
    <3> QED  BY <3>2, <3>5, <3>6, <3>8 DEF TInv
  <2>6. CASE ReadRefused
    <3>1. caller' = caller \/ caller' = None
      BY <2>6 DEF ReadRefused
    <3>2. DBTypeOK'
      BY <2>1, <2>2, <2>6, <3>1 DEF ReadRefused, TInv, DBTypeOK
    <3>3. CountIsNext'
      BY <2>6, <3>1 DEF ReadRefused, CountIsNext, Reads
    <3>4. ReadsAsMeant'
      BY <2>6, MeantStays DEF ReadRefused, TInv
    <3> QED  BY <2>6, <3>2, <3>3, <3>4 DEF ReadRefused, TInv
  <2>7. CASE Write
    <3>1. /\ DOMAIN table' \subseteq Keys /\ IsFiniteSet(DOMAIN table')
          /\ \A k \in DOMAIN table' : table'[k] \in Rows
      <4>1. table' = table \/ table' = Written(caller)
        BY <2>7 DEF Write
      <4>2. DBTypeOK /\ IsFiniteSet(DOMAIN table) /\ caller # None /\ caller \notin Reads
        BY <2>7 DEF Write, TInv
      <4> QED  BY <4>1, <4>2, WrittenTyped DEF DBTypeOK
    <3>2. caller' = None /\ got' = None /\ refused' = refused /\ up' \in BOOLEAN
      BY <2>7 DEF Write, TInv, DBTypeOK
    <3>3. DBTypeOK'
      BY <2>2, <3>1, <3>2 DEF TInv, DBTypeOK
    <3> QED  BY <3>1, <3>2, <3>3 DEF TInv, ReadsAsMeant, CountIsNext
  <2>8. CASE ServerFlips \/ UNCHANGED vars
    <3>1. UNCHANGED <<table, caller, got, refused>> /\ up' \in BOOLEAN
      BY <2>8 DEF ServerFlips, vars, TInv, DBTypeOK
    <3>2. DBTypeOK'
      BY <2>2, <3>1 DEF TInv, DBTypeOK
    <3>3. CountIsNext'
      BY <3>1 DEF TInv, CountIsNext, Single
    <3> QED  BY <3>1, <3>2, <3>3, MeantStays DEF TInv
  <2> QED  BY <2>3, <2>4, <2>5, <2>6, <2>7, <2>8 DEF DBNext
<1> QED  BY <1>1, <1>2, DBInvariance, PTL DEF DBSpec

\* Whatever the rows, the order they come in and the losses between, every answer
\* that reaches its caller is read as what the rows hold.
THEOREM ReadsAreAsMeant == DBSpec => []ReadsAsMeant
<1>1. TInv => ReadsAsMeant
  BY DEF TInv
<1> QED  BY <1>1, TInvariance, PTL

\* The two requests that count a crash move the count of the row by one, or not.
THEOREM CountsMoveByOne == DBSpec => CountMovesByOne
<1> DEFINE Moves == \A k \in DOMAIN table \cap DOMAIN table' :
                      Single(k) => table'[k].crash_count \in {table[k].crash_count, table[k].crash_count + 1}
<1>1. ASSUME TInv, DBInv, [DBNext]_vars
      PROVE  Moves
  <2>1. CASE table' = table
    BY <2>1
  <2>2. CASE table' # table
    <3>1. Means(caller, table') /\ caller # None /\ caller \notin Reads
      BY <1>1, <2>2, TableSteps, WrittenIs DEF DBInv
    <3>2. CASE caller.by = "update"
      <4>1. caller \in Updates
        BY <1>1, <3>1, <3>2 DEF TInv, DBTypeOK, Creates, Deletes
      <4>2. /\ columnNameInString["CRASHCOUNT"] = "crash_count"
            /\ columnNameInString["SERVERSTATE"] = "server_state"
            /\ columnNameInString["SERVERLOAD"] = "server_load"
        BY DEF columnNameInString
      <4>3. ASSUME NEW k \in DOMAIN table, Single(k)
            PROVE  table'[k].crash_count \in {table[k].crash_count, table[k].crash_count + 1}
        <5> DEFINE c == columnNameInString[caller.column]
        <5>1. /\ \A f \in Changing \ {c} : table'[k][f] = table[k][f]
              /\ IF k[1] = caller.name THEN table'[k][c] = Stored(c, caller.value, table[k][c])
                                       ELSE table'[k][c] = table[k][c]
          BY <3>1, <3>2 DEF Means, NewRow, Changing
        <5>2. CASE caller.column = "CRASHCOUNT" /\ k[1] = caller.name
          <6>1. caller.value = table[k].crash_count + 1 /\ caller.value \in 0 .. CountTop
            BY <1>1, <3>1, <3>2, <4>1, <4>3, <5>2 DEF TInv, CountIsNext, Updates
          <6>2. Stored("crash_count", caller.value, table[k][c]) = caller.value
            BY <6>1, DBAssumption DEF Stored, TopOf
          <6> QED  BY <4>2, <5>1, <5>2, <6>1, <6>2
        <5>3. CASE ~(caller.column = "CRASHCOUNT" /\ k[1] = caller.name)
          <6>1. c = "crash_count" => caller.column = "CRASHCOUNT"
            BY <4>1, <4>2 DEF Updates
          <6> QED  BY <5>1, <5>3, <6>1 DEF Changing
        <5> QED  BY <5>2, <5>3
      <4> QED  BY <4>3
    <3>3. CASE caller.by # "update"
      BY <3>1, <3>3 DEF Means
    <3> QED  BY <3>2, <3>3
  <2> QED  BY <2>1, <2>2
<1>2. TInv /\ DBInv /\ [DBNext]_vars => [Moves]_vars
  BY <1>1
<1> QED  BY <1>2, TInvariance, DBInvariance, PTL DEF DBSpec, CountMovesByOne

\* Every column has a type that holds what MySQL stores there, so that no cell of
\* an answer is left out.
THEOREM ColumnsAreTyped == ColumnsTyped
BY DEF ColumnsTyped, columnNameInString, columnDataType, Schema

=============================================================================
