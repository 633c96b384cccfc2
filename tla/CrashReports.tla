---------------------------- MODULE CrashReports ----------------------------
(* The crash reports of one instance directory: what handleProcessCrash()        *)
(* (ServerProcess.cpp) does to the files once it has counted a crash. The        *)
(* objects are those whose paths are the same: an instance and the ones deployed *)
(* after it, or the equally numbered instances of two rows of one name. The      *)
(* directory and the logs belong to the host, where others work on them too.     *)
(*                                                                               *)
(* A report is a copy of a log; what it tells is the crash it was made at.       *)
EXTENDS Naturals, FiniteSets

CONSTANTS
  Object,     \* ServerProcess objects that share the directory
  fWebApp,    \* whether the row of each said so when it was deployed
  MaxCrashes  \* bound on the crashes of a behaviour

ASSUME CRAssumption == fWebApp \in [Object -> BOOLEAN] /\ MaxCrashes \in Nat

VARIABLES
  fCrash_Dir_Created,  \* of each object
  exists,              \* the directory of each kind is there
  writable,            \* the host lets directories and files be made
  log,                 \* the instance has written a log of this kind
  reports,             \* the reports of each kind: a crash for each number
  crashes,             \* crashes so far
  due,                 \* those of which there was a log to be copied, by kind
  touched              \* a report was deleted or a copy refused by the host

vars == <<fCrash_Dir_Created, exists, writable, log, reports, crashes, due, touched>>

Kind == {"access", "status"}
KindsOf(o) == IF fWebApp[o] THEN Kind ELSE {"status"}
Numbers(k) == DOMAIN reports[k]

CRInit ==
  /\ fCrash_Dir_Created = [o \in Object |-> FALSE]
  /\ exists = [k \in Kind |-> FALSE] /\ writable = TRUE /\ log = [k \in Kind |-> FALSE]
  /\ reports = [k \in Kind |-> [n \in {} |-> 0]]
  /\ crashes = 0 /\ due = [k \in Kind |-> {}] /\ touched = FALSE

\* createCrashDir(), once in the life of an object, whether it succeeds or not.
\* Mutant: never for the status reports of a web application.
MakesAccessOnly(o, k) ==
  ~fCrash_Dir_Created[o] /\ writable /\ k = (IF fWebApp[o] THEN "access" ELSE "status")
Makes(o, k) == ~fCrash_Dir_Created[o] /\ writable /\ k \in KindsOf(o)

\* Mutant: the count includes one of the two dots.
NumberWithDot(k) == Cardinality(Numbers(k)) + (IF Numbers(k) = {} THEN 0 ELSE 1)
\* dir.count() - 2.
Number(k) == Cardinality(Numbers(k))

\* QFile::copy() needs a source and a directory and replaces nothing.
Copies(o, k) == (exists[k] \/ Makes(o, k)) /\ writable /\ log[k] /\ Number(k) \notin Numbers(k)

\* A crash whose count could be read (otherwise no file is touched).
Crash(o) ==
  /\ crashes < MaxCrashes
  /\ crashes' = crashes + 1
  /\ fCrash_Dir_Created' = [fCrash_Dir_Created EXCEPT ![o] = TRUE]
  /\ exists' = [k \in Kind |-> exists[k] \/ Makes(o, k)]
  /\ reports' = [k \in Kind |->
       IF k \in KindsOf(o) /\ Copies(o, k)
         THEN [n \in Numbers(k) \cup {Number(k)} |-> IF n = Number(k) THEN crashes' ELSE reports[k][n]]
         ELSE reports[k]]
  /\ due' = [k \in Kind |-> IF k \in KindsOf(o) /\ log[k] THEN due[k] \cup {crashes'} ELSE due[k]]
  /\ touched' = (touched \/ ~writable)
  /\ UNCHANGED <<writable, log>>

\* deleteLater(), and later another deployment.
Replaced(o) ==
  /\ fCrash_Dir_Created' = [fCrash_Dir_Created EXCEPT ![o] = FALSE]
  /\ UNCHANGED <<exists, writable, log, reports, crashes, due, touched>>

\* Others: the instance starts a log; someone deletes reports, or all the directory;
\* the disk is full, or is not any more.
LogStarts(k) ==
  /\ log' = [log EXCEPT ![k] = TRUE]
  /\ UNCHANGED <<fCrash_Dir_Created, exists, writable, reports, crashes, due, touched>>

DeleteReport(k, n) ==
  /\ n \in Numbers(k)
  /\ reports' = [reports EXCEPT ![k] = [m \in Numbers(k) \ {n} |-> reports[k][m]]]
  /\ touched' = TRUE
  /\ UNCHANGED <<fCrash_Dir_Created, exists, writable, log, crashes, due>>

DeleteAll(k) ==
  /\ exists[k]
  /\ exists' = [exists EXCEPT ![k] = FALSE]
  /\ reports' = [reports EXCEPT ![k] = [n \in {} |-> 0]]
  /\ touched' = TRUE
  /\ UNCHANGED <<fCrash_Dir_Created, writable, log, crashes, due>>

WritableFlips ==
  /\ writable' = ~writable
  /\ UNCHANGED <<fCrash_Dir_Created, exists, log, reports, crashes, due, touched>>

CRNext ==
  \/ \E o \in Object : Crash(o) \/ Replaced(o)
  \/ \E k \in Kind : LogStarts(k) \/ DeleteAll(k) \/ \E n \in 0 .. MaxCrashes : DeleteReport(k, n)
  \/ WritableFlips

CRSpec == CRInit /\ [][CRNext]_vars

------------------------------------------------------------------------------
\* Every variable has its type; no report is of a crash that was not.
CRTypeOK ==
  /\ fCrash_Dir_Created \in [Object -> BOOLEAN]
  /\ exists \in [Kind -> BOOLEAN] /\ writable \in BOOLEAN /\ log \in [Kind -> BOOLEAN]
  /\ crashes \in 0 .. MaxCrashes /\ due \in [Kind -> SUBSET (1 .. crashes)] /\ touched \in BOOLEAN
  /\ DOMAIN reports = Kind
  /\ \A k \in Kind : Numbers(k) \subseteq 0 .. MaxCrashes - 1 /\ \A n \in Numbers(k) : reports[k][n] \in due[k]

\* Numbers without a gap, as dir.count() takes for granted.
Gapless(k) == Numbers(k) = 0 .. Cardinality(Numbers(k)) - 1

\* Unless somebody deletes a report or the host refuses to write one, every crash
\* that left a log has its report, of each kind its object makes, and they are
\* numbered in the order of the crashes: whichever objects share the directory,
\* however often they are replaced, and whichever log comes first.
ReportsComplete ==
  ~touched => \A k \in Kind :
    /\ Gapless(k)
    /\ {reports[k][n] : n \in Numbers(k)} = due[k]
    /\ \A m, n \in Numbers(k) : m < n => reports[k][m] < reports[k][n]

\* A report is never written over: what it tells of a crash it tells until someone
\* deletes it, also when numbers come back after a deletion.
ReportsKept ==
  [][\A k \in Kind : \A n \in Numbers(k) \cap Numbers(k)' : reports'[k][n] = reports[k][n]]_vars

\* Whatever was deleted or refused before, a directory that is there and has no gap
\* gets the report of the next crash with a log, and no gap by it. (One with a gap
\* may not: the number can be taken, and then it is at every crash to come.)
Recorded(k) == \E n \in Numbers(k)' \ Numbers(k) : reports'[k][n] = crashes'
RecordsAgain ==
  [][\A k \in Kind :
       exists[k] /\ writable /\ Gapless(k) /\ due'[k] # due[k] => Recorded(k) /\ Gapless(k)']_vars

==============================================================================
