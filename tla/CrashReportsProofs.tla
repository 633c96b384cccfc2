------------------------- MODULE CrashReportsProofs -------------------------
(* Proofs about the crash reports, for any number of objects at one directory    *)
(* and of crashes.                                                               *)
EXTENDS CrashReports, FiniteSetTheorems, TLAPS

\* While nothing was deleted or refused, a kind whose directory is missing has no
\* crash to report unless its next one makes it: no object that made its
\* directories before is without one.
Ready == ~touched =>
  \A o \in Object : fCrash_Dir_Created[o] => \A k \in KindsOf(o) : exists[k]

\* No more reports than crashes, whatever was deleted.
FewReports == \A k \in Kind : Cardinality(Numbers(k)) <= crashes

CRInv == CRTypeOK /\ ReportsComplete /\ Ready /\ FewReports

LEMMA GaplessNumber ==
  ASSUME NEW n \in Nat
  PROVE  IsFiniteSet(0 .. n - 1) /\ Cardinality(0 .. n - 1) = n
<1>1. IsFiniteSet(0 .. n - 1) /\ Cardinality(0 .. n - 1) = IF 0 > n - 1 THEN 0 ELSE n - 1 - 0 + 1
  BY FS_Interval
<1> QED  BY <1>1

LEMMA NumberType ==
  ASSUME CRTypeOK, NEW k \in Kind
  PROVE  IsFiniteSet(Numbers(k)) /\ Number(k) \in Nat
<1>1. IsFiniteSet(0 .. MaxCrashes - 1)
  BY GaplessNumber, CRAssumption
<1>2. Numbers(k) \subseteq 0 .. MaxCrashes - 1
  BY DEF CRTypeOK
<1>3. IsFiniteSet(Numbers(k))
  BY <1>1, <1>2, FS_Subset
<1> QED  BY <1>3, FS_CardinalityType DEF Number

LEMMA CRInitInv == CRInit => CRInv
<1> SUFFICES ASSUME CRInit PROVE CRInv
  OBVIOUS
<1> USE DEF CRInit
<1>1. \A k \in Kind : Numbers(k) = {} /\ due[k] = {}
  BY DEF Numbers
<1>2. CRTypeOK
  <2>1. due \in [Kind -> SUBSET (1 .. crashes)]
    BY DEF Kind
  <2>2. DOMAIN reports = Kind
    OBVIOUS
  <2>3. 0 \in 0 .. MaxCrashes
    BY CRAssumption
  <2> QED  BY <1>1, <2>1, <2>2, <2>3 DEF CRTypeOK
<1>3. Cardinality({}) = 0 /\ 0 .. 0 - 1 = {}
  BY FS_EmptySet
<1>4. ReportsComplete
  <2>1. \A k \in Kind : {reports[k][n] : n \in Numbers(k)} = {}
    BY <1>1
  <2>2. \A k \in Kind : Gapless(k)
    BY <1>1, <1>3 DEF Gapless
  <2> QED  BY <1>1, <2>1, <2>2 DEF ReportsComplete
<1>5. Ready
  BY DEF Ready
<1>6. FewReports
  BY <1>1, <1>3 DEF FewReports
<1> QED  BY <1>2, <1>4, <1>5, <1>6 DEF CRInv

\* What a crash does to the reports of one kind.
LEMMA CrashReports1 ==
  ASSUME CRTypeOK, NEW o \in Object, Crash(o), NEW k \in Kind
  PROVE  IF k \in KindsOf(o) /\ Copies(o, k)
           THEN /\ Numbers(k)' = Numbers(k) \cup {Number(k)} /\ Number(k) \notin Numbers(k)
                /\ reports'[k][Number(k)] = crashes + 1
                /\ \A n \in Numbers(k) : reports'[k][n] = reports[k][n]
           ELSE reports'[k] = reports[k] /\ Numbers(k)' = Numbers(k)
<1>1. crashes' = crashes + 1
  BY DEF Crash
<1>2. reports'[k] = IF k \in KindsOf(o) /\ Copies(o, k)
         THEN [n \in Numbers(k) \cup {Number(k)} |-> IF n = Number(k) THEN crashes' ELSE reports[k][n]]
         ELSE reports[k]
  BY DEF Crash
<1>3. CASE k \in KindsOf(o) /\ Copies(o, k)
  <2>1. Number(k) \notin Numbers(k)
    BY <1>3 DEF Copies
  <2> QED  BY <1>1, <1>2, <1>3, <2>1 DEF Numbers
<1>4. CASE ~(k \in KindsOf(o) /\ Copies(o, k))
  BY <1>2, <1>4 DEF Numbers
<1> QED  BY <1>3, <1>4

\* In a directory without a gap the next number is free and leaves no gap.
LEMMA CrashGapless ==
  ASSUME CRTypeOK, NEW o \in Object, Crash(o), NEW k \in KindsOf(o),
         exists[k] \/ Makes(o, k), writable, log[k], Gapless(k)
  PROVE  Copies(o, k) /\ Numbers(k)' = 0 .. Number(k) /\ Gapless(k)'
<1>1. k \in Kind
  BY DEF KindsOf, Kind
<1>2. Number(k) \in Nat /\ Numbers(k) = 0 .. Number(k) - 1
  BY <1>1, NumberType DEF Gapless, Number
<1>3. Copies(o, k)
  BY <1>2 DEF Copies
<1>4. Numbers(k)' = 0 .. Number(k)
  <2>1. Numbers(k)' = Numbers(k) \cup {Number(k)}
    BY <1>1, <1>3, CrashReports1
  <2>2. (0 .. Number(k) - 1) \cup {Number(k)} = 0 .. Number(k)
    BY <1>2
  <2> QED  BY <1>2, <2>1, <2>2
<1>5. Cardinality(0 .. Number(k)) = Number(k) + 1
  <2>1. 0 .. Number(k) = 0 .. (Number(k) + 1) - 1 /\ Number(k) + 1 \in Nat
    BY <1>2
  <2> QED  BY <2>1, GaplessNumber
<1>6. Gapless(k)'
  BY <1>2, <1>4, <1>5 DEF Gapless
<1> QED  BY <1>3, <1>4, <1>6

LEMMA CrashType ==
  ASSUME CRTypeOK, FewReports, NEW o \in Object, Crash(o)
  PROVE  CRTypeOK' /\ FewReports'
<1>1. crashes \in Nat /\ crashes < MaxCrashes /\ crashes' = crashes + 1 /\ MaxCrashes \in Nat
  BY CRAssumption DEF Crash, CRTypeOK
<1>2. \A k \in Kind : /\ due[k] \subseteq due'[k] /\ due'[k] \subseteq 1 .. crashes'
                      /\ (k \in KindsOf(o) /\ log[k] => crashes' \in due'[k])
  BY <1>1 DEF Crash, CRTypeOK
<1>3. due' \in [Kind -> SUBSET (1 .. crashes')]
  BY <1>1, <1>2 DEF Crash
<1>4. ASSUME NEW k \in Kind
      PROVE  /\ Numbers(k)' \subseteq 0 .. MaxCrashes - 1
             /\ \A n \in Numbers(k)' : reports'[k][n] \in due'[k]
             /\ Cardinality(Numbers(k)') <= crashes'
  <2>1. /\ IsFiniteSet(Numbers(k)) /\ Number(k) \in Nat /\ Number(k) = Cardinality(Numbers(k))
        /\ Number(k) <= crashes
    BY NumberType DEF Number, FewReports
  <2>2. Numbers(k) \subseteq 0 .. MaxCrashes - 1 /\ \A n \in Numbers(k) : reports[k][n] \in due[k]
    BY DEF CRTypeOK
  <2>3. CASE k \in KindsOf(o) /\ Copies(o, k)
    <3>1. /\ Numbers(k)' = Numbers(k) \cup {Number(k)} /\ Number(k) \notin Numbers(k)
          /\ reports'[k][Number(k)] = crashes'
          /\ \A n \in Numbers(k) : reports'[k][n] = reports[k][n]
      BY <1>1, <2>3, CrashReports1
    <3>2. Cardinality(Numbers(k) \cup {Number(k)}) = Number(k) + 1
      BY <2>1, <3>1, FS_AddElement
    <3>3. Number(k) \in 0 .. MaxCrashes - 1
      BY <1>1, <2>1
    <3>4. crashes' \in due'[k]
      BY <1>2, <2>3 DEF Copies
    <3> QED  BY <1>1, <1>2, <2>1, <2>2, <3>1, <3>2, <3>3, <3>4
  <2>4. CASE ~(k \in KindsOf(o) /\ Copies(o, k))
    <3>1. reports'[k] = reports[k] /\ Numbers(k)' = Numbers(k)
      BY <2>4, CrashReports1
    <3> QED  BY <1>1, <1>2, <2>1, <2>2, <3>1
  <2> QED  BY <2>3, <2>4
<1>5. /\ fCrash_Dir_Created' \in [Object -> BOOLEAN] /\ exists' \in [Kind -> BOOLEAN]
      /\ writable' \in BOOLEAN /\ log' \in [Kind -> BOOLEAN] /\ touched' \in BOOLEAN
      /\ DOMAIN reports' = Kind
  <2>1. \A k \in Kind : Makes(o, k) \in BOOLEAN
    BY DEF Makes
  <2> QED  BY <2>1 DEF Crash, CRTypeOK
<1> QED  BY <1>1, <1>3, <1>4, <1>5 DEF CRTypeOK, FewReports

LEMMA CrashComplete ==
  ASSUME CRInv, NEW o \in Object, Crash(o)
  PROVE  ReportsComplete' /\ Ready'
<1> SUFFICES ASSUME ~touched' PROVE ReportsComplete' /\ Ready'
  BY DEF ReportsComplete, Ready
<1>1. ~touched /\ writable /\ crashes' = crashes + 1 /\ crashes \in Nat
  <2>1. touched' = (touched \/ ~writable) /\ crashes' = crashes + 1
    BY DEF Crash
  <2>2. ~touched /\ writable
    BY <2>1
  <2> QED  BY <2>1, <2>2, CRAssumption DEF CRInv, CRTypeOK
<1>2. \A k \in KindsOf(o) : exists[k] \/ Makes(o, k)
  BY <1>1 DEF Ready, CRInv, Makes
<1>3. Ready'
  <2>1. \A k \in Kind : exists'[k] = (exists[k] \/ Makes(o, k))
    BY DEF Crash
  <2>2. \A p \in Object : KindsOf(p) \subseteq Kind
    BY DEF KindsOf, Kind
  <2>3. \A p \in Object : fCrash_Dir_Created'[p] = (IF p = o THEN TRUE ELSE fCrash_Dir_Created[p])
    BY DEF Crash, CRInv, CRTypeOK
  <2> QED  BY <1>1, <1>2, <2>1, <2>2, <2>3 DEF Ready, CRInv
<1>4. ASSUME NEW k \in Kind
      PROVE  /\ Gapless(k)'
             /\ {reports'[k][n] : n \in Numbers(k)'} = due'[k]
             /\ \A m, n \in Numbers(k)' : m < n => reports'[k][m] < reports'[k][n]
  <2>1. /\ Gapless(k)
        /\ {reports[k][n] : n \in Numbers(k)} = due[k]
        /\ \A m, n \in Numbers(k) : m < n => reports[k][m] < reports[k][n]
        /\ due[k] \subseteq 1 .. crashes
    BY <1>1 DEF ReportsComplete, CRInv, CRTypeOK
  <2>2. CASE k \in KindsOf(o) /\ log[k]
    <3>1. Copies(o, k) /\ Numbers(k)' = 0 .. Number(k) /\ Gapless(k)'
      BY <1>1, <1>2, <2>1, <2>2, CrashGapless DEF CRInv
    <3>2. /\ Numbers(k)' = Numbers(k) \cup {Number(k)} /\ Number(k) \notin Numbers(k)
          /\ reports'[k][Number(k)] = crashes + 1
          /\ \A n \in Numbers(k) : reports'[k][n] = reports[k][n]
      BY <2>2, <3>1, CrashReports1 DEF CRInv
    <3>3. due'[k] = due[k] \cup {crashes + 1}
      BY <1>1, <2>2 DEF Crash, CRInv, CRTypeOK
    <3>4. {reports'[k][n] : n \in Numbers(k)'} = due'[k]
      BY <2>1, <3>2, <3>3
    <3>5. Number(k) \in Nat
      BY NumberType DEF CRInv
    <3>6. ASSUME NEW m \in Numbers(k)', NEW n \in Numbers(k)', m < n
          PROVE  reports'[k][m] < reports'[k][n]
      <4>1. m \in Numbers(k)
        BY <3>1, <3>2, <3>5, <3>6
      <4>2. reports'[k][m] = reports[k][m] /\ reports[k][m] \in 1 .. crashes
        BY <2>1, <3>2, <4>1
      <4>3. CASE n \in Numbers(k)
        BY <2>1, <3>2, <3>6, <4>1, <4>3
      <4>4. CASE n = Number(k)
        BY <1>1, <3>2, <4>2, <4>4
      <4> QED  BY <3>2, <4>3, <4>4
    <3> QED  BY <3>1, <3>4, <3>6
  <2>3. CASE ~(k \in KindsOf(o) /\ log[k])
    <3>1. reports'[k] = reports[k] /\ Numbers(k)' = Numbers(k)
      BY <2>3, CrashReports1 DEF Copies, CRInv
    <3>2. due'[k] = due[k]
      BY <2>3 DEF Crash, CRInv, CRTypeOK
    <3> QED  BY <2>1, <3>1, <3>2 DEF Gapless
  <2> QED  BY <2>2, <2>3
<1> QED  BY <1>3, <1>4 DEF ReportsComplete

\* What the others do.
LEMMA OthersInv ==
  ASSUME CRInv,
         \/ \E o \in Object : Replaced(o)
         \/ \E k \in Kind : LogStarts(k)
         \/ WritableFlips
         \/ UNCHANGED vars
  PROVE  CRInv'
<1>1. UNCHANGED <<exists, reports, crashes, due, touched>>
  BY DEF Replaced, LogStarts, WritableFlips, vars
<1>2. /\ fCrash_Dir_Created' \in [Object -> BOOLEAN]
      /\ \A o \in Object : fCrash_Dir_Created'[o] => fCrash_Dir_Created[o]
      /\ writable' \in BOOLEAN /\ log' \in [Kind -> BOOLEAN]
  BY DEF CRInv, CRTypeOK, Replaced, LogStarts, WritableFlips, vars
<1>3. \A k \in Kind : Numbers(k)' = Numbers(k)
  BY <1>1 DEF Numbers
<1>4. CRTypeOK'
  BY <1>1, <1>2, <1>3 DEF CRInv, CRTypeOK
<1>5. ReportsComplete'
  BY <1>1, <1>3 DEF CRInv, ReportsComplete, Gapless
<1>6. Ready' /\ FewReports'
  BY <1>1, <1>2, <1>3 DEF CRInv, Ready, FewReports
<1> QED  BY <1>4, <1>5, <1>6 DEF CRInv

LEMMA DeletionInv ==
  ASSUME CRInv, NEW j \in Kind,
         DeleteAll(j) \/ \E n \in 0 .. MaxCrashes : DeleteReport(j, n)
  PROVE  CRInv'
<1>1. UNCHANGED <<fCrash_Dir_Created, writable, log, crashes, due>> /\ touched' = TRUE
  BY DEF DeleteAll, DeleteReport
<1>2. exists' \in [Kind -> BOOLEAN] /\ DOMAIN reports' = Kind
  BY DEF DeleteAll, DeleteReport, CRInv, CRTypeOK
<1>3. ASSUME NEW k \in Kind
      PROVE  Numbers(k)' \subseteq Numbers(k) /\ \A n \in Numbers(k)' : reports'[k][n] = reports[k][n]
  <2>1. CASE DeleteAll(j)
    <3>1. reports'[k] = IF k = j THEN [n \in {} |-> 0] ELSE reports[k]
      BY <2>1 DEF DeleteAll, CRInv, CRTypeOK
    <3> QED  BY <3>1 DEF Numbers
  <2>2. ASSUME NEW m \in 0 .. MaxCrashes, DeleteReport(j, m)
        PROVE  Numbers(k)' \subseteq Numbers(k) /\ \A n \in Numbers(k)' : reports'[k][n] = reports[k][n]
    <3>1. reports'[k] = IF k = j THEN [n \in Numbers(j) \ {m} |-> reports[j][n]] ELSE reports[k]
      BY <2>2 DEF DeleteReport, CRInv, CRTypeOK
    <3>2. CASE k = j
      BY <3>1, <3>2 DEF Numbers
    <3>3. CASE k # j
      BY <3>1, <3>3 DEF Numbers
    <3> QED  BY <3>2, <3>3
  <2> QED  BY <2>1, <2>2
<1>4. CRTypeOK'
  BY <1>1, <1>2, <1>3 DEF CRInv, CRTypeOK
<1>5. FewReports'
  <2> SUFFICES ASSUME NEW k \in Kind PROVE Cardinality(Numbers(k)') <= crashes'
    BY DEF FewReports
  <2>1. IsFiniteSet(Numbers(k)) /\ Cardinality(Numbers(k)) <= crashes /\ crashes \in Nat
    BY NumberType, CRAssumption DEF CRInv, FewReports, CRTypeOK
  <2>2. /\ Cardinality(Numbers(k)') <= Cardinality(Numbers(k))
        /\ Cardinality(Numbers(k)') \in Nat /\ Cardinality(Numbers(k)) \in Nat
    BY <1>3, <2>1, FS_Subset, FS_CardinalityType
  <2> QED  BY <1>1, <2>1, <2>2
<1>6. ReportsComplete' /\ Ready'
  BY <1>1 DEF ReportsComplete, Ready
<1> QED  BY <1>4, <1>5, <1>6 DEF CRInv

THEOREM CRInvariance == CRSpec => []CRInv
<1>1. CRInit => CRInv
  BY CRInitInv
<1>2. CRInv /\ [CRNext]_vars => CRInv'
  <2> SUFFICES ASSUME CRInv, [CRNext]_vars PROVE CRInv'
    OBVIOUS
  <2>1. ASSUME NEW o \in Object, Crash(o) PROVE CRInv'
    BY <2>1, CrashType, CrashComplete DEF CRInv
  <2>2. CASE \/ \E o \in Object : Replaced(o)
             \/ \E k \in Kind : LogStarts(k)
             \/ WritableFlips
             \/ UNCHANGED vars
    BY <2>2, OthersInv
  <2>3. ASSUME NEW k \in Kind, DeleteAll(k) \/ \E n \in 0 .. MaxCrashes : DeleteReport(k, n)
        PROVE  CRInv'
    BY <2>3, DeletionInv
  <2> QED  BY <2>1, <2>2, <2>3 DEF CRNext
<1> QED  BY <1>1, <1>2, PTL DEF CRSpec

\* Every variable keeps its type; above all the numbers stay below the number of
\* crashes, and every report is of a crash.
THEOREM CRTypeCorrect == CRSpec => []CRTypeOK
<1>1. CRInv => CRTypeOK
  BY DEF CRInv
<1> QED  BY <1>1, CRInvariance, PTL

\* Until someone deletes or the host refuses, no crash goes without its reports.
THEOREM ReportsAreComplete == CRSpec => []ReportsComplete
<1>1. CRInv => ReportsComplete
  BY DEF CRInv
<1> QED  BY <1>1, CRInvariance, PTL

\* Nothing that happened to a directory before keeps the next crash out of it, as
\* long as it is there and its numbers have no gap.
THEOREM AlwaysRecordsAgain == CRSpec => RecordsAgain
<1>1. ASSUME CRInv, [CRNext]_vars, NEW k \in Kind,
             exists[k], writable, Gapless(k), due'[k] # due[k]
      PROVE  Recorded(k) /\ Gapless(k)'
  <2>1. PICK o \in Object : Crash(o)
    BY <1>1 DEF CRNext, Replaced, LogStarts, DeleteAll, DeleteReport, WritableFlips, vars
  <2>2. k \in KindsOf(o) /\ log[k]
    BY <1>1, <2>1 DEF Crash, CRInv, CRTypeOK
  <2>3. Copies(o, k) /\ Gapless(k)'
    BY <1>1, <2>1, <2>2, CrashGapless DEF CRInv
  <2>4. /\ Number(k) \in Numbers(k)' \ Numbers(k)
        /\ reports'[k][Number(k)] = crashes + 1 /\ crashes' = crashes + 1
    BY <1>1, <2>1, <2>2, <2>3, CrashReports1 DEF CRInv, Crash
  <2> QED  BY <2>3, <2>4 DEF Recorded
<1>2. CRInv /\ [CRNext]_vars =>
        [\A k \in Kind :
           exists[k] /\ writable /\ Gapless(k) /\ due'[k] # due[k] => Recorded(k) /\ Gapless(k)']_vars
  BY <1>1
<1> QED  BY <1>2, CRInvariance, PTL DEF CRSpec, RecordsAgain

\* A report stays what it is until it is deleted.
THEOREM ReportsAreKept == CRSpec => ReportsKept
<1>1. ASSUME CRInv, [CRNext]_vars, NEW k \in Kind, NEW n \in Numbers(k) \cap Numbers(k)'
      PROVE  reports'[k][n] = reports[k][n]
  <2>1. ASSUME NEW o \in Object, Crash(o) PROVE reports'[k][n] = reports[k][n]
    BY <1>1, <2>1, CrashReports1 DEF CRInv
  <2>2. ASSUME NEW j \in Kind, NEW m \in 0 .. MaxCrashes, DeleteReport(j, m)
        PROVE  reports'[k][n] = reports[k][n]
    <3>1. reports'[k] = IF k = j THEN [i \in Numbers(j) \ {m} |-> reports[j][i]] ELSE reports[k]
      BY <1>1, <2>2 DEF DeleteReport, CRInv, CRTypeOK
    <3> QED  BY <1>1, <3>1 DEF Numbers
  <2>3. ASSUME NEW j \in Kind, DeleteAll(j) PROVE reports'[k][n] = reports[k][n]
    <3>1. reports'[k] = IF k = j THEN [i \in {} |-> 0] ELSE reports[k]
      BY <1>1, <2>3 DEF DeleteAll, CRInv, CRTypeOK
    <3> QED  BY <1>1, <3>1 DEF Numbers
  <2>4. CASE reports' = reports
    BY <2>4
  <2> QED  BY <1>1, <2>1, <2>2, <2>3, <2>4 DEF CRNext, Replaced, LogStarts, WritableFlips, vars
<1>2. CRInv /\ [CRNext]_vars =>
        [\A k \in Kind : \A n \in Numbers(k) \cap Numbers(k)' : reports'[k][n] = reports[k][n]]_vars
  BY <1>1
<1> QED  BY <1>2, CRInvariance, PTL DEF CRSpec, ReportsKept

=============================================================================
