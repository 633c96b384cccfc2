-------------------------- MODULE DeploymentsProofs --------------------------
(* Proofs about Deployments, for any rows, names, limits and bounds.             *)
EXTENDS Deployments, FiniteSetTheorems, FunctionTheorems, TLAPS

\* The map holds finitely many instances, each in a state.
MapTyped ==
  /\ servers \in [DOMAIN servers -> State]
  /\ IsFiniteSet(DOMAIN servers)
MapInv == MapTyped /\ OwnLogFiles
DPInv == MapInv /\ answer \in [Name -> Answers]

------------------------------------------------------------------------------
\* The instances that one call of startServerInstances() starts.

LEMMA RowTyped ==
  ASSUME NEW n \in Name, NEW r \in FirstRows(n)
  PROVE  r.name = n /\ r.first \in Nat /\ r.last \in Nat
BY DPAssumption DEF FirstRows, RowsOf, NoRow

LEMMA InstancesNamed ==
  ASSUME NEW n \in Name, NEW r \in FirstRows(n), NEW s \in Instances(r)
  PROVE  s.name = n
BY RowTyped DEF Instances

\* A quint8 that wraps still tells ports apart that are near each other.
LEMMA Division ==
  ASSUME NEW m \in Nat \ {0}, NEW a \in Nat
  PROVE  a \div m \in Nat /\ a % m \in Nat /\ a = m * (a \div m) + (a % m)
OBVIOUS

LEMMA Multiples ==
  ASSUME NEW m \in Nat \ {0}, NEW x \in Nat, NEW y \in Nat, x < y
  PROVE  m * x + m <= m * y
<1>1. m * (y - x - 1) \in Nat
  <2>1. y - x - 1 \in Nat
    OBVIOUS
  <2> QED  BY <2>1
<1>2. m * (y - x - 1) = m * y - m * x - m
  OBVIOUS
<1> QED  BY <1>1, <1>2

LEMMA SameRemainder ==
  ASSUME NEW m \in Nat \ {0}, NEW a \in Nat, NEW b \in Nat, a # b, a % m = b % m
  PROVE  a + m <= b \/ b + m <= a
<1> DEFINE x == a \div m
           y == b \div m
           c == a % m
<1>1. x \in Nat /\ y \in Nat /\ c \in Nat /\ a = m * x + c /\ b = m * y + c
  BY Division
<1> HIDE DEF x, y, c
<1>2. x # y
  BY <1>1
<1>3. CASE x < y
  BY <1>1, <1>3, Multiples
<1>4. CASE y < x
  BY <1>1, <1>4, Multiples
<1> QED  BY <1>1, <1>2, <1>3, <1>4

LEMMA NumbersApart ==
  ASSUME NEW r, r.first \in Nat, r.last \in Nat, NEW p \in InRow(r), NEW q \in InRow(r), p # q,
         NumberOf(r.first, p) = NumberOf(r.first, q)
  PROVE  FarApart(p, q)
<1> DEFINE a == p - r.first
           b == q - r.first
<1>1. p \in Nat /\ q \in Nat /\ a \in Nat /\ b \in Nat /\ a # b
  BY DEF InRow
<1>2. NumberMod \in Nat \ {0} /\ a % NumberMod = b % NumberMod
  BY DPAssumption DEF NumberOf
<1>3. a + NumberMod <= b \/ b + NumberMod <= a
  <2> HIDE DEF a, b
  <2> QED  BY <1>1, <1>2, SameRemainder
<1> QED  BY <1>1, <1>2, <1>3 DEF FarApart

LEMMA NumberTyped ==
  ASSUME NEW first \in Nat, NEW p \in Nat, first <= p
  PROVE  NumberOf(first, p) \in Nat
<1>1. p - first \in Nat /\ NumberMod \in Nat \ {0}
  BY DPAssumption
<1> QED  BY <1>1, Division DEF NumberOf

\* Two of them differ in port, and in number if their ports are near.
LEMMA InstancesApart ==
  ASSUME NEW n \in Name, NEW r \in FirstRows(n), NEW s \in Instances(r), NEW t \in Instances(r), s # t
  PROVE  Apart(s, t)
<1> DEFINE i(p) == NumberOf(r.first, p)
<1>1. r.first \in Nat /\ r.last \in Nat
  BY RowTyped
<1>2. PICK p \in InRow(r) : s = [name |-> r.name, port |-> p, number |-> i(p), copy |-> Copy(r.name, p, i(p))]
  BY DEF Instances, PortsOf
<1>3. PICK q \in InRow(r) : t = [name |-> r.name, port |-> q, number |-> i(q), copy |-> Copy(r.name, q, i(q))]
  BY DEF Instances, PortsOf
<1>4. p # q
  BY <1>2, <1>3
<1>5. s.port = p /\ t.port = q /\ s.number = i(p) /\ t.number = i(q)
  BY <1>2, <1>3
<1> QED
  BY <1>1, <1>4, <1>5, NumbersApart DEF Apart

\* As a set they are as many as the row has ports, and so are those of them that fork
\* as many as the ports they are on.
LEMMA InstancesCounted ==
  ASSUME NEW n \in Name, NEW r \in FirstRows(n), NEW S \in SUBSET Instances(r)
  PROVE  /\ IsFiniteSet(Instances(r)) /\ IsFiniteSet(S)
         /\ OnPorts(S) \subseteq InRow(r)
         /\ Cardinality(S) = Cardinality(OnPorts(S))
         /\ Cardinality(Instances(r) \ S) = Cardinality(InRow(r) \ OnPorts(S))
<1> DEFINE f == [p \in InRow(r) |->
                   [name |-> r.name, port |-> p, number |-> NumberOf(r.first, p),
                    copy |-> Copy(r.name, p, NumberOf(r.first, p))]]
           P == OnPorts(S)
<1>1. IsFiniteSet(InRow(r))
  BY RowTyped, FS_Interval DEF InRow
<1>2. Instances(r) = {f[p] : p \in InRow(r)} /\ \A p \in InRow(r) : f[p].port = p
  BY DEF Instances, PortsOf
<1>3. f = [p \in InRow(r) |-> f[p]]
  OBVIOUS
<1> HIDE DEF f
<1>4. P \subseteq InRow(r)
  BY <1>2 DEF OnPorts
<1>5. \A p \in InRow(r) : p \in P <=> f[p] \in S
  BY <1>2 DEF OnPorts
<1>6. ASSUME NEW T \in SUBSET InRow(r), NEW U \in SUBSET Instances(r),
             \A p \in InRow(r) : p \in T <=> f[p] \in U
      PROVE  IsFiniteSet(U) /\ Cardinality(U) = Cardinality(T)
  <2> DEFINE g == [p \in T |-> f[p]]
  <2>1. g \in [T -> U]
    BY <1>6
  <2>2. \A s \in U : \E p \in T : g[p] = s
    BY <1>2, <1>6
  <2>3. \A p, q \in T : g[p] = g[q] => p = q
    <3> SUFFICES ASSUME NEW p \in T, NEW q \in T, f[p] = f[q]
                 PROVE  p = q
      OBVIOUS
    <3>1. f[p].port = p /\ f[q].port = q
      BY <1>2
    <3> QED  BY <3>1
  <2>4. IsFiniteSet(T)
    BY <1>1, FS_Subset
  <2> HIDE DEF g
  <2>5. g \in Bijection(T, U)
    BY <2>1, <2>2, <2>3 DEF Bijection, Injection, Surjection, IsInjective
  <2> QED  BY <2>4, <2>5, FS_Bijection DEF ExistsBijection
<1>7. IsFiniteSet(S) /\ Cardinality(S) = Cardinality(P)
  BY <1>4, <1>5, <1>6
<1>8. Cardinality(Instances(r) \ S) = Cardinality(InRow(r) \ P)
  <2>1. \A p \in InRow(r) : p \in InRow(r) \ P <=> f[p] \in Instances(r) \ S
    BY <1>2, <1>5
  <2>2. /\ InRow(r) \ P \in SUBSET InRow(r)
        /\ Instances(r) \ S \in SUBSET Instances(r)
    OBVIOUS
  <2> QED  BY <2>1, <2>2, <1>6
<1>9. IsFiniteSet(Instances(r))
  <2>1. \A p \in InRow(r) : p \in InRow(r) <=> f[p] \in Instances(r)
    BY <1>2
  <2> QED  BY <2>1, <1>6
<1> QED
  BY <1>4, <1>7, <1>8, <1>9

\* In a map that is not overfull there is a free copy number for every port.
LEMMA CopyIsFree ==
  ASSUME MapTyped, Cardinality(DOMAIN servers) <= MaxServers, NEW n, NEW p, NEW i
  PROVE  Copy(n, p, i) \in (0 .. MaxServers) \ Copies(n, p, i)
<1> DEFINE C == Copies(n, p, i)
           D == {u \in DOMAIN servers : u.name = n /\ u.port = p /\ u.number = i}
           g == [u \in D |-> u.copy]
<1>1. IsFiniteSet(D) /\ Cardinality(D) <= Cardinality(DOMAIN servers)
  BY FS_Subset, D \in SUBSET DOMAIN servers DEF MapTyped
<1>2. g \in Surjection(D, C)
  BY DEF Surjection, Copies
<1>3. IsFiniteSet(C) /\ Cardinality(C) <= Cardinality(D)
  BY <1>1, <1>2, FS_Surjection
<1>4. Cardinality(DOMAIN servers) \in Nat /\ Cardinality(C) \in Nat /\ Cardinality(D) \in Nat
  BY <1>1, <1>3, FS_CardinalityType DEF MapTyped
<1>5. Cardinality(0 .. MaxServers) = MaxServers + 1 /\ IsFiniteSet(0 .. MaxServers)
  <2>1. 0 \in Int /\ MaxServers \in Nat
    BY DPAssumption
  <2> QED  BY <2>1, FS_Interval
<1>6. 0 .. MaxServers \in SUBSET C => Cardinality(0 .. MaxServers) <= Cardinality(C)
  BY <1>3, FS_Subset
<1> HIDE DEF C, D, g
<1>7. ~(0 .. MaxServers \subseteq C)
  BY <1>1, <1>3, <1>4, <1>5, <1>6, DPAssumption
<1> QED  BY <1>7 DEF Copy, C

LEMMA RoomIsRoom ==
  ASSUME MapTyped, NEW n \in Name, NEW r \in FirstRows(n), HasRoom(Instances(r))
  PROVE  Cardinality(DOMAIN servers) <= MaxServers
<1>1. Cardinality(DOMAIN servers) \in Nat /\ Cardinality(Instances(r)) \in Nat
  <2>1. IsFiniteSet(Instances(r))
    BY InstancesCounted
  <2> QED  BY <2>1, FS_CardinalityType DEF MapTyped
<1> QED  BY <1>1, DPAssumption DEF HasRoom

\* With room for them none of them is in the map yet, and each is an instance.
LEMMA InstancesFresh ==
  ASSUME MapTyped, NEW n \in Name, NEW r \in FirstRows(n), HasRoom(Instances(r))
  PROVE  /\ Instances(r) \cap DOMAIN servers = {}
         /\ Instances(r) \subseteq Instance
<1> SUFFICES ASSUME NEW s \in Instances(r)
             PROVE  s \notin DOMAIN servers /\ s \in Instance
  OBVIOUS
<1> DEFINE i(p) == NumberOf(r.first, p)
<1>1. PICK p \in InRow(r) : s = [name |-> r.name, port |-> p, number |-> i(p), copy |-> Copy(r.name, p, i(p))]
  BY DEF Instances, PortsOf
<1>2. s.copy \in (0 .. MaxServers) \ Copies(r.name, p, i(p))
  BY <1>1, RoomIsRoom, CopyIsFree
<1>3. s \notin DOMAIN servers
  BY <1>1, <1>2 DEF Copies
<1>4. r.name \in Name /\ p \in Nat /\ i(p) \in Nat
  <2>1. r.name \in Name /\ r.first \in Nat /\ p \in Nat /\ r.first <= p
    BY RowTyped DEF InRow
  <2> QED  BY <2>1, NumberTyped
<1>5. s \in Instance
  <2>1. s.copy \in Nat /\ s.copy = Copy(r.name, p, i(p))
    BY <1>1, <1>2, DPAssumption
  <2> HIDE DEF i
  <2> QED  BY <1>1, <1>4, <2>1 DEF Instance
<1> QED  BY <1>3, <1>5

------------------------------------------------------------------------------
\* The map after a request.

LEMMA StoppedMap ==
  ASSUME MapTyped, NEW n
  PROVE  /\ DOMAIN Stopped(n) = DOMAIN servers
         /\ \A s \in DOMAIN servers :
              /\ Stopped(n)[s] \in State
              /\ s.name = n => Stopped(n)[s].stopped
              /\ s.name # n => Stopped(n)[s] = servers[s]
              /\ servers[s].stopped => Stopped(n)[s].stopped
              /\ Stopped(n)[s].life = servers[s].life
              /\ Stopped(n)[s].retries = servers[s].retries
BY DEF Stopped, MapTyped, State

LEMMA BornTyped == Born \in State /\ ~Born.stopped
BY DPAssumption DEF Born, State, Lives

\* New instances are put beside those of a map.
LEMMA WithMap ==
  ASSUME NEW map, NEW S, IsFiniteSet(DOMAIN map), IsFiniteSet(S),
         \A s \in DOMAIN map : map[s] \in State,
         servers' = With(map, S)
  PROVE  /\ MapTyped'
         /\ DOMAIN servers' = DOMAIN map \cup S
         /\ \A s \in DOMAIN map : servers'[s] = map[s]
         /\ \A s \in S \ DOMAIN map : servers'[s] = Born
<1>1. DOMAIN servers' = DOMAIN map \cup S
  BY DEF With
<1>2. IsFiniteSet(DOMAIN servers')
  BY <1>1, FS_Union
<1>3. \A s \in DOMAIN map \cup S : servers'[s] = IF s \in DOMAIN map THEN map[s] ELSE Born
  BY DEF With
<1>4. servers' \in [DOMAIN servers' -> State]
  BY <1>1, <1>3, BornTyped DEF With
<1> QED
  BY <1>1, <1>2, <1>3, <1>4 DEF MapTyped

\* What startServerInstances() adds to a map with the same instances as the present one.
LEMMA StartsEffect ==
  ASSUME MapTyped, NEW map, DOMAIN map = DOMAIN servers,
         \A s \in DOMAIN servers : map[s] \in State,
         NEW n \in Name, NEW r \in FirstRows(n), HasRoom(Instances(r)),
         NEW S \in SUBSET Instances(r), servers' = With(map, S)
  PROVE  /\ MapTyped'
         /\ S \subseteq Instance /\ S \cap DOMAIN servers = {}
         /\ \A s \in S : s.name = n /\ servers'[s] = Born
         /\ DOMAIN servers' = DOMAIN servers \cup S
         /\ \A s \in DOMAIN servers : servers'[s] = map[s]
<1>1. IsFiniteSet(S)
  BY InstancesCounted
<1>2. S \cap DOMAIN servers = {} /\ S \subseteq Instance
  BY InstancesFresh
<1>3. /\ MapTyped'
      /\ DOMAIN servers' = DOMAIN map \cup S
      /\ \A s \in DOMAIN map : servers'[s] = map[s]
      /\ \A s \in S \ DOMAIN map : servers'[s] = Born
  BY <1>1, WithMap DEF MapTyped
<1>4. \A s \in S : s.name = n
  BY InstancesNamed
<1> QED  BY <1>2, <1>3, <1>4

\* DEPLOY adds new instances and leaves the others alone.
LEMMA DeployEffect ==
  ASSUME MapTyped, NEW n \in Name, Starts(n, servers)
  PROVE  \E r \in FirstRows(n) : \E S \in SUBSET Instances(r) :
           /\ MapTyped'
           /\ S \subseteq Instance
           /\ \A s \in S : s.name = n /\ servers'[s] = Born
           /\ DOMAIN servers' = DOMAIN servers \cup S
           /\ \A s \in DOMAIN servers : servers'[s] = servers[s]
<1>1. PICK r \in FirstRows(n) : HasRoom(Instances(r)) /\ \E S \in SUBSET Instances(r) : servers' = With(servers, S)
  BY DEF Starts
<1>2. PICK S \in SUBSET Instances(r) : servers' = With(servers, S)
  BY <1>1
<1>3. \A s \in DOMAIN servers : servers[s] \in State
  BY DEF MapTyped
<1>4. /\ MapTyped'
      /\ S \subseteq Instance
      /\ \A s \in S : s.name = n /\ servers'[s] = Born
      /\ DOMAIN servers' = DOMAIN servers \cup S
      /\ \A s \in DOMAIN servers : servers'[s] = servers[s]
  BY <1>1, <1>2, <1>3, StartsEffect
<1> QED  BY <1>4

\* CONFIGURE adds new instances and stops the others of the name.
LEMMA ConfigureEffect ==
  ASSUME MapTyped, NEW n \in Name, Starts(n, Stopped(n))
  PROVE  \E r \in FirstRows(n) : \E S \in SUBSET Instances(r) :
           /\ Forks(Instances(r), S)
           /\ MapTyped'
           /\ S \subseteq Instance /\ S \cap DOMAIN servers = {}
           /\ \A s \in S : s.name = n /\ servers'[s] = Born
           /\ DOMAIN servers' = DOMAIN servers \cup S
           /\ \A s \in DOMAIN servers : servers'[s] = Stopped(n)[s]
<1>1. PICK r \in FirstRows(n) : HasRoom(Instances(r)) /\ \E S \in SUBSET Instances(r) :
        Forks(Instances(r), S) /\ servers' = With(Stopped(n), S)
  BY DEF Starts
<1>2. PICK S \in SUBSET Instances(r) : Forks(Instances(r), S) /\ servers' = With(Stopped(n), S)
  BY <1>1
<1>3. DOMAIN Stopped(n) = DOMAIN servers /\ \A s \in DOMAIN servers : Stopped(n)[s] \in State
  BY StoppedMap
<1>4. /\ MapTyped'
      /\ S \subseteq Instance /\ S \cap DOMAIN servers = {}
      /\ \A s \in S : s.name = n /\ servers'[s] = Born
      /\ DOMAIN servers' = DOMAIN servers \cup S
      /\ \A s \in DOMAIN servers : servers'[s] = Stopped(n)[s]
  BY <1>1, <1>2, <1>3, StartsEffect
<1> QED  BY <1>2, <1>4

\* OwnLogFiles survives a step after which no instance is wanted that was not.
LEMMA FewerWanted ==
  ASSUME OwnLogFiles, careful' => careful, \A n \in Name : Wanted(n)' \subseteq Wanted(n)
  PROVE  OwnLogFiles'
BY DEF OwnLogFiles, SingleRow, RowsOf

\* It survives new instances of a name of which none is wanted.
LEMMA NewWanted ==
  ASSUME OwnLogFiles, careful' => careful, NEW n \in Name, NEW r \in FirstRows(n),
         \A m \in Name \ {n} : Wanted(m)' \subseteq Wanted(m),
         careful' => Wanted(n)' \subseteq Instances(r)
  PROVE  OwnLogFiles'
<1> SUFFICES ASSUME careful', NEW m \in Name, SingleRow(m),
                    NEW s \in Wanted(m)', NEW t \in Wanted(m)', s # t
             PROVE  Apart(s, t)
  BY DEF OwnLogFiles, SingleRow, RowsOf
<1>1. CASE m = n
  BY <1>1, InstancesApart
<1>2. CASE m # n
  BY <1>2 DEF OwnLogFiles
<1> QED
  BY <1>1, <1>2

------------------------------------------------------------------------------
\* The invariant, step by step.

LEMMA AskedTyped ==
  ASSUME answer \in [Name -> Answers], NEW n \in Name, NEW a \in Answers, Asked(n, a)
  PROVE  answer' \in [Name -> Answers]
BY DEF Asked

LEMMA AnswersTyped ==
  ASSUME answer \in [Name -> Answers], DPNext
  PROVE  answer' \in [Name -> Answers]
<1>1. ASSUME NEW n \in Name, Deploy(n) \/ Takedown(n) \/ Configure(n)
      PROVE  answer' \in [Name -> Answers]
  <2>1. \E a \in Answers : Asked(n, a)
    BY <1>1 DEF Deploy, Takedown, Configure, Answers
  <2> QED  BY <2>1, AskedTyped
<1>2. ASSUME NEW s \in DOMAIN servers, Child(s) \/ Crash(s) \/ Exit(s)
      PROVE  answer' \in [Name -> Answers]
  BY <1>2 DEF Child, Bind, Killed, ProcessFinished, Crash, Exit
<1> QED  BY <1>1, <1>2 DEF DPNext

\* A startup starts finitely many instances.
LEMMA StartupFinite ==
  ASSUME NEW read \in {{}, Rows}
  PROVE  IsFiniteSet(UNION {{[name |-> r.name, port |-> p, number |-> NumberOf(r.first, p), copy |-> r.last]
                             : p \in PortsOf(r)} : r \in read})
<1> DEFINE start(r, p) == [name |-> r.name, port |-> p, number |-> NumberOf(r.first, p), copy |-> r.last]
           ofRow(r) == {start(r, p) : p \in PortsOf(r)}
<1>1. ASSUME NEW r \in Rows
      PROVE  IsFiniteSet(ofRow(r))
  <2> DEFINE f == [p \in PortsOf(r) |-> start(r, p)]
  <2>1. f \in Surjection(PortsOf(r), ofRow(r))
    BY DEF Surjection
  <2>2. IsFiniteSet(PortsOf(r))
    <3>1. r.first \in Int /\ r.last \in Int
      BY DPAssumption
    <3> QED  BY <3>1, FS_Interval DEF PortsOf, InRow
  <2> QED  BY <2>1, <2>2, FS_Surjection
<1> DEFINE f == [r \in read |-> ofRow(r)]
<1>2. f \in Surjection(read, {ofRow(r) : r \in read})
  BY DEF Surjection
<1>3. IsFiniteSet(read)
  BY DPAssumption, FS_EmptySet
<1>4. IsFiniteSet({ofRow(r) : r \in read})
  BY <1>2, <1>3, FS_Surjection
<1> QED  BY <1>1, <1>4, FS_UNION

LEMMA DPInitMap == DPInit => MapInv
<1> SUFFICES ASSUME DPInit
             PROVE  MapInv
  OBVIOUS
<1> DEFINE start(r, p) == [name |-> r.name, port |-> p, number |-> NumberOf(r.first, p), copy |-> r.last]
           ofRow(r) == {start(r, p) : p \in PortsOf(r)}
<1>1. PICK read \in {{}, Rows} : \E S \in SUBSET UNION {ofRow(r) : r \in read} : servers = [s \in S |-> Born]
  BY DEF DPInit
<1> DEFINE all == UNION {ofRow(r) : r \in read}
<1>2. PICK S \in SUBSET all : servers = [s \in S |-> Born]
  BY <1>1
<1>4. IsFiniteSet(S)
  <2>1. IsFiniteSet(all)
    BY StartupFinite
  <2> QED  BY <2>1, FS_Subset
<1>5. MapTyped
  BY <1>2, <1>4, BornTyped DEF MapTyped
<1>6. OwnLogFiles
  <2> SUFFICES ASSUME NEW n \in Name, SingleRow(n), NEW s \in Wanted(n), NEW t \in Wanted(n), s # t
               PROVE  Apart(s, t)
    BY DEF OwnLogFiles
  <2>1. s \in all /\ t \in all /\ s.name = n /\ t.name = n
    BY <1>2 DEF Wanted, InMap
  <2>2. PICK q \in Rows : \E p \in PortsOf(q) : s = start(q, p)
    BY <2>1
  <2>3. PICK r \in Rows : \E p \in PortsOf(r) : t = start(r, p)
    BY <2>1
  <2>4. q = r
    BY <2>1, <2>2, <2>3 DEF SingleRow, RowsOf
  <2>5. PICK x \in PortsOf(r) : s = start(r, x)
    BY <2>2, <2>4
  <2>6. PICK y \in PortsOf(r) : t = start(r, y)
    BY <2>3
  <2>7. x # y
    BY <2>5, <2>6
  <2>8. r.first \in Nat /\ r.last \in Nat /\ x \in InRow(r) /\ y \in InRow(r)
    BY DPAssumption DEF PortsOf
  <2>9. s.port = x /\ t.port = y /\ s.number = NumberOf(r.first, x) /\ t.number = NumberOf(r.first, y)
    BY <2>5, <2>6
  <2> QED  BY <2>7, <2>8, <2>9, NumbersApart DEF Apart
<1> QED  BY <1>5, <1>6 DEF MapInv

LEMMA DeployInv ==
  ASSUME MapInv, NEW n \in Name, Deploy(n)
  PROVE  MapInv'
<1>1. careful' => careful /\ Wanted(n) = {}
  BY DEF Deploy
<1>2. CASE UNCHANGED servers
  <2>1. \A m \in Name : Wanted(m)' \subseteq Wanted(m)
    BY <1>2 DEF Wanted, InMap
  <2> QED  BY <1>1, <1>2, <2>1, FewerWanted DEF MapInv, MapTyped
<1>3. CASE Starts(n, servers)
  <2>1. PICK r \in FirstRows(n) : \E S \in SUBSET Instances(r) :
          /\ MapTyped'
          /\ \A s \in S : s.name = n
          /\ DOMAIN servers' = DOMAIN servers \cup S
          /\ \A s \in DOMAIN servers : servers'[s] = servers[s]
    BY <1>3, DeployEffect DEF MapInv
  <2>2. \A m \in Name \ {n} : Wanted(m)' \subseteq Wanted(m)
    BY <2>1 DEF Wanted, InMap
  <2>3. careful' => Wanted(n)' \subseteq Instances(r)
    BY <1>1, <2>1 DEF Wanted, InMap
  <2> QED  BY <1>1, <2>1, <2>2, <2>3, NewWanted DEF MapInv
<1> QED  BY <1>2, <1>3 DEF Deploy

LEMMA StoppedInv ==
  ASSUME MapInv, NEW n \in Name, servers' = Stopped(n), careful' = careful
  PROVE  MapInv'
<1>1. MapTyped'
  BY StoppedMap DEF MapInv, MapTyped, Stopped
<1>2. \A m \in Name : Wanted(m)' \subseteq Wanted(m)
  BY StoppedMap DEF MapInv, Wanted, InMap
<1> QED  BY <1>1, <1>2, FewerWanted DEF MapInv

\* What CONFIGURE leaves of its name are the new instances.
LEMMA ConfigureWanted ==
  ASSUME MapTyped, NEW n \in Name, Starts(n, Stopped(n))
  PROVE  /\ MapTyped'
         /\ \E r \in FirstRows(n) : Wanted(n)' \subseteq Instances(r) /\ Forks(Instances(r), Wanted(n)')
         /\ \A m \in Name \ {n} : Wanted(m)' \subseteq Wanted(m)
<1>1. PICK r \in FirstRows(n) : \E S \in SUBSET Instances(r) :
        /\ Forks(Instances(r), S)
        /\ MapTyped'
        /\ S \cap DOMAIN servers = {}
        /\ \A s \in S : s.name = n /\ servers'[s] = Born
        /\ DOMAIN servers' = DOMAIN servers \cup S
        /\ \A s \in DOMAIN servers : servers'[s] = Stopped(n)[s]
  BY ConfigureEffect
<1>2. PICK S \in SUBSET Instances(r) :
        /\ Forks(Instances(r), S)
        /\ MapTyped'
        /\ S \cap DOMAIN servers = {}
        /\ \A s \in S : s.name = n /\ servers'[s] = Born
        /\ DOMAIN servers' = DOMAIN servers \cup S
        /\ \A s \in DOMAIN servers : servers'[s] = Stopped(n)[s]
  BY <1>1
<1>3. Wanted(n)' = S
  BY <1>2, StoppedMap, BornTyped DEF Wanted, InMap
<1>4. \A m \in Name \ {n} : Wanted(m)' \subseteq Wanted(m)
  BY <1>2, StoppedMap DEF Wanted, InMap
<1> QED  BY <1>2, <1>3, <1>4

LEMMA ConfigureInv ==
  ASSUME MapInv, NEW n \in Name, Configure(n)
  PROVE  MapInv'
<1>1. CASE servers' = Stopped(n)
  BY <1>1, StoppedInv DEF Configure
<1>2. CASE Starts(n, Stopped(n))
  <2>1. /\ MapTyped'
        /\ \E r \in FirstRows(n) : Wanted(n)' \subseteq Instances(r)
        /\ \A m \in Name \ {n} : Wanted(m)' \subseteq Wanted(m)
    BY <1>2, ConfigureWanted DEF MapInv
  <2> QED  BY <2>1, NewWanted DEF MapInv, Configure
<1> QED  BY <1>1, <1>2 DEF Configure

\* Children and host stop nobody and make nobody wanted.
LEMMA ChildEffect ==
  ASSUME MapTyped, NEW s \in DOMAIN servers, Child(s) \/ Crash(s) \/ Exit(s)
  PROVE  /\ MapTyped' /\ careful' = careful
         /\ DOMAIN servers' \subseteq DOMAIN servers
         /\ \A t \in DOMAIN servers' : servers'[t].stopped = servers[t].stopped
<1>1. careful' = careful
  BY DEF Child, Bind, Killed, ProcessFinished, Crash, Exit, seen
<1>2. ASSUME NEW l \in Lives, Becomes(s, l)
      PROVE  /\ MapTyped' /\ DOMAIN servers' = DOMAIN servers
             /\ \A t \in DOMAIN servers' : servers'[t].stopped = servers[t].stopped
  BY <1>2 DEF Becomes, MapTyped, State
<1>3. CASE Bind(s) \/ Killed(s) \/ Crash(s) \/ Exit(s)
  BY <1>1, <1>2, <1>3 DEF Bind, Killed, Crash, Exit, Lives
<1>4. CASE ProcessFinished(s)
  <2>1. CASE Dropped(s)
    <3>1. servers' = [t \in DOMAIN servers \ {s} |-> servers[t]]
      BY <2>1 DEF Dropped
    <3>2. IsFiniteSet(DOMAIN servers \ {s})
      BY FS_RemoveElement DEF MapTyped
    <3> QED  BY <1>1, <3>1, <3>2 DEF MapTyped
  <2>2. CASE ~GivesUp(s) /\ ~Dropped(s)
    <3>1. servers' = [servers EXCEPT ![s].life = "forked", ![s].retries = @ + 1]
      BY <1>4, <2>2 DEF ProcessFinished
    <3>2. servers[s].retries \in 0 .. RetryLimit /\ servers[s].retries # RetryLimit
      BY <2>2 DEF MapTyped, State, GivesUp
    <3>3. servers[s].retries + 1 \in 0 .. RetryLimit
      BY <3>2, DPAssumption
    <3> QED  BY <1>1, <3>1, <3>3 DEF MapTyped, State, Lives
  <2> QED  BY <1>4, <2>1, <2>2 DEF ProcessFinished
<1> QED  BY <1>3, <1>4 DEF Child

LEMMA ChildInv ==
  ASSUME MapInv, NEW s \in DOMAIN servers, Child(s) \/ Crash(s) \/ Exit(s)
  PROVE  MapInv'
<1>1. /\ MapTyped' /\ careful' = careful
      /\ DOMAIN servers' \subseteq DOMAIN servers
      /\ \A t \in DOMAIN servers' : servers'[t].stopped = servers[t].stopped
  BY ChildEffect DEF MapInv
<1>2. \A m \in Name : Wanted(m)' \subseteq Wanted(m)
  BY <1>1 DEF Wanted, InMap
<1> QED  BY <1>1, <1>2, FewerWanted DEF MapInv

THEOREM DPInvariance == DPSpec => []DPInv
<1>1. DPInit => DPInv
  BY DPInitMap DEF DPInit, DPInv, Answers
<1>2. DPInv /\ [DPNext]_vars => DPInv'
  <2> SUFFICES ASSUME DPInv, [DPNext]_vars
               PROVE  DPInv'
    OBVIOUS
  <2>1. ASSUME NEW n \in Name, Deploy(n) \/ Takedown(n) \/ Configure(n)
        PROVE  DPInv'
    <3>1. MapInv'
      BY <2>1, DeployInv, StoppedInv, ConfigureInv DEF Takedown, DPInv
    <3> QED  BY <2>1, <3>1, AnswersTyped DEF DPInv, DPNext
  <2>2. ASSUME NEW s \in DOMAIN servers, Child(s) \/ Crash(s) \/ Exit(s)
        PROVE  DPInv'
    <3>1. MapInv'
      BY <2>2, ChildInv DEF DPInv
    <3> QED  BY <2>2, <3>1, AnswersTyped DEF DPInv, DPNext
  <2>3. CASE UNCHANGED vars
    BY <2>3 DEF vars, seen, DPInv, MapInv, MapTyped, OwnLogFiles, Wanted, InMap, SingleRow, RowsOf
  <2> QED  BY <2>1, <2>2, <2>3 DEF DPNext
<1> QED  BY <1>1, <1>2, PTL DEF DPSpec

------------------------------------------------------------------------------
\* Counters and marks keep their types too.
LEMMA ForksCounts ==
  ASSUME DPTypeOK, NEW n \in Name, NEW r \in FirstRows(n), NEW S \in SUBSET Instances(r),
         Forks(Instances(r), S)
  PROVE  failures' \in 0 .. MaxFailures
<1>1. IsFiniteSet(Instances(r) \ S)
  <2>1. IsFiniteSet(Instances(r))
    BY InstancesCounted
  <2> QED  BY <2>1, FS_Subset, Instances(r) \ S \in SUBSET Instances(r)
<1>2. Cardinality(Instances(r) \ S) \in Nat
  BY <1>1, FS_CardinalityType
<1> QED  BY <1>2, DPAssumption DEF Forks, DPTypeOK

LEMMA CountsTyped ==
  ASSUME DPTypeOK, [DPNext]_vars
  PROVE  /\ crashes' \in 0 .. MaxCrashes /\ failures' \in 0 .. MaxFailures
         /\ requests' \in 0 .. MaxRequests /\ {careful', prompt'} \subseteq BOOLEAN
<1>1. ASSUME NEW n \in Name, Deploy(n) \/ Takedown(n) \/ Configure(n)
      PROVE  /\ crashes' = crashes /\ requests < MaxRequests /\ requests' = requests + 1
             /\ failures' \in 0 .. MaxFailures
             /\ careful' \in BOOLEAN /\ prompt' = prompt
  <2>1. ASSUME NEW map, Starts(n, map)
        PROVE  failures' \in 0 .. MaxFailures
    BY <2>1, ForksCounts DEF Starts
  <2>2. failures' \in 0 .. MaxFailures
    BY <1>1, <2>1 DEF Deploy, Takedown, Configure, DPTypeOK
  <2> QED  BY <1>1, <2>2 DEF Deploy, Takedown, Configure, Asked, DPTypeOK
<1>2. ASSUME NEW s \in DOMAIN servers, Child(s) \/ Crash(s) \/ Exit(s)
      PROVE  /\ crashes' = crashes \/ (crashes < MaxCrashes /\ crashes' = crashes + 1)
             /\ failures' = failures \/ (failures < MaxFailures /\ failures' = failures + 1)
             /\ requests' = requests /\ careful' = careful /\ prompt' \in BOOLEAN
  <2>1. CASE Bind(s)
    <3>1. prompt' \in BOOLEAN
      BY <2>1 DEF Bind
    <3> QED  BY <2>1, <3>1 DEF Bind, bounded
  <2>2. CASE Killed(s) \/ ProcessFinished(s)
    BY <2>2 DEF Killed, ProcessFinished, Fails, bounded, seen, DPTypeOK
  <2>3. CASE Crash(s) \/ Exit(s)
    BY <2>3 DEF Crash, Exit, Fails, seen, DPTypeOK
  <2> QED  BY <1>2, <2>1, <2>2, <2>3 DEF Child
<1>3. CASE UNCHANGED vars
  BY <1>3 DEF vars, bounded, seen, DPTypeOK
<1> QED  BY <1>1, <1>2, <1>3, DPAssumption DEF DPNext, DPTypeOK

\* All variables keep their types; a child is never restarted more often than allowed.
THEOREM DPTypeCorrect == DPSpec => []DPTypeOK
<1>1. DPInit => DPTypeOK
  <2> SUFFICES ASSUME DPInit
               PROVE  DPTypeOK
    OBVIOUS
  <2>1. MapTyped
    BY DPInitMap DEF MapInv
  <2>2. failures \in 0 .. MaxFailures
    <3> DEFINE start(r, p) == [name |-> r.name, port |-> p, number |-> NumberOf(r.first, p), copy |-> r.last]
               all(read) == UNION {{start(r, p) : p \in PortsOf(r)} : r \in read}
    <3>1. PICK read \in {{}, Rows} : \E S \in SUBSET all(read) :
            failures = Cardinality(all(read) \ S) /\ failures <= MaxFailures
      BY DEF DPInit
    <3>2. IsFiniteSet(all(read))
      BY StartupFinite
    <3>4. PICK S \in SUBSET all(read) :
            failures = Cardinality(all(read) \ S) /\ failures <= MaxFailures
      BY <3>1
    <3>3. IsFiniteSet(all(read) \ S)
      BY <3>2, FS_Subset, all(read) \ S \in SUBSET all(read)
    <3> QED  BY <3>4, <3>3, FS_CardinalityType, DPAssumption
  <2> QED  BY <2>1, <2>2, DPAssumption DEF DPInit, DPTypeOK, MapTyped, Answers
<1>2. DPTypeOK /\ DPInv' /\ [DPNext]_vars => DPTypeOK'
  BY CountsTyped DEF DPTypeOK, DPInv, MapInv, MapTyped
<1> QED  BY <1>1, <1>2, DPInvariance, PTL DEF DPSpec

\* While nobody deploys a name that is up, instances of a name with one row that are
\* to stay share no port, and no log files unless their ports are NumberMod apart.
THEOREM LogFilesAreOwn == DPSpec => []OwnLogFiles
<1>1. DPInv => OwnLogFiles
  BY DEF DPInv, MapInv
<1> QED  BY <1>1, DPInvariance, PTL

\* CONFIGURE that is answered with success leaves one instance on each port of one row
\* of its name, as many fewer as forks have failed, and no other that is to stay.
THEOREM ConfiguredAlwaysOneRow == DPSpec => ConfiguredIsOneRow
<1>1. DPInv /\ DPTypeOK => [\A n \in Name : Configure(n) /\ answer'[n] = "configured" /\ RowsOf(n) # {} =>
         \E r \in RowsOf(n) :
           /\ OnPorts(Wanted(n)') \subseteq InRow(r)
           /\ Cardinality(Wanted(n)') = Cardinality(OnPorts(Wanted(n)'))
           /\ Cardinality(InRow(r) \ OnPorts(Wanted(n)')) = failures' - failures]_vars
  <2> SUFFICES ASSUME DPInv, DPTypeOK, NEW n \in Name, Configure(n), answer'[n] = "configured", RowsOf(n) # {}
               PROVE  \E r \in RowsOf(n) :
                        /\ OnPorts(Wanted(n)') \subseteq InRow(r)
                        /\ Cardinality(Wanted(n)') = Cardinality(OnPorts(Wanted(n)'))
                        /\ Cardinality(InRow(r) \ OnPorts(Wanted(n)')) = failures' - failures
    OBVIOUS
  <2>1. Starts(n, Stopped(n))
    <3>1. ~Asked(n, "failed")
      BY DEF Asked, DPInv
    <3> QED  BY <3>1 DEF Configure
  <2> DEFINE W == Wanted(n)'
  <2>2. PICK r \in FirstRows(n) : W \subseteq Instances(r) /\ Forks(Instances(r), W)
    BY <2>1, ConfigureWanted DEF DPInv, MapInv
  <2> HIDE DEF W
  <2>3. r \in RowsOf(n)
    BY DEF FirstRows
  <2>4. /\ OnPorts(W) \subseteq InRow(r)
        /\ Cardinality(W) = Cardinality(OnPorts(W))
        /\ Cardinality(Instances(r) \ W) = Cardinality(InRow(r) \ OnPorts(W))
    BY <2>2, InstancesCounted
  <2>5. IsFiniteSet(Instances(r) \ W)
    <3>1. IsFiniteSet(Instances(r))
      BY <2>2, InstancesCounted
    <3> QED  BY <3>1, FS_Subset, Instances(r) \ W \in SUBSET Instances(r)
  <2>6. Cardinality(Instances(r) \ W) = failures' - failures
    <3>1. Cardinality(Instances(r) \ W) \in Nat /\ failures \in Nat
      BY <2>5, FS_CardinalityType DEF DPTypeOK
    <3> QED  BY <2>2, <3>1 DEF Forks
  <2> QED  BY <2>3, <2>4, <2>6 DEF W
<1> QED  BY <1>1, DPInvariance, DPTypeCorrect, PTL DEF ConfiguredIsOneRow

\* No step gives an instance that was stopped another child.
THEOREM StoppedAreGoing == DPSpec => StoppedGetNoChild
<1>1. DPInv /\ [DPNext]_vars => [\A s \in DOMAIN servers \cap DOMAIN servers' :
         servers[s].stopped => servers'[s].stopped /\ (~Alive(s) => ~Alive(s)')]_vars
  <2> SUFFICES ASSUME DPInv, DPNext, NEW s \in DOMAIN servers \cap DOMAIN servers', servers[s].stopped
               PROVE  servers'[s].stopped /\ (~Alive(s) => ~Alive(s)')
    OBVIOUS
  <2> USE DEF Alive
  <2>1. ASSUME NEW n \in Name, Deploy(n) \/ Takedown(n) \/ Configure(n)
        PROVE  servers'[s].stopped /\ servers'[s].life = servers[s].life
    <3>1. CASE UNCHANGED servers
      BY <3>1
    <3>2. CASE servers' = Stopped(n)
      BY <3>2, StoppedMap DEF DPInv, MapInv
    <3>3. CASE Starts(n, servers)
      BY <3>3 DEF Starts, With
    <3>4. CASE Starts(n, Stopped(n))
      <4>1. servers'[s] = Stopped(n)[s]
        BY <3>4, StoppedMap DEF Starts, With, DPInv, MapInv
      <4> QED  BY <4>1, StoppedMap DEF DPInv, MapInv
    <3> QED  BY <2>1, <3>1, <3>2, <3>3, <3>4 DEF Deploy, Takedown, Configure
  <2>2. ASSUME NEW t \in DOMAIN servers, Child(t) \/ Crash(t) \/ Exit(t)
        PROVE  servers'[s].stopped /\ (~Alive(s) => ~Alive(s)')
    <3>1. servers'[s].stopped
      BY <2>2, ChildEffect DEF DPInv, MapInv
    <3>2. CASE t # s
      BY <2>2, <3>1, <3>2 DEF Child, Bind, Killed, ProcessFinished, Crash, Exit, Dropped, Becomes, DPInv, MapInv, MapTyped
    <3>3. CASE t = s
      <4>1. ~ProcessFinished(s)
        BY <3>3 DEF ProcessFinished, GivesUp, Dropped
      <4>2. Bind(s) \/ Killed(s) \/ Crash(s) \/ Exit(s) => Alive(s)
        BY DEF Bind, Killed, BeingKilled, Crash, Exit
      <4> QED  BY <2>2, <3>1, <3>3, <4>1, <4>2 DEF Child
    <3> QED  BY <3>2, <3>3
  <2> QED  BY <2>1, <2>2 DEF DPNext
<1> QED  BY <1>1, DPInvariance, PTL DEF DPSpec, StoppedGetNoChild

------------------------------------------------------------------------------
\* While the last request for a name was to take it down, none of its instances is to
\* stay: what GoesAway needs besides fairness.
DownIsDown == \A n \in Name : answer[n] = "down" => Wanted(n) = {}

LEMMA RequestKeepsDown ==
  ASSUME DPInv, DownIsDown, NEW n \in Name, Deploy(n) \/ Takedown(n) \/ Configure(n)
  PROVE  DownIsDown'
<1> SUFFICES ASSUME NEW m \in Name, answer'[m] = "down"
             PROVE  Wanted(m)' = {}
  BY DEF DownIsDown
<1>1. PICK a \in Answers : /\ Asked(n, a)
                           /\ a = "down" => Takedown(n)
  BY DEF Deploy, Takedown, Configure, Answers
<1>2. answer' = [answer EXCEPT ![n] = a] /\ answer \in [Name -> Answers]
  BY <1>1 DEF Asked, DPInv
<1>3. CASE m = n
  <2>1. servers' = Stopped(n)
    BY <1>1, <1>2, <1>3 DEF Takedown
  <2> QED  BY <1>3, <2>1, StoppedMap DEF Wanted, InMap, DPInv, MapInv
<1>4. CASE m # n
  <2>1. Wanted(m) = {}
    BY <1>2, <1>4 DEF DownIsDown
  <2>2. CASE UNCHANGED servers
    BY <2>1, <2>2 DEF Wanted, InMap
  <2>3. CASE servers' = Stopped(n)
    BY <2>1, <2>3, StoppedMap DEF Wanted, InMap, DPInv, MapInv
  <2>4. CASE Starts(n, servers)
    <3>1. \E S : /\ DOMAIN servers' = DOMAIN servers \cup S
                  /\ (\A s \in S : s.name = n)
                  /\ (\A s \in DOMAIN servers : servers'[s] = servers[s])
      BY <2>4, DeployEffect DEF DPInv, MapInv
    <3> QED  BY <1>4, <2>1, <3>1 DEF Wanted, InMap
  <2>5. CASE Starts(n, Stopped(n))
    BY <1>4, <2>1, <2>5, ConfigureWanted DEF DPInv, MapInv
  <2> QED  BY <2>2, <2>3, <2>4, <2>5 DEF Deploy, Takedown, Configure
<1> QED  BY <1>3, <1>4

\* takedownServer() misses no instance of its name, and nothing that happens before the
\* next request for the name, to other names, children or the host, brings one back.
THEOREM TakenDownStaysDown == DPSpec => []DownIsDown
<1>1. DPInit => DownIsDown
  BY DEF DPInit, DownIsDown
<1>2. DPInv /\ DownIsDown /\ [DPNext]_vars => DownIsDown'
  <2> SUFFICES ASSUME DPInv, DownIsDown, [DPNext]_vars
               PROVE  DownIsDown'
    OBVIOUS
  <2>1. ASSUME NEW n \in Name, Deploy(n) \/ Takedown(n) \/ Configure(n)
        PROVE  DownIsDown'
    BY <2>1, RequestKeepsDown
  <2>2. ASSUME NEW s \in DOMAIN servers, Child(s) \/ Crash(s) \/ Exit(s)
        PROVE  DownIsDown'
    <3>1. answer' = answer
      BY <2>2 DEF Child, Bind, Killed, ProcessFinished, Crash, Exit
    <3>2. \A m \in Name : Wanted(m)' \subseteq Wanted(m)
      BY <2>2, ChildEffect DEF Wanted, InMap, DPInv, MapInv
    <3> QED  BY <3>1, <3>2 DEF DownIsDown
  <2>3. CASE UNCHANGED vars
    BY <2>3 DEF vars, DownIsDown, Wanted, InMap
  <2> QED  BY <2>1, <2>2, <2>3 DEF DPNext
<1> QED  BY <1>1, <1>2, DPInvariance, PTL DEF DPSpec

------------------------------------------------------------------------------
\* Refinement.

\* What the map holds are instances.
Held == DOMAIN servers \subseteq Instance

LEMMA InitHolds == DPInit => Held
<1> SUFFICES ASSUME DPInit, NEW s \in DOMAIN servers
             PROVE  s \in Instance
  BY DEF Held
<1> DEFINE start(r, p) == [name |-> r.name, port |-> p, number |-> NumberOf(r.first, p), copy |-> r.last]
<1>1. PICK r \in Rows : \E p \in PortsOf(r) : s = start(r, p)
  BY DEF DPInit
<1>2. PICK p \in PortsOf(r) : s = start(r, p)
  BY <1>1
<1>3. r.name \in Name /\ p \in Nat /\ r.first \in Nat /\ r.first <= p /\ r.last \in Nat
  BY DPAssumption DEF PortsOf, InRow
<1>4. NumberOf(r.first, p) \in Nat
  BY <1>3, NumberTyped
<1> QED  BY <1>2, <1>3, <1>4 DEF Instance

\* What a request makes of the map, whichever it is and however it ends.
LEMMA RequestEffect ==
  ASSUME MapTyped, NEW n \in Name, Deploy(n) \/ Takedown(n) \/ Configure(n)
  PROVE  \E N \in SUBSET Instance :
           /\ DOMAIN servers' = DOMAIN servers \cup N
           /\ \A s \in DOMAIN servers :
                /\ servers'[s].life = servers[s].life
                /\ servers'[s].retries = servers[s].retries
                /\ servers[s].stopped => servers'[s].stopped
           /\ \A s \in N \ DOMAIN servers : servers'[s] = Born
<1>1. CASE UNCHANGED servers
  BY <1>1, {} \in SUBSET Instance
<1>2. CASE servers' = Stopped(n)
  BY <1>2, {} \in SUBSET Instance, StoppedMap
<1>3. CASE Starts(n, servers)
  <2>1. \E N \in SUBSET Instance :
          /\ DOMAIN servers' = DOMAIN servers \cup N
          /\ \A s \in DOMAIN servers : servers'[s] = servers[s]
          /\ \A s \in N : servers'[s] = Born
    BY <1>3, DeployEffect
  <2> QED  BY <2>1
<1>4. CASE Starts(n, Stopped(n))
  <2>1. \E N \in SUBSET Instance :
          /\ DOMAIN servers' = DOMAIN servers \cup N
          /\ \A s \in DOMAIN servers : servers'[s] = Stopped(n)[s]
          /\ \A s \in N : servers'[s] = Born
    BY <1>4, ConfigureEffect
  <2> QED  BY <2>1, StoppedMap
<1> QED  BY <1>1, <1>2, <1>3, <1>4 DEF Deploy, Takedown, Configure

LEMMA RequestImplements ==
  ASSUME MapTyped, Held, NEW n \in Name, Deploy(n) \/ Takedown(n) \/ Configure(n)
  PROVE  Abstract!Request /\ Held'
<1>1. PICK N \in SUBSET Instance :
        /\ DOMAIN servers' = DOMAIN servers \cup N
        /\ \A s \in DOMAIN servers :
             /\ servers'[s].life = servers[s].life
             /\ servers'[s].retries = servers[s].retries
             /\ servers[s].stopped => servers'[s].stopped
        /\ \A s \in N \ DOMAIN servers : servers'[s] = Born
  BY RequestEffect
<1> DEFINE new == DOMAIN servers' \ DOMAIN servers
<1>2. \A s \in new : servers'[s] = [life |-> "forked", stopped |-> FALSE, retries |-> 0]
  BY <1>1 DEF Born
<1>3. Held'
  BY <1>1 DEF Held
<1>4. Stopping \subseteq Stopping' /\ Stopping' \subseteq DOMAIN servers
  BY <1>1, <1>2 DEF Stopping
<1>5. Living' = Living \cup new
  BY <1>1, <1>2 DEF Living, Alive
<1>6. Left' = [s \in DOMAIN servers' |-> IF s \in new THEN RetryLimit ELSE Left[s]]
  <2>1. RetryLimit - 0 = RetryLimit
    BY DPAssumption
  <2> QED  BY <1>1, <1>2, <2>1 DEF Left
<1> HIDE DEF new
<1>7. DOMAIN servers \subseteq DOMAIN servers' /\ DOMAIN servers' \subseteq Instance
  BY <1>1, <1>3 DEF Held
<1> QED  BY <1>3, <1>4, <1>5, <1>6, <1>7 DEF Abstract!Request, new

\* The end of a child.
LEMMA DieImplements ==
  ASSUME MapTyped, NEW s \in DOMAIN servers, Alive(s), NEW l \in {"crashed", "exited"}, Becomes(s, l)
  PROVE  Abstract!Die(s)
<1>1. servers' = [servers EXCEPT ![s].life = l]
  BY DEF Becomes
<1>2. /\ DOMAIN servers' = DOMAIN servers
      /\ \A t \in DOMAIN servers : /\ servers'[t].stopped = servers[t].stopped
                                   /\ servers'[t].retries = servers[t].retries
                                   /\ t # s => servers'[t].life = servers[t].life
      /\ servers'[s].life = l
  BY <1>1 DEF MapTyped, State
<1>3. s \in Living /\ Living' = Living \ {s}
  BY <1>2 DEF Living, Alive
<1>4. Stopping' = Stopping /\ Left' = Left
  BY <1>2 DEF Stopping, Left
<1> QED  BY <1>2, <1>3, <1>4 DEF Abstract!Die

\* A child that binds its port was alive and goes on to live.
LEMMA ServeImplements ==
  ASSUME MapTyped, NEW s \in DOMAIN servers, Alive(s), Becomes(s, "serving")
  PROVE  UNCHANGED <<DOMAIN servers, Stopping, Living, Left>>
<1>1. /\ DOMAIN servers' = DOMAIN servers
      /\ \A t \in DOMAIN servers : /\ servers'[t].stopped = servers[t].stopped
                                   /\ servers'[t].retries = servers[t].retries
                                   /\ t # s => servers'[t].life = servers[t].life
      /\ servers'[s].life = "serving"
  BY DEF Becomes, MapTyped, State
<1>2. Living' = Living
  BY <1>1 DEF Living, Alive
<1> QED  BY <1>1, <1>2 DEF Stopping, Left

LEMMA FinishedImplements ==
  ASSUME MapTyped, NEW s \in DOMAIN servers, ProcessFinished(s)
  PROVE  Abstract!Drop(s) \/ Abstract!Relaunch(s)
<1>1. s \notin Living
  BY DEF ProcessFinished, Living
<1>2. CASE Dropped(s)
  <2>1. servers' = [t \in DOMAIN servers \ {s} |-> servers[t]]
    BY <1>2 DEF Dropped
  <2>2. /\ DOMAIN servers' = DOMAIN servers \ {s}
        /\ \A t \in DOMAIN servers \ {s} : servers'[t] = servers[t]
    BY <2>1
  <2>3. Living' = Living /\ Stopping' = Stopping \ {s}
    BY <1>1, <2>2 DEF Living, Alive, Stopping
  <2>4. Left' = [t \in DOMAIN servers' |-> Left[t]]
    BY <2>2 DEF Left
  <2> QED  BY <1>1, <2>2, <2>3, <2>4 DEF Abstract!Drop
<1>3. CASE ~GivesUp(s) /\ ~Dropped(s)
  <2>1. servers' = [servers EXCEPT ![s].life = "forked", ![s].retries = @ + 1]
    BY <1>3 DEF ProcessFinished
  <2>2. /\ DOMAIN servers' = DOMAIN servers
        /\ \A t \in DOMAIN servers : /\ servers'[t].stopped = servers[t].stopped
                                     /\ t # s => servers'[t] = servers[t]
        /\ servers'[s].life = "forked" /\ servers'[s].retries = servers[s].retries + 1
    BY <2>1 DEF MapTyped, State
  <2>3. servers[s].retries \in 0 .. RetryLimit /\ servers[s].retries # RetryLimit /\ ~servers[s].stopped
    BY <1>3 DEF GivesUp, MapTyped, State
  <2>4. Living' = Living \cup {s}
    BY <2>2 DEF Living, Alive
  <2>5. Stopping' = Stopping /\ s \notin Stopping
    BY <2>2, <2>3 DEF Stopping
  <2>6. Left[s] > 0 /\ Left' = [Left EXCEPT ![s] = @ - 1]
    <3>1. /\ RetryLimit - servers[s].retries > 0
          /\ RetryLimit - (servers[s].retries + 1) = (RetryLimit - servers[s].retries) - 1
      BY <2>3, DPAssumption
    <3>2. Left[s] > 0 /\ \A t \in DOMAIN servers : Left'[t] = IF t = s THEN Left[t] - 1 ELSE Left[t]
      BY <2>2, <3>1 DEF Left
    <3>3. /\ Left = [t \in DOMAIN servers |-> Left[t]]
          /\ Left' = [t \in DOMAIN servers |-> Left'[t]]
      BY <2>2 DEF Left
    <3> HIDE DEF Left
    <3> QED  BY <3>2, <3>3
  <2> QED  BY <1>1, <2>2, <2>4, <2>5, <2>6 DEF Abstract!Relaunch
<1> QED  BY <1>2, <1>3 DEF ProcessFinished

LEMMA ChildImplements ==
  ASSUME MapTyped, NEW s \in DOMAIN servers, Child(s) \/ Crash(s) \/ Exit(s)
  PROVE  \/ Abstract!Die(s) \/ Abstract!Drop(s) \/ Abstract!Relaunch(s)
         \/ UNCHANGED <<DOMAIN servers, Stopping, Living, Left>>
<1>1. CASE Bind(s)
  <2>1. Alive(s) /\ (Becomes(s, "exited") \/ Becomes(s, "serving"))
    BY <1>1 DEF Bind, Alive
  <2> QED  BY <2>1, DieImplements, ServeImplements
<1>2. CASE Killed(s) \/ Crash(s)
  <2>1. Alive(s) /\ Becomes(s, "crashed")
    BY <1>2 DEF Killed, BeingKilled, Crash
  <2> QED  BY <2>1, DieImplements
<1>3. CASE Exit(s)
  <2>1. Alive(s) /\ Becomes(s, "exited")
    BY <1>3 DEF Exit
  <2> QED  BY <2>1, DieImplements
<1>4. CASE ProcessFinished(s)
  BY <1>4, FinishedImplements
<1> QED  BY <1>1, <1>2, <1>3, <1>4 DEF Child

\* Deployments, takedowns and configurations of names with any rows, on top of each
\* other and with late deaths, behave like the abstract supervisor.
THEOREM DPImplementation == DPSpec => ImplementsSupervision
<1>1. DPInit => Abstract!Init /\ Held
  <2> SUFFICES ASSUME DPInit
               PROVE  Abstract!Init
    BY InitHolds
  <2>1. \A s \in DOMAIN servers : servers[s] = [life |-> "forked", stopped |-> FALSE, retries |-> 0]
    BY DEF DPInit, Born
  <2>2. Living = DOMAIN servers /\ Stopping = {}
    BY <2>1 DEF Living, Alive, Stopping
  <2>3. Left = [s \in DOMAIN servers |-> RetryLimit]
    <3>1. RetryLimit - 0 = RetryLimit
      BY DPAssumption
    <3> QED  BY <2>1, <3>1 DEF Left
  <2>4. DOMAIN servers \subseteq Instance
    BY InitHolds DEF Held
  <2> QED  BY <2>2, <2>3, <2>4 DEF Abstract!Init
<1>2. DPInv /\ Held /\ [DPNext]_vars =>
        Held' /\ [Abstract!Next]_<<DOMAIN servers, Stopping, Living, Left>>
  <2> SUFFICES ASSUME DPInv, Held, [DPNext]_vars
               PROVE  Held' /\ (\/ Abstract!Next
                                \/ UNCHANGED <<DOMAIN servers, Stopping, Living, Left>>)
    OBVIOUS
  <2>1. ASSUME NEW n \in Name, Deploy(n) \/ Takedown(n) \/ Configure(n)
        PROVE  Held' /\ Abstract!Next
    BY <2>1, RequestImplements DEF Abstract!Next, DPInv, MapInv
  <2>2. ASSUME NEW s \in DOMAIN servers, Child(s) \/ Crash(s) \/ Exit(s)
        PROVE  Held' /\ (\/ Abstract!Next
                         \/ UNCHANGED <<DOMAIN servers, Stopping, Living, Left>>)
    <3>1. Held'
      BY <2>2, ChildEffect DEF Held, DPInv, MapInv
    <3> QED  BY <2>2, <3>1, ChildImplements DEF Abstract!Next, DPInv, MapInv
  <2>3. CASE UNCHANGED vars
    BY <2>3 DEF vars, Held, Stopping, Living, Left, Alive
  <2> QED  BY <2>1, <2>2, <2>3 DEF DPNext
<1> QED  BY <1>1, <1>2, DPInvariance, PTL DEF DPSpec, ImplementsSupervision, Abstract!Spec

============================================================================
