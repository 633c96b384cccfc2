------------------------ MODULE StartInstancesProofs -----------------------
(* Proofs about the loop of startServerInstances(), for integers of any    *)
(* width.                                                                  *)
EXTENDS StartInstances, TLAPS

(* A loop that can end has counted its rounds in its port.                 *)
InStep == Bounded => it = port_start + Len(started)

SIInv == SITypeOK /\ PortsInOrder /\ InStep /\ WholeRow

LEMMA Wraps ==
  ASSUME NEW n \in Nat, NEW m \in Nat \ {0}
  PROVE  n % m \in 0 .. m - 1
<1>1. n % m \in Nat /\ n % m < m
  OBVIOUS
<1> QED  BY <1>1

LEMMA WrapsNot ==
  ASSUME NEW m \in Nat \ {0}, NEW n \in 0 .. m - 1
  PROVE  n % m = n
OBVIOUS

LEMMA SIInitInv == SIInit => SIInv
<1> SUFFICES ASSUME SIInit
             PROVE  SIInv
  OBVIOUS
<1>1. SITypeOK
  BY StartInstancesAssumption DEF SIInit, SITypeOK, Port, Number
<1>2. PortsInOrder /\ InStep /\ WholeRow
  BY DEF SIInit, PortsInOrder, InStep, WholeRow, More, Port
<1> QED  BY <1>1, <1>2 DEF SIInv

LEMMA RoundInv ==
  ASSUME SIInv, Round
  PROVE  SIInv'
<1> DEFINE new == [port |-> it, number |-> instance_count]
<1> USE DEF SIInv, Round
<1>1. /\ it \in Nat /\ port_start \in Nat /\ port_end \in Nat
      /\ instance_count \in Nat
      /\ started \in Seq(Instance)
      /\ new \in Instance
  BY StartInstancesAssumption DEF SITypeOK, Port, Number, Instance
<1>2. /\ it' \in Port
      /\ instance_count' \in Number
  <2>1. it + 1 \in Nat /\ instance_count + 1 \in Nat
    BY <1>1
  <2>2. (it + 1) % PortMod \in 0 .. PortMod - 1
    BY <2>1, Wraps, StartInstancesAssumption
  <2>3. (instance_count + 1) % NumberMod \in 0 .. NumberMod - 1
    BY <2>1, Wraps, StartInstancesAssumption
  <2> QED  BY <2>2, <2>3 DEF NextPort, NextNumber, Port, Number
<1>3. /\ started' \in Seq(Instance)
      /\ Len(started') = Len(started) + 1
      /\ \A i \in 1 .. Len(started) : started'[i] = started[i]
      /\ started'[Len(started) + 1] = new
      /\ new.port = it
  BY <1>1
<1> HIDE DEF new
<1>4. SITypeOK'
  BY <1>1, <1>2, <1>3, StartInstancesAssumption DEF SITypeOK
<1>5. ASSUME Bounded
      PROVE  it' = it + 1
  <2>1. it + 1 \in 0 .. PortMod - 1
    BY <1>1, <1>5, StartInstancesAssumption DEF Bounded, More
  <2> QED  BY <2>1, WrapsNot, StartInstancesAssumption DEF NextPort
<1>6. InStep'
  BY <1>1, <1>3, <1>5 DEF InStep, Bounded
<1>7. PortsInOrder'
  <2> SUFFICES ASSUME Bounded, NEW i \in 1 .. Len(started')
               PROVE  /\ started'[i].port = port_start + i - 1
                      /\ started'[i].port <= port_end
    BY DEF PortsInOrder, Bounded
  <2>1. CASE i \in 1 .. Len(started)
    BY <1>3, <2>1 DEF PortsInOrder
  <2>2. CASE i = Len(started) + 1
    BY <1>1, <1>3, <2>2 DEF InStep, More
  <2> QED  BY <1>1, <1>3, <2>1, <2>2
<1>8. WholeRow'
  <2>1. CASE Bounded
    BY <1>1, <1>3, <1>5, <2>1 DEF WholeRow, InStep, More
  <2>2. CASE ~Bounded
    <3>1. it' <= port_end
      BY <1>1, <1>2, <2>2, StartInstancesAssumption DEF Bounded, Port, SITypeOK
    <3> QED  BY <3>1 DEF WholeRow, More
  <2> QED  BY <2>1, <2>2
<1> QED  BY <1>4, <1>6, <1>7, <1>8

THEOREM SIInvariance == SISpec => []SIInv
<1>1. SIInit => SIInv
  BY SIInitInv
<1>2. SIInv /\ [Round]_siVars => SIInv'
  <2>1. SIInv /\ Round => SIInv'
    BY RoundInv
  <2>2. SIInv /\ UNCHANGED siVars => SIInv'
    BY DEF SIInv, siVars, SITypeOK, PortsInOrder, InStep, WholeRow, Bounded,
           More
  <2> QED  BY <2>1, <2>2
<1> QED  BY <1>1, <1>2, PTL DEF SISpec

(* The instances of a row get its ports in order, each once, none beyond   *)
(* the end of the row, for a port type of any width.                       *)
THEOREM PortsAreInOrder == SISpec => []PortsInOrder
<1>1. SIInv => PortsInOrder
  BY DEF SIInv
<1> QED  BY <1>1, SIInvariance, PTL

(* A loop that is over has started one instance for each port of the row.  *)
THEOREM RowIsWhole == SISpec => []WholeRow
<1>1. SIInv => WholeRow
  BY DEF SIInv
<1> QED  BY <1>1, SIInvariance, PTL

(* Port, number and instances keep their types, also where they wrap.      *)
THEOREM SITypeCorrect == SISpec => []SITypeOK
<1>1. SIInv => SITypeOK
  BY DEF SIInv
<1> QED  BY <1>1, SIInvariance, PTL

----------------------------------------------------------------------------
(* Numbers. That two numbers differ is not inductive; that they are as far *)
(* apart as their rounds are, once around the counter or less, is.         *)
Apart(a, b, d) == b = a + d \/ b = a + d - NumberMod

NumbersApart ==
  /\ \A i, j \in 1 .. Len(started) :
       i < j /\ j - i < NumberMod =>
         Apart(started[i].number, started[j].number, j - i)
  /\ \A i \in 1 .. Len(started) :
       Len(started) + 1 - i < NumberMod =>
         Apart(started[i].number, instance_count, Len(started) + 1 - i)

LEMMA NextNumberIs ==
  ASSUME instance_count \in Number
  PROVE  NextNumber = IF instance_count = NumberMod - 1 THEN 0
                      ELSE instance_count + 1
<1>1. NumberMod \in Nat \ {0} /\ instance_count \in 0 .. NumberMod - 1
  BY StartInstancesAssumption DEF Number
<1>2. CASE instance_count = NumberMod - 1
  <2>1. instance_count + 1 = NumberMod
    BY <1>1, <1>2
  <2>2. NumberMod % NumberMod = 0
    BY <1>1
  <2> QED  BY <1>2, <2>1, <2>2 DEF NextNumber
<1>3. CASE instance_count # NumberMod - 1
  <2>1. instance_count + 1 \in 0 .. NumberMod - 1
    BY <1>1, <1>3
  <2> QED  BY <1>1, <1>3, <2>1, WrapsNot DEF NextNumber
<1> QED  BY <1>2, <1>3

LEMMA NumbersTyped ==
  ASSUME SITypeOK, NEW i \in 1 .. Len(started)
  PROVE  started[i].number \in 0 .. NumberMod - 1
<1>1. started[i] \in Instance
  BY DEF SITypeOK
<1> QED  BY <1>1 DEF Instance, Number

LEMMA RoundApart ==
  ASSUME SITypeOK, NumbersApart, Round
  PROVE  NumbersApart'
<1> DEFINE new == [port |-> it, number |-> instance_count]
           L == Len(started)
<1>1. /\ L \in Nat /\ NumberMod \in Nat \ {0}
      /\ instance_count \in 0 .. NumberMod - 1
      /\ \A i \in 1 .. L : started[i].number \in 0 .. NumberMod - 1
      /\ new \in Instance /\ started \in Seq(Instance)
  BY NumbersTyped, StartInstancesAssumption DEF SITypeOK, Number, Instance
<1>2. /\ Len(started') = L + 1
      /\ \A i \in 1 .. L : started'[i] = started[i]
      /\ started'[L + 1] = new /\ new.number = instance_count
  BY <1>1 DEF Round
<1>3. instance_count' = IF instance_count = NumberMod - 1 THEN 0
                        ELSE instance_count + 1
  BY NextNumberIs DEF SITypeOK, Round
<1> HIDE DEF new, L
<1>4. ASSUME NEW i \in 1 .. L + 1, NEW j \in 1 .. L + 1,
             i < j, j - i < NumberMod
      PROVE  Apart(started'[i].number, started'[j].number, j - i)
  <2>1. i \in 1 .. L
    BY <1>1, <1>4
  <2>2. CASE j \in 1 .. L
    BY <1>2, <1>4, <2>1, <2>2 DEF NumbersApart, L
  <2>3. CASE j = L + 1
    BY <1>2, <1>4, <2>1, <2>3 DEF NumbersApart, L
  <2> QED  BY <1>1, <2>2, <2>3
<1>5. ASSUME NEW i \in 1 .. L + 1, L + 2 - i < NumberMod
      PROVE  Apart(started'[i].number, instance_count', L + 2 - i)
  <2>1. CASE i \in 1 .. L
    <3>1. Apart(started[i].number, instance_count, L + 1 - i)
      BY <1>1, <1>5, <2>1 DEF NumbersApart, L
    <3>2. started'[i].number = started[i].number
      BY <1>2, <2>1
    <3>3. /\ started[i].number \in Nat /\ instance_count \in Nat
          /\ NumberMod \in Nat /\ L \in Nat /\ i \in Nat
      BY <1>1, <2>1
    <3>4. CASE instance_count = NumberMod - 1
      BY <1>1, <1>3, <1>5, <2>1, <3>1, <3>2, <3>3, <3>4 DEF Apart
    <3>5. CASE instance_count # NumberMod - 1
      BY <1>1, <1>3, <1>5, <2>1, <3>1, <3>2, <3>3, <3>5 DEF Apart
    <3> QED  BY <3>4, <3>5
  <2>2. CASE i = L + 1
    BY <1>1, <1>2, <1>3, <2>2 DEF Apart
  <2> QED  BY <1>1, <2>1, <2>2
<1> QED  BY <1>1, <1>2, <1>4, <1>5 DEF NumbersApart

(* As long as fewer than NumberMod rounds lie between two instances, they  *)
(* have different numbers, for a counter of any width.                     *)
THEOREM NumbersAreUnique == SISpec => []NumbersUnique
<1>1. SIInit => NumbersApart
  BY DEF SIInit, NumbersApart
<1>2. SITypeOK /\ NumbersApart /\ [Round]_siVars => NumbersApart'
  <2>1. SITypeOK /\ NumbersApart /\ Round => NumbersApart'
    BY RoundApart
  <2>2. NumbersApart /\ UNCHANGED siVars => NumbersApart'
    BY DEF NumbersApart, siVars
  <2> QED  BY <2>1, <2>2
<1>3. SITypeOK /\ NumbersApart => NumbersUnique
  <2> SUFFICES ASSUME SITypeOK, NumbersApart,
                      NEW i \in 1 .. Len(started), NEW j \in 1 .. Len(started),
                      i < j, j - i < NumberMod
               PROVE  started[i].number # started[j].number
    BY DEF NumbersUnique
  <2>1. Apart(started[i].number, started[j].number, j - i)
    BY DEF NumbersApart
  <2>2. started[i].number \in Nat /\ started[j].number \in Nat
        /\ NumberMod \in Nat
    BY NumbersTyped, StartInstancesAssumption
  <2> QED  BY <2>1, <2>2 DEF Apart
<1> QED  BY <1>1, <1>2, <1>3, SITypeCorrect, PTL DEF SISpec

----------------------------------------------------------------------------
(* When the loop ends.                                                     *)

(* A loop that has not reached the end of its row is not held up by the    *)
(* bound of the model and has made no more rounds than the row has ports:  *)
(* what RowEnds needs besides fairness.                                    *)
THEOREM RoundsAreLeft ==
  SISpec => [](Bounded /\ More => Len(started) < MaxStarts
                                 /\ Len(started) <= port_end - port_start)
<1>1. SIInv /\ Bounded /\ More => Len(started) < MaxStarts
                                 /\ Len(started) <= port_end - port_start
  BY StartInstancesAssumption
     DEF SIInv, SITypeOK, InStep, Bounded, More, Port
<1> QED  BY <1>1, SIInvariance, PTL

(* A row whose port_stop is the largest quint16 keeps the program in the   *)
(* loop for ever: however many instances it has started, another is due.   *)
THEOREM LastPortNeverEnds == SISpec => [](~Bounded => More)
<1>1. SIInv /\ ~Bounded => More
  BY StartInstancesAssumption DEF SIInv, SITypeOK, Bounded, More, Port
<1> QED  BY <1>1, SIInvariance, PTL

============================================================================
