-------------------------- MODULE StartInstances ---------------------------
(***************************************************************************)
(* The loop of AppController::startServerInstances() with its machine      *)
(* integers: the port is a quint16, the instance number a quint8.  Module  *)
(* AppController takes from here that a row with ports a .. b yields       *)
(* b - a + 1 rounds; what a round does is modelled there.                  *)
(***************************************************************************)
EXTENDS Naturals, Sequences

CONSTANTS
  PortMod,    \* 2^16 in the code
  NumberMod,  \* 2^8 in the code
  MaxStarts   \* bound on the rounds of a loop that does not end

ASSUME StartInstancesAssumption ==
  /\ PortMod \in Nat \ {0}
  /\ NumberMod \in Nat \ {0}
  /\ MaxStarts \in Nat /\ MaxStarts > PortMod

VARIABLES
  port_start,      \* columns port_start and port_stop of the row
  port_end,
  it,              \* the port of the next instance
  instance_count,  \* the number of the next instance
  started          \* what the instances so far were constructed with

siVars == <<port_start, port_end, it, instance_count, started>>

Port     == 0 .. PortMod - 1
Number   == 0 .. NumberMod - 1
Instance == [port : Port, number : Number]

SITypeOK ==
  /\ port_start \in Port
  /\ port_end \in Port
  /\ it \in Port
  /\ instance_count \in Number
  /\ started \in Seq(Instance)
  /\ Len(started) <= MaxStarts

SIInit ==
  /\ port_start \in Port
  /\ port_end \in Port
  /\ it = port_start
  /\ instance_count = 0
  /\ started = <<>>

\* Mutant: the last port of the row is left out.
MoreBelow == it < port_end

(* The condition of the loop.                                              *)
More == it <= port_end

\* Mutant: the counter stops at its limit.
NumberSaturates == IF instance_count = NumberMod - 1 THEN instance_count
                   ELSE instance_count + 1

(* ++ instance_count                                                       *)
NextNumber == (instance_count + 1) % NumberMod

\* Mutant: the port is as narrow as the counter.
NarrowPort == (it + 1) % NumberMod

(* ++ it                                                                   *)
NextPort == (it + 1) % PortMod

(* One round.                                                              *)
Round ==
  /\ More
  /\ Len(started) < MaxStarts
  /\ started' = Append(started, [port |-> it, number |-> instance_count])
  /\ it' = NextPort
  /\ instance_count' = NextNumber
  /\ UNCHANGED <<port_start, port_end>>

SISpec     == SIInit /\ [][Round]_siVars
SIFairSpec == SISpec /\ WF_siVars(Round)

----------------------------------------------------------------------------
(* Every row but one that ends at the last port of all: such a loop cannot *)
(* end, since no quint16 is above its port_end.                            *)
Bounded == port_end < PortMod - 1

(* The instances get the ports of the row in order, each once.             *)
PortsInOrder ==
  Bounded => \A i \in 1 .. Len(started) :
    /\ started[i].port = port_start + i - 1
    /\ started[i].port <= port_end

(* While the row has no more ports than a quint8 can count, each instance  *)
(* has a number, and with it a configuration and log files, of its own.    *)
NumbersUnique ==
  \A i, j \in 1 .. Len(started) :
    i < j /\ j - i < NumberMod => started[i].number # started[j].number

(* A loop that is over has started the whole row.                          *)
WholeRow ==
  ~More => Len(started) = IF port_start <= port_end
                            THEN port_end - port_start + 1 ELSE 0

(* The loop of every other row ends.                                       *)
RowEnds == Bounded ~> ~More
============================================================================
