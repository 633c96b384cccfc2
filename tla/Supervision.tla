---------------------------- MODULE Supervision ----------------------------
(***************************************************************************)
(* What the controller and its ServerProcess objects promise together,     *)
(* without files, pids, processes, ports or a database: a server that is   *)
(* launched has a child and is served until it is dropped; its child may   *)
(* be launched again a limited number of times, each time when the one     *)
(* before is dead, and never after somebody asked for its end; no server   *)
(* is dropped while its child is alive.  AppController and Deployments     *)
(* both implement it.                                                      *)
(***************************************************************************)
EXTENDS Naturals

CONSTANTS Object, RetryLimit

VARIABLES
  served,    \* the servers under supervision
  stopping,  \* those somebody asked to end
  alive,     \* those whose child is alive
  left       \* relaunches each of them has left

TypeOK ==
  /\ served \subseteq Object
  /\ stopping \subseteq served
  /\ alive \subseteq served
  /\ left \in [served -> 0 .. RetryLimit]

(* A supervisor may come into being with servers.                          *)
Init ==
  /\ served \subseteq Object
  /\ stopping = {}
  /\ alive = served
  /\ left = [o \in served |-> RetryLimit]

(* A request: some servers are asked to end, which may or may not have     *)
(* killed their children by now, and others are launched.                  *)
Request ==
  LET new == served' \ served
  IN /\ served \subseteq served' /\ served' \subseteq Object
     /\ stopping \subseteq stopping' /\ stopping' \subseteq served
     /\ alive' \subseteq alive \cup new
     /\ (alive \ stopping') \cup new \subseteq alive'
     /\ left' = [o \in served' |-> IF o \in new THEN RetryLimit ELSE left[o]]

Die(o) ==
  /\ o \in alive
  /\ alive' = alive \ {o}
  /\ UNCHANGED <<served, stopping, left>>

Relaunch(o) ==
  /\ o \in served \ (stopping \cup alive)
  /\ left[o] > 0
  /\ left' = [left EXCEPT ![o] = @ - 1]
  /\ alive' = alive \cup {o}
  /\ UNCHANGED <<served, stopping>>

Drop(o) ==
  /\ o \in served \ alive
  /\ served' = served \ {o}
  /\ stopping' = stopping \ {o}
  /\ left' = [s \in served' |-> left[s]]
  /\ UNCHANGED alive

(* The end of the controller.                                              *)
Halt ==
  /\ served' = {}
  /\ stopping' = {}
  /\ alive' = {}
  /\ left' = [o \in {} |-> 0]

Next ==
  \/ Request
  \/ \E o \in served : Die(o) \/ Relaunch(o) \/ Drop(o)
  \/ Halt

Spec == Init /\ [][Next]_<<served, stopping, alive, left>>
============================================================================
