-------------------------- MODULE MCServerProcess --------------------------
(* Values for the constants of ServerProcess.                              *)
EXTENDS ServerProcess, TLC

CONSTANTS o1, o2, web

OneName == [o \in Object |-> web]
PidSymmetry == Permutations(Pid)
============================================================================
