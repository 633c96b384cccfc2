-------------------------- MODULE MCAppController --------------------------
(* Values for the constants of AppController.  "web" has rows in the       *)
(* database, "api" has none.                                               *)
EXTENDS AppController, TLC

CONSTANTS o1, o2, o3, web, api

TwoWebOneApi == [o \in Object |-> IF o = o3 THEN api ELSE web]
OneEach      == [n \in Name |-> 1]
BootsOne     == [n \in Name |-> IF n = web THEN 1 ELSE 0]
BootsTwo     == [n \in Name |-> IF n = web THEN 2 ELSE 0]
PidSymmetry  == Permutations(Pid)
============================================================================
