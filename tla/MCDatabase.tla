----------------------------- MODULE MCDatabase -----------------------------
(* An instance of Database for TLC: a name with two rows, a name with one.       *)
EXTENDS Database

MCKeys == {<<"n1", 1>>, <<"n1", 2>>, <<"n2", 1>>}

==============================================================================
