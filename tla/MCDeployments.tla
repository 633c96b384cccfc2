---------------------------- MODULE MCDeployments ----------------------------
(* Instances of Deployments for TLC: a name with one row of two ports, one with  *)
(* two rows, and one without.                                                    *)
EXTENDS Deployments

MCRows == {[name |-> "one", first |-> 1, last |-> 2],
           [name |-> "two", first |-> 3, last |-> 3], [name |-> "two", first |-> 4, last |-> 4]}
MCName == {"one", "two", "no"}

==============================================================================
