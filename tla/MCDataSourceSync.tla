---------------------------- MODULE MCDataSourceSync ----------------------------
(* Instances of DataSourceSync for TLC. *)
EXTENDS DataSourceSync

\* Every instance triggers and nothing goes wrong, or one of them does and one
\* fault or one request comes.
MCSetups ==
  {[entries |-> Instances, faults |-> 0, requests |-> 0]} \cup
  {[entries |-> {CHOOSE i \in Instances : TRUE}, faults |-> f, requests |-> 1 - f] : f \in 0 .. 1}
=============================================================================
