------------------------------- MODULE MCAction -------------------------------
(* The Action gateway on small instances: one endpoint, one operation.       *)
EXTENDS ActionGateway, TLC

CONSTANTS i1, i2, h1, d1, d2

\* Instances are alike, and so are the executions of Dora callers.
Symmetric == Permutations(Instances) \cup Permutations(DoraKeys)
=============================================================================
