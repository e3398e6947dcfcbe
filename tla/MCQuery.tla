------------------------------- MODULE MCQuery -------------------------------
(* The Query gateway on a small instance: one configured endpoint, and one  *)
(* request that names an endpoint without a route.                          *)
EXTENDS QueryGateway, TLC

CONSTANTS e1, ghost, i1, i2, query, action, h1, h2, d1, d2

MCTarget == [r \in Requests |-> IF r = h2 THEN ghost ELSE e1]
=============================================================================
