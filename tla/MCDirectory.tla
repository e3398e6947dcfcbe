----------------------------- MODULE MCDirectory -----------------------------
(* The Endpoint Directory with two endpoints, one of them claimed by two    *)
(* routes, so that route conflicts can happen.                              *)
EXTENDS EndpointDirectory, TLC

CONSTANTS e1, e2, r1, r2, r3, i1, i2, query, action, service

MCRouteEndpoint == r1 :> e1 @@ r2 :> e2 @@ r3 :> e1
Symmetry == Permutations({i1, i2})
=============================================================================
