------------------------------ MODULE MCEndpoint ------------------------------
(* Small instances of ToolEndpoint. *)
EXTENDS ToolEndpoint

CONSTANTS k1, k2, t1, t2, e1, e2
===============================================================================
