---------------------------- MODULE MCApplication ----------------------------
(* Small instances of GatewayApplication. *)
EXTENDS GatewayApplication

CONSTANTS main, other, camera
===============================================================================
