------------------------------- MODULE MCStream -------------------------------
(* Small instances of EventStream. *)
EXTENDS EventStream

CONSTANTS k, i
===============================================================================
