------------------------------- MODULE MCRunner -------------------------------
(* Small instances of DoraRunner. *)
EXTENDS DoraRunner

CONSTANTS tool, joints, camera
===============================================================================
