---------------------------- MODULE MCPersistQueue ---------------------------
(* PersistQueue on the small sets of its configurations.                   *)
EXTENDS PersistQueue
==============================================================================
