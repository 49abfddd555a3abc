-------------------------- MODULE MCLogReplication --------------------------
(* Model-checking instances of LogReplication.                             *)
EXTENDS LogReplication
=============================================================================
