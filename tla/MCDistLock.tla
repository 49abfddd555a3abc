------------------------------ MODULE MCDistLock ------------------------------
(* Model-checking instances of DistLock.                                       *)
EXTENDS DistLock
=============================================================================
