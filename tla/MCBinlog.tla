------------------------------ MODULE MCBinlog ------------------------------
(* Model-checking instances of Binlog.                                     *)
EXTENDS Binlog
=============================================================================
