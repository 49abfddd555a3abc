----------------------------- MODULE MCBulkLoad -----------------------------
(* Model-checking instance of BulkLoad.                                    *)
EXTENDS BulkLoad, TLC

\* Importers that send the same kind of requests are interchangeable.
ImporterSymmetry == Permutations(Importers \ Mixed)
=============================================================================
