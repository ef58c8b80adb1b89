------------------------ MODULE MCTransactionManager ------------------------
(* Model values and bounds for TransactionManager. *)
EXTENDS TransactionManager

CONSTANTS t1, c1, c2

MCMarks == {"committing"}
=============================================================================
