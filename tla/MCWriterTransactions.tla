------------------------- MODULE MCWriterTransactions -------------------------
(* Small instances of WriterTransactions. *)
EXTENDS WriterTransactions
===============================================================================
