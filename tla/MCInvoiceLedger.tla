--------------------------- MODULE MCInvoiceLedger ---------------------------
(***************************************************************************)
(* Small instances of InvoiceLedger.  Rows and call slots are              *)
(* interchangeable in the safety runs.                                     *)
(***************************************************************************)
EXTENDS InvoiceLedger, TLC

Symmetry == Permutations(Rows) \cup Permutations(Calls)
=============================================================================
