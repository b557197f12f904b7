---------------------------- MODULE MCStockLedger ----------------------------
(***************************************************************************)
(* Model checking of StockLedger.  The instances differ in which documents  *)
(* exist; documents of one kind are interchangeable in them.               *)
(***************************************************************************)
EXTENDS StockLedger, TLC

\* Receipts, issues, returns, transfers, reservations and counts are alike: no
\* definition names one of them.
Alike == Permutations(Receipts) \cup Permutations(Issues) \cup Permutations(Returns)
           \cup Permutations(Transfers) \cup Permutations(Reservations)
           \cup Permutations(Counts)
=============================================================================
