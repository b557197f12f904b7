---------------------------- MODULE MCStockScenes ----------------------------
(***************************************************************************)
(* Two scenes of StockLedger to a run: issues and their returns, or counts  *)
(* beside adjustments; transfers between two stores, or what requests and   *)
(* reservations ask of one.  TLC follows a behaviour for as long as it      *)
(* stays in one of the scenes.                                              *)
(***************************************************************************)
EXTENDS MCStockLedger

Untouched(docs) == \A d \in docs : doc[d].status = "NONE"

\* Whether an item is returnable is of interest where it is returned.
ReturnsScene == Untouched(Adjustments \cup Counts)
CountsScene == Untouched(Issues \cup Returns) /\ returnable = Items

OneScene == ReturnsScene \/ CountsScene

\* Bounds of the scenes: nothing moves more than two of an item, and an adjustment
\* beside a transfer one; the receipt that demand draws on always brings all it can, and
\* a request and a reservation ask for two; demand meets one store and no posting that
\* overlaps another.
Plenty == /\ \A d \in Receipts, i \in Items : doc[d].lines[i] \in {0, MaxQty}
          /\ \A d \in Requests, i \in Items : doc[d].lines[i] \in {0, 2}
          /\ \A r \in Reservations : rsv[r].q \in {0, 2}
Small(docs) == /\ \A d \in docs, i \in Items : doc[d].lines[i] <= 2
               /\ \A r \in Reservations : rsv[r].q <= 2
OneStore ==
    LET home == CHOOSE s \in Stores : TRUE
    IN /\ \A d \in Docs : doc[d].status # "NONE" => doc[d].head.store \in {home, NULL}
       /\ \A r \in Reservations : rsv[r].status # "NONE" => rsv[r].store = home
NoOverlap == \A t \in ledger : t.at = t.number

TransfersScene ==
    /\ Untouched(Issues \cup Requests) /\ Small(Docs)
    /\ \A d \in Adjustments, i \in Items : doc[d].lines[i] <= 1
DemandScene ==
    /\ Untouched(Transfers \cup Adjustments) /\ archived = {}
    /\ Small(Docs \ Receipts) /\ Plenty /\ OneStore /\ NoOverlap

MovesScene == TransfersScene \/ DemandScene
=============================================================================
