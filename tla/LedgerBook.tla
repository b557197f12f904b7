------------------------------ MODULE LedgerBook ------------------------------
(***************************************************************************)
(* What the stock ledger promises, without documents or workflows: a book   *)
(* to which postings are only ever added, each under a key of its own, and  *)
(* balances that change only by what is posted and are never oversold.      *)
(***************************************************************************)
EXTENDS Integers

CONSTANTS Items, Stores

VARIABLES balance, book

Fields == {"onHand", "reserved", "quarantined", "inTransit"}

Promised(b) ==
    /\ \A f \in Fields : b[f] >= 0
    /\ b.reserved + b.quarantined <= b.onHand

SameKey(t, u) == t.source = u.source /\ t.item = u.item /\ t.type = u.type

Init ==
    /\ balance = [i \in Items |-> [s \in Stores |-> [f \in Fields |-> 0]]]
    /\ book = {}

\* Enter the postings of one operation, at most one for an item.
Enter(new) ==
    /\ \A t \in new : /\ t.item \in Items
                      /\ \A u \in book : ~SameKey(t, u)
    /\ \A t, u \in new : t.item = u.item => t = u
    /\ book' = book \cup new
    /\ \A i \in Items, s \in Stores :
          /\ \A t \in new : t.item = i =>
                \A f \in Fields : balance'[i][s][f] = balance[i][s][f] + t.move[s][f]
          /\ (\A t \in new : t.item # i) => balance'[i][s] = balance[i][s]
          /\ Promised(balance'[i][s])

Next == Enter(book' \ book)

Spec == Init /\ [][Next]_<<balance, book>>
=============================================================================
