------------------------------ MODULE Serials ------------------------------
(***************************************************************************)
(* Items of the inventory that are told apart by a serial number           *)
(* (services/inventory.py: tracked, post_line, reserve, release, reverse). *)
(* Every serial says where it is and in what state, beside the buckets     *)
(* that count the stock of a store.  One item without batches, each store  *)
(* one bucket; documents have one line and are approved: who drafts and    *)
(* approves them, costs, requests and custody are StockLedger's.           *)
(* Everything is done under the lock of the inventory.                     *)
(***************************************************************************)
EXTENDS SiteRecords

SerialNumbers == 1..3   \* a bound
Stores == Names
Nowhere == "nowhere"

SerialStatuses ==
    {"IN_STOCK", "RESERVED", "ISSUED", "IN_TRANSIT", "QUARANTINED", "SCRAPPED", "CANCELLED"}

\* A serial that counts as stock of the store it is in.
Held == {"IN_STOCK", "RESERVED", "QUARANTINED"}

SerialRows == [there : {TRUE}, store : Stores \cup {Nowhere}, status : SerialStatuses]

\* Of a store; counted, a history, says that a count of one serial wrote off more.
Fields == {"onHand", "reserved", "quarantined", "transit"}
BucketRows ==
    LET Count == SerialNumbers \cup {0}
    IN [there : {TRUE}, counted : BOOLEAN,
        onHand : Count, reserved : Count, quarantined : Count, transit : Count]
Bucket(store) == <<"buckets", store>>

\* Of the serial of the same number: at most one is active, as at most one
\* transfer is under way.
ReservationRows == [there : {TRUE}, store : Stores]
TransferRows == [there : {TRUE}, origin : Stores, to : Stores]
Reservation(n) == <<"reservations", n[2]>>
TransferRow(n) == <<"transfers", n[2]>>

\* The latest movement: of an issue that may be reversed, a receipt, or another.
LastMovement == <<"movements", 1>>
MovementRows ==
    [there : {TRUE}, kind : {"ISSUE", "RECEIPT", "OTHER"},
     serial : {NoRef} \cup Table("serials"), store : Stores \cup {Nowhere}]

Is(n, statuses) == There(n) /\ rows[n].status \in statuses

(***************************************************************************)
(* effect: what a movement changes in the buckets of stores, if there is   *)
(* enough.                                                                 *)
(***************************************************************************)
\* Mutant of Effect: what is reserved stays so.
EffectKeepsReserved(store, deltas) ==
    [f \in Fields |->
        rows[Bucket(store)][f]
            + (IF f \in DOMAIN deltas /\ f # "reserved" THEN deltas[f] ELSE 0)]

Effect(store, deltas) ==
    [f \in Fields |->
        rows[Bucket(store)][f] + (IF f \in DOMAIN deltas THEN deltas[f] ELSE 0)]

Enough(b) ==
    /\ \A f \in Fields : b[f] >= 0
    /\ b.onHand >= b.reserved + b.quarantined

\* A movement of one kind, of one serial, between the buckets of some stores.
PostSerial(s, kind, n, store, row, moves, more) ==
    /\ \A at \in DOMAIN moves : Enough(Effect(at, moves[at]))
    /\ StageLocked(s, InventoryLock \cup {n},
          Over(Over(Set(n, row), Set(LastMovement, [kind |-> kind, serial |-> n, store |-> store])),
               Over(more, [b \in {Bucket(at) : at \in DOMAIN moves} |->
                              Effect(b[2], moves[b[2]])])))

In(store, status) == [store |-> store, status |-> status]
Out(status) == In(Nowhere, status)

(***************************************************************************)
(* The movements.                                                          *)
(***************************************************************************)
\* A serial is received once, whatever became of it.
ReceiveSerial(s) ==
    \E n \in Table("serials"), store \in Stores :
        /\ ~There(n)
        /\ PostSerial(s, "RECEIPT", n, store, Over([there |-> TRUE], In(store, "IN_STOCK")),
                      Set(store, [onHand |-> 1]), <<>>)

\* An issue for a request, or of an item that is returnable, is not reversed.
IssueSerial(s) ==
    \E n \in Live("serials"), kind \in {"ISSUE", "OTHER"} :
        LET store == rows[n].store
        IN /\ Is(n, {"IN_STOCK"})
           /\ PostSerial(s, kind, n, store, Out("ISSUED"), Set(store, [onHand |-> -1]), <<>>)

IssueReserved(s) ==
    \E n \in Live("serials") :
        LET store == rows[n].store
        IN /\ Is(n, {"IN_STOCK", "RESERVED"}) /\ There(Reservation(n))
           /\ rows[Reservation(n)].store = store
           /\ PostSerial(s, "OTHER", n, store, Out("ISSUED"),
                         Set(store, [onHand |-> -1, reserved |-> -1]),
                         Set(Reservation(n), Absent))

ReturnSerial(s) ==
    \E n \in Live("serials"), store \in Stores, damaged \in BOOLEAN :
        /\ Is(n, {"ISSUED"})
        /\ PostSerial(s, "OTHER", n, store,
                      In(store, IF damaged THEN "QUARANTINED" ELSE "IN_STOCK"),
                      Set(store, [onHand |-> 1, quarantined |-> IF damaged THEN 1 ELSE 0]), <<>>)

DispatchSerial(s) ==
    \E n \in Live("serials"), to \in Stores :
        LET store == rows[n].store
        IN /\ Is(n, {"IN_STOCK"}) /\ to # store
           /\ PostSerial(s, "OTHER", n, store, Out("IN_TRANSIT"),
                         Set(store, [onHand |-> -1, transit |-> 1]),
                         Set(TransferRow(n), [there |-> TRUE, origin |-> store, to |-> to]))

ReceiveTransfer(s) ==
    \E n \in Live("serials") :
        LET t == rows[TransferRow(n)]
        IN /\ There(TransferRow(n))
           /\ PostSerial(s, "OTHER", n, t.to, In(t.to, "IN_STOCK"),
                         Over(Set(t.origin, [transit |-> -1]), Set(t.to, [onHand |-> 1])),
                         Set(TransferRow(n), Absent))

\* Damage and a write-off take from quarantine first, be it of another serial; a
\* loss does not.
ScrapSerial(s) ==
    \E n \in Live("serials"), lost \in BOOLEAN :
        LET store == rows[n].store
            quarantined == IF lost \/ rows[Bucket(store)].quarantined = 0 THEN 0 ELSE 1
        IN /\ Is(n, {"IN_STOCK", "QUARANTINED"})
           /\ PostSerial(s, "OTHER", n, store, Out("SCRAPPED"),
                         Set(store, [onHand |-> -1, quarantined |-> -quarantined]), <<>>)

Quarantine(s) ==
    \E n \in Live("serials"), release \in BOOLEAN :
        LET store == rows[n].store
        IN /\ Is(n, IF release THEN {"QUARANTINED"} ELSE {"IN_STOCK"})
           /\ PostSerial(s, "OTHER", n, store,
                         In(store, IF release THEN "IN_STOCK" ELSE "QUARANTINED"),
                         Set(store, [quarantined |-> IF release THEN -1 ELSE 1]), <<>>)

\* A count has a line for a serial, and compares what it says with the bucket.
CountSerial(s) ==
    \E n \in Live("serials") :
        LET store == rows[n].store
            onHand == rows[Bucket(store)].onHand
        IN /\ Is(n, {"IN_STOCK", "QUARANTINED"})
           /\ \E counted \in 0..(onHand - 1) :
                 LET deltas == [onHand |-> counted - onHand]
                 IN PostSerial(s, "OTHER", n, store, Out("SCRAPPED"), Set(store, deltas),
                       IF counted = onHand - 1 THEN <<>>
                       ELSE Set(Bucket(store), Over([counted |-> TRUE], Effect(store, deltas))))

Reserve(s) ==
    \E n \in Live("serials") :
        LET store == rows[n].store
        IN /\ Is(n, {"IN_STOCK"}) /\ ~There(Reservation(n))
           /\ PostSerial(s, "OTHER", n, store, In(store, "RESERVED"),
                         Set(store, [reserved |-> 1]),
                         Set(Reservation(n), [there |-> TRUE, store |-> store]))

Release(s) ==
    \E n \in Live("serials") :
        LET store == rows[Reservation(n)].store
        IN /\ There(Reservation(n))
           /\ PostSerial(s, "OTHER", n, store, [status |-> "IN_STOCK"],
                         Set(store, [reserved |-> -1]), Set(Reservation(n), Absent))

\* Of the latest movement, if it is a receipt or an issue that may be.
Reverse(s) ==
    LET last == rows[LastMovement]
    IN \/ /\ last.kind = "RECEIPT"
          /\ PostSerial(s, "OTHER", last.serial, last.store, Out("CANCELLED"),
                        Set(last.store, [onHand |-> -1]), <<>>)
       \/ /\ last.kind = "ISSUE"
          /\ PostSerial(s, "OTHER", last.serial, last.store, In(last.store, "IN_STOCK"),
                        Set(last.store, [onHand |-> 1]), <<>>)

SerialStep(s) ==
    \/ ReceiveSerial(s) \/ IssueSerial(s) \/ IssueReserved(s) \/ ReturnSerial(s)
    \/ DispatchSerial(s) \/ ReceiveTransfer(s) \/ ScrapSerial(s) \/ Quarantine(s)
    \/ CountSerial(s) \/ Reserve(s) \/ Release(s) \/ Reverse(s)

-----------------------------------------------------------------------------

SerialIds ==
    ({"serials", "reservations", "transfers"} \X SerialNumbers)
        \cup ({"buckets"} \X Stores) \cup {LastMovement}

SerialFirst(r) ==
    CASE r[1] = "buckets" ->
            Over([f \in Fields |-> 0], [there |-> TRUE, counted |-> FALSE])
      [] r = LastMovement -> [there |-> TRUE, kind |-> "OTHER", serial |-> NoRef, store |-> Nowhere]
      [] OTHER -> Absent

SerialInit ==
    /\ desk = "serials"
    /\ rows = [r \in SerialIds |-> SerialFirst(r)]
    /\ StoreInit

SerialNext ==
    /\ desk = "serials"
    /\ \E s \in Sessions : SerialStep(s) \/ Commit(s, TRUE) \/ Abort(s)

-----------------------------------------------------------------------------

SerialTypeOK ==
    desk = "serials" =>
        \A r \in DOMAIN rows : There(r) =>
            rows[r] \in (CASE r[1] = "serials" -> SerialRows [] r[1] = "buckets" -> BucketRows
                           [] r[1] = "reservations" -> ReservationRows
                           [] r[1] = "transfers" -> TransferRows
                           [] r = LastMovement -> MovementRows)

\* The stock of a store is the serials that are there, what is reserved and on the
\* way is the serials that are, in whatever order they were received, issued,
\* returned, moved, scrapped and reversed: one serial is never in two stores, and
\* nobody takes the serial somebody else reserved.  Only a count can break it: it
\* may write off more than the serial it is of (tracked, post_line).
SerialsFit ==
    desk = "serials" =>
        \A store \in Stores :
            LET at(statuses) == {n \in Live("serials") :
                                    rows[n].store = store /\ rows[n].status \in statuses}
                b == rows[Bucket(store)]
            IN /\ b.counted \/ b.onHand = Cardinality(at(Held))
               /\ b.reserved = Cardinality(at({"RESERVED"}))
               /\ b.transit = Cardinality({t \in Live("transfers") : rows[t].origin = store})
=============================================================================
