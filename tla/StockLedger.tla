----------------------------- MODULE StockLedger -----------------------------
(***************************************************************************)
(* Documents, reservations, custody, balances and the stock ledger of one   *)
(* organisation, as kept by InventoryService (app/services/inventory.py).   *)
(*                                                                         *)
(* Every operation starts with pg_advisory_xact_lock on the organisation    *)
(* and ends with one commit, and a raised error rolls everything back: an   *)
(* operation is one atomic action whose guard is the conjunction of the     *)
(* checks that raise.  What the lock does NOT cover is created_at: the      *)
(* database stamps a row with the START of its transaction, and the         *)
(* transaction started at the authentication query, before the lock was     *)
(* waited for.  Stamps therefore come from the last MaxOverlap postings.    *)
(*                                                                         *)
(* A bucket is an (item, store) pair: bins and lots only refine the store.  *)
(* Costs are in StockValuation, serial numbers in SerialStock.              *)
(***************************************************************************)
EXTENDS Integers, FiniteSets, Sums

CONSTANTS
    Items, Stores,
    Receipts, Issues, Returns, Transfers, Adjustments, Counts, Requests,
    Reservations,
    ApprovalItems,   \* items with requires_approval_to_issue
    Purposes,        \* the purposes clients choose for adjustments and counts
    Archivable,      \* items and stores a client may archive in this instance
    Toggled,         \* items whose is_returnable a client may change
    MaxQty,          \* bound: largest quantity of one line
    MaxOverlap,      \* bound: postings that may commit while one waits for the lock
    NULL

Docs == Receipts \cup Issues \cup Returns \cup Transfers \cup Adjustments
            \cup Counts \cup Requests

AllPurposes == {"OTHER", "POSITIVE_ADJUSTMENT", "NEGATIVE_ADJUSTMENT", "DAMAGE",
                "LOSS", "WRITE_OFF", "QUARANTINE", "RELEASE_FROM_QUARANTINE"}

ASSUME QtyAssumption == MaxQty \in Nat \ {0} /\ MaxOverlap \in Nat

ASSUME KindsAssumption ==
    /\ Receipts \cap (Issues \cup Returns \cup Transfers \cup Adjustments \cup Counts \cup Requests) = {}
    /\ Issues \cap (Returns \cup Transfers \cup Adjustments \cup Counts \cup Requests) = {}
    /\ Returns \cap (Transfers \cup Adjustments \cup Counts \cup Requests) = {}
    /\ Transfers \cap (Adjustments \cup Counts \cup Requests) = {}
    /\ Adjustments \cap (Counts \cup Requests) = {}
    /\ Counts \cap Requests = {}

ASSUME NullAssumption ==
    /\ NULL \notin Docs \cup Reservations \cup Stores \cup Items
    /\ NULL \notin Int
    /\ Docs \cap Reservations = {}
    /\ Items \cap Stores = {}

\* A database holds finitely many rows.
ASSUME FiniteAssumption ==
    IsFiniteSet(Items) /\ IsFiniteSet(Stores) /\ IsFiniteSet(Docs) /\ IsFiniteSet(Reservations)

ASSUME PurposeAssumption == Purposes \subseteq AllPurposes

VARIABLES
    archived,    \* the items and stores with is_active = FALSE
    returnable,  \* the items with is_returnable
    doc,         \* one row (with its lines) of the seven document tables
    asked,       \* quantity_approved and quantity_issued of the request lines
    counting,    \* system_quantity and counted_quantity of the count lines
    custody,     \* custody rows, by issue and item
    rsv,         \* inventory_reservations
    bal,         \* inventory_balances
    ledger,      \* inventory_transactions with their ledger entries
    clock        \* 1 + the number of committed postings

vars == <<archived, returnable, doc, asked, counting, custody, rsv, bal, ledger, clock>>

-----------------------------------------------------------------------------
(* Rows *)

Qty == 0..MaxQty
Lines == [Items -> Qty]                    \* 0: the document has no such line

Status == {"NONE", "DRAFT", "SUBMITTED", "APPROVED", "REJECTED", "CANCELLED",
           "IN_PROGRESS", "IN_TRANSIT", "RECEIVED", "POSTED",
           "PARTIALLY_ISSUED", "FULFILLED"}

Header == [store: Stores \cup {NULL}, toStore: Stores \cup {NULL},
           purpose: AllPurposes, damaged: BOOLEAN,
           request: Requests \cup {NULL}, reservation: Reservations \cup {NULL},
           original: Issues \cup {NULL}]

Blank == [store |-> NULL, toStore |-> NULL, purpose |-> "OTHER", damaged |-> FALSE,
          request |-> NULL, reservation |-> NULL, original |-> NULL]

NoLines == [i \in Items |-> 0]

\* The four quantities of a balance row, and of a ledger entry (with signs).
Entry(onHand, reserved, quarantined, inTransit) ==
    [onHand |-> onHand, reserved |-> reserved,
     quarantined |-> quarantined, inTransit |-> inTransit]

Zero == Entry(0, 0, 0, 0)

Plus(a, b) == Entry(a.onHand + b.onHand, a.reserved + b.reserved,
                    a.quarantined + b.quarantined, a.inTransit + b.inTransit)

Minus(a) == Entry(-a.onHand, -a.reserved, -a.quarantined, -a.inTransit)

\* Mutant of Sound: the stock on hand itself is not checked.
SoundPromises(b) == b.reserved >= 0 /\ b.quarantined >= 0 /\ b.inTransit >= 0

\* The check of effect(): nothing negative, nothing promised twice.
Sound(b) ==
    /\ b.onHand >= 0 /\ b.reserved >= 0 /\ b.quarantined >= 0 /\ b.inTransit >= 0
    /\ b.onHand - b.reserved - b.quarantined >= 0

\* The entries of one transaction: e in the bucket at s, f in the bucket at t.
At(s, e) == [x \in Stores |-> IF x = s THEN e ELSE Zero]
\* Mutant of At2: the entry at the source is forgotten.
AtDestination(s, e, t, f) == [x \in Stores |-> IF x = t THEN f ELSE Zero]
At2(s, e, t, f) == [x \in Stores |-> IF x = s THEN e ELSE IF x = t THEN f ELSE Zero]

Reversible == {"ISSUE", "OTHER_RECEIPT"}
TxTypes == Reversible \cup (AllPurposes \ {"OTHER"})
             \cup {"RETURN_FROM_EMPLOYEE", "TRANSFER_OUT", "TRANSFER_IN",
                   "STOCK_COUNT_ADJUSTMENT", "RESERVATION", "RESERVATION_RELEASE",
                   "REVERSAL"}

Abs(n) == IF n < 0 THEN -n ELSE n
Least(m, n) == IF m < n THEN m ELSE n

-----------------------------------------------------------------------------
(* Posting *)

\* created_at of a transaction that committed now: the number of postings it
\* had seen committed when it started, at most MaxOverlap behind.
Stamps == {s \in 1..clock : s >= clock - MaxOverlap}

\* Mutant of Effect: the quarantined quantity is not brought up to date.
EffectOnShelf(move) ==
    /\ bal' = [i \in Items |-> [s \in Stores |->
                  [Plus(bal[i][s], move[i][s]) EXCEPT !.quarantined = bal[i][s].quarantined]]]
    /\ \A i \in Items, s \in Stores : Sound(bal'[i][s])

\* effect() for every line of one operation, and its availability check.
Effect(move) ==
    /\ bal' = [i \in Items |-> [s \in Stores |-> Plus(bal[i][s], move[i][s])]]
    /\ \A i \in Items, s \in Stores : Sound(bal'[i][s])

\* transaction() and effect() for every line with a nonzero quantity: source is
\* the document or reservation posted, q its quantities, move its entries.
Post(source, type, q, move) ==
    /\ Effect([i \in Items |-> IF q[i] > 0 THEN move[i] ELSE [s \in Stores |-> Zero]])
    /\ \E at \in Stamps :
          ledger' = ledger \cup
              {[source |-> source, item |-> i, type |-> type, q |-> q[i],
                move |-> move[i], at |-> at, number |-> clock] :
                  i \in {j \in Items : q[j] > 0}}
    /\ clock' = clock + 1

-----------------------------------------------------------------------------
Init ==
    /\ archived = {}
    /\ returnable \in SUBSET Toggled
    /\ doc = [d \in Docs |-> [status |-> "NONE", head |-> Blank, lines |-> NoLines]]
    /\ asked = [r \in Requests |-> [approved |-> NoLines, issued |-> NoLines]]
    /\ counting = [c \in Counts |-> [system |-> NoLines, counted |-> [i \in Items |-> NULL]]]
    /\ custody = [d \in Issues |-> [held |-> NoLines, back |-> NoLines]]
    /\ rsv = [r \in Reservations |->
                [status |-> "NONE", item |-> NULL, store |-> NULL, q |-> 0,
                 done |-> 0, lapsed |-> FALSE]]
    /\ bal = [i \in Items |-> [s \in Stores |-> Zero]]
    /\ ledger = {}
    /\ clock = 1

-----------------------------------------------------------------------------
(* Drafts: document_save *)

\* A field of the body: chosen from S for the kinds that use it.
Field(used, S, default) == IF used THEN S ELSE {default}

\* Rows of S that exist, or no reference.
Known(S) == {x \in S : doc[x].status # "NONE"} \cup {NULL}
KnownReservations == {r \in Reservations : rsv[r].status # "NONE"} \cup {NULL}

\* exclude_none: a reference left out of the body keeps its old value.
Keep(old, new) == IF new = NULL THEN old ELSE new

Active(l, h) ==
    /\ {h.store, h.toStore} \cap archived = {}
    /\ \A i \in Items : l[i] > 0 => i \notin archived

\* Write the draft.  A count line has no quantity of its own.
Save(d, l, h) ==
    /\ doc[d].status \in {"NONE", "DRAFT"}
    /\ d \in Transfers => h.store # h.toStore
    /\ d \in Counts => \A i \in Items : l[i] <= 1
    /\ Active(l, h)
    /\ doc' = [doc EXCEPT ![d] = [status |-> "DRAFT", head |-> h, lines |-> l]]
    /\ UNCHANGED <<archived, returnable, asked, counting, custody, rsv, bal, ledger, clock>>

\* Create or edit.
DocumentSave(d) ==
    \E l \in Lines \ {NoLines},
       s \in Field(d \notin Requests, Stores, NULL),
       t \in Field(d \in Transfers, Stores, NULL),
       p \in Field(d \in Adjustments \cup Counts, Purposes, "OTHER"),
       b \in Field(d \in Returns, BOOLEAN, FALSE),
       a \in Field(d \in Issues, Known(Requests), NULL),
       r \in Field(d \in Issues, KnownReservations, NULL),
       o \in Field(d \in Returns, Known(Issues), NULL) :
          Save(d, l, [store |-> s, toStore |-> t, purpose |-> p, damaged |-> b,
                      request |-> Keep(doc[d].head.request, a),
                      reservation |-> Keep(doc[d].head.reservation, r),
                      original |-> Keep(doc[d].head.original, o)])

\* request_issue: the draft issue of everything approved and not yet issued,
\* unless the request has an open issue already.
RequestIssue(q, d, s) ==
    LET open == {o \in Issues : /\ doc[o].head.request = q
                                /\ doc[o].status \in {"DRAFT", "APPROVED"}}
        rest == [i \in Items |-> asked[q].approved[i] - asked[q].issued[i]]
        h    == [store |-> s, toStore |-> NULL, purpose |-> "OTHER", damaged |-> FALSE,
                 request |-> q, reservation |-> NULL, original |-> NULL]
    IN  /\ doc[q].status \in {"APPROVED", "PARTIALLY_ISSUED"}
        /\ open = {}
        /\ doc[d].status = "NONE"
        /\ \E i \in Items : rest[i] > 0
        /\ Save(d, rest, h)

-----------------------------------------------------------------------------
(* Steps of action() that move no stock *)

SetStatus(d, s) == doc' = [doc EXCEPT ![d].status = s]

\* Mutant of Final: goods in transit may be called off.
FinalButTransit == {"POSTED", "RECEIVED", "PARTIALLY_ISSUED", "FULFILLED"}
Final == {"POSTED", "IN_TRANSIT", "RECEIVED", "PARTIALLY_ISSUED", "FULFILLED"}

\* The actions the router exposes for a kind of document are the sets below.
Cancel(d) ==
    /\ d \in Receipts \cup Issues \cup Transfers \cup Requests \cup Adjustments
    /\ doc[d].status \notin Final \cup {"NONE", "CANCELLED"}
    /\ SetStatus(d, "CANCELLED")
    /\ UNCHANGED <<archived, returnable, asked, counting, custody, rsv, bal, ledger, clock>>

Reject(d) ==
    /\ d \in Requests /\ doc[d].status = "SUBMITTED"
    /\ SetStatus(d, "REJECTED")
    /\ UNCHANGED <<archived, returnable, asked, counting, custody, rsv, bal, ledger, clock>>

SubmitRequest(d) ==
    /\ d \in Requests /\ doc[d].status = "DRAFT"
    /\ SetStatus(d, "SUBMITTED")
    /\ UNCHANGED <<archived, returnable, asked, counting, custody, rsv, bal, ledger, clock>>

ApproveRequest(d) ==
    \E a \in Lines :
        /\ d \in Requests /\ doc[d].status = "SUBMITTED"
        /\ \A i \in Items : a[i] <= doc[d].lines[i]
        /\ asked' = [asked EXCEPT ![d].approved = a]
        /\ SetStatus(d, "APPROVED")
        /\ UNCHANGED <<archived, returnable, counting, custody, rsv, bal, ledger, clock>>

Approve(d) ==
    /\ \/ d \in Issues \cup Transfers \cup Adjustments /\ doc[d].status = "DRAFT"
       \/ d \in Counts /\ doc[d].status = "SUBMITTED"
    /\ SetStatus(d, "APPROVED")
    /\ UNCHANGED <<archived, returnable, asked, counting, custody, rsv, bal, ledger, clock>>

\* start and restart: take the book quantity of every line again; a restart also
\* forgets what was counted.
Snapshot(c) == [i \in Items |-> bal[i][doc[c].head.store].onHand]

Start(c) ==
    /\ c \in Counts /\ doc[c].status = "DRAFT"
    /\ counting' = [counting EXCEPT ![c].system = Snapshot(c)]
    /\ SetStatus(c, "IN_PROGRESS")
    /\ UNCHANGED <<archived, returnable, asked, custody, rsv, bal, ledger, clock>>

\* Mutant of CanRestart: a posted count may be restarted too.
CanRestartPosted(c) == doc[c].status \notin {"NONE", "CANCELLED"}
CanRestart(c) == doc[c].status \notin {"NONE", "POSTED", "CANCELLED"}

Restart(c) ==
    /\ c \in Counts /\ CanRestart(c)
    /\ counting' = [counting EXCEPT ![c] = [system |-> Snapshot(c),
                                            counted |-> [i \in Items |-> NULL]]]
    /\ SetStatus(c, "IN_PROGRESS")
    /\ UNCHANGED <<archived, returnable, asked, custody, rsv, bal, ledger, clock>>

\* A count for every line, sent with the submission or with the draft.
SubmitCount(c) ==
    \E n \in Lines :
        /\ c \in Counts /\ doc[c].status = "IN_PROGRESS"
        /\ counting' = [counting EXCEPT ![c].counted =
                          [i \in Items |-> IF doc[c].lines[i] > 0 THEN n[i] ELSE NULL]]
        /\ SetStatus(c, "SUBMITTED")
        /\ UNCHANGED <<archived, returnable, asked, custody, rsv, bal, ledger, clock>>

-----------------------------------------------------------------------------
(* Steps of action() that post: every line posts or none does *)

Posting(d) == {i \in Items : doc[d].lines[i] > 0}

\* Mutant of Ready: a posted document posts again when the request is repeated.
ReadyAgain(d) ==
    doc[d].status \in IF d \in Adjustments THEN {"APPROVED", "POSTED"}
                      ELSE IF d \in Counts \cup Transfers THEN {"APPROVED"}
                      ELSE {"DRAFT", "APPROVED", "POSTED"}

\* post and dispatch: what needs approval has it, nothing has been posted.
Ready(d) ==
    doc[d].status \in IF d \in Adjustments \cup Counts \cup Transfers THEN {"APPROVED"}
                      ELSE {"DRAFT", "APPROVED"}

\* The quantity of the transactions T.
Quantity(T) == Sum([t \in T |-> t.q], T)

\* The sum of a type of transaction of one source and item.
Total(d, i, type) ==
    Quantity({t \in ledger : t.source = d /\ t.item = i /\ t.type = type})

PostReceipt(d) ==
    LET h == doc[d].head
        q == doc[d].lines
    IN  /\ d \in Receipts /\ Ready(d)
        /\ Active(q, h)
        /\ Post(d, "OTHER_RECEIPT", q, [i \in Items |-> At(h.store, Entry(q[i], 0, 0, 0))])
        /\ SetStatus(d, "POSTED")
        /\ UNCHANGED <<archived, returnable, asked, counting, custody, rsv>>

\* A reservation named by an issue must cover every line of it.
Covers(r, d) ==
    \A i \in Posting(d) :
        /\ rsv[r].status = "ACTIVE" /\ ~rsv[r].lapsed
        /\ rsv[r].item = i /\ rsv[r].store = doc[d].head.store
        /\ rsv[r].q - rsv[r].done >= doc[d].lines[i]

\* Mutant of Fulfil: what was issued is not taken off the promise.
FulfilAtEnd(r, n) ==
    [rsv EXCEPT ![r].status = IF n = rsv[r].q THEN "FULFILLED" ELSE @,
                ![r].done = IF n = rsv[r].q THEN n ELSE @]
Fulfil(r, n) ==
    [rsv EXCEPT ![r].done = @ + n,
                ![r].status = IF rsv[r].done + n = rsv[r].q THEN "FULFILLED" ELSE @]

\* Mutant of WithinApproval: each issue is compared with the approval alone.
WithinApprovalEach(a, q) == \A i \in Items : q[i] <= asked[a].approved[i]

\* All the issues of a request together stay within what was approved.
WithinApproval(a, q) ==
    \A i \in Items : q[i] > 0 => asked[a].issued[i] + q[i] <= asked[a].approved[i]

Served(a, issued) ==
    IF \E i \in Items : issued[i] < asked[a].approved[i] THEN "PARTIALLY_ISSUED" ELSE "FULFILLED"

PostIssue(d) ==
    LET h == doc[d].head
        q == doc[d].lines
        r == h.reservation
        a == h.request
        issued == [i \in Items |-> asked[a].issued[i] + q[i]]
    IN  /\ d \in Issues /\ Ready(d)
        /\ Active(q, h)
        /\ Posting(d) \cap ApprovalItems # {} => doc[d].status = "APPROVED"
        /\ IF r = NULL THEN UNCHANGED rsv
           ELSE /\ Covers(r, d)
                /\ \E i \in Posting(d) : rsv' = Fulfil(r, q[i])
        /\ IF a = NULL THEN SetStatus(d, "POSTED") /\ UNCHANGED asked
           ELSE /\ doc[a].status \in {"APPROVED", "PARTIALLY_ISSUED"}
                /\ WithinApproval(a, q)
                /\ asked' = [asked EXCEPT ![a].issued = issued]
                /\ doc' = [doc EXCEPT ![d].status = "POSTED", ![a].status = Served(a, issued)]
        /\ Post(d, "ISSUE", q,
                [i \in Items |-> At(h.store, Entry(-q[i], IF r = NULL THEN 0 ELSE -q[i], 0, 0))])
        /\ custody' = [custody EXCEPT ![d].held =
                          [i \in Items |-> IF i \in returnable THEN q[i] ELSE 0]]
        /\ UNCHANGED <<archived, returnable, counting>>

\* What the returns of issue o brought back.
ReturnsOf(o) == {e \in Returns : doc[e].head.original = o}
Prior(o, i) == Sum([e \in ReturnsOf(o) |-> Total(e, i, "RETURN_FROM_EMPLOYEE")], ReturnsOf(o))

\* Mutant of WithinIssue: earlier returns of the issue are not counted.
WithinIssueEach(o, q) == \A i \in Items : q[i] > 0 => q[i] <= Total(o, i, "ISSUE")

\* What was issued and what came back are read from the ledger.
WithinIssue(o, q) == \A i \in Items : q[i] > 0 => q[i] + Prior(o, i) <= Total(o, i, "ISSUE")

PostReturn(d) ==
    LET h == doc[d].head
        q == doc[d].lines
        o == h.original
    IN  /\ d \in Returns /\ Ready(d)
        /\ Active(q, h)
        /\ o # NULL /\ doc[o].status = "POSTED"
        /\ WithinIssue(o, q)
        /\ Post(d, "RETURN_FROM_EMPLOYEE", q,
                [i \in Items |-> At(h.store, Entry(q[i], 0, IF h.damaged THEN q[i] ELSE 0, 0))])
        /\ custody' = [custody EXCEPT ![o].back =
                          [i \in Items |-> IF custody[o].held[i] > 0 THEN @[i] + q[i] ELSE @[i]]]
        /\ SetStatus(d, "POSTED")
        /\ UNCHANGED <<archived, returnable, asked, counting, rsv>>

\* Mutant of Leaving: the goods leave the shelf and are not in transit.
LeavingShelf(n) == Entry(-n, 0, 0, 0)
Leaving(n) == Entry(-n, 0, 0, n)

Dispatch(d) ==
    LET h == doc[d].head
        q == doc[d].lines
    IN  /\ d \in Transfers /\ Ready(d)
        /\ Active(q, h)
        /\ Post(d, "TRANSFER_OUT", q,
                [i \in Items |-> At(h.store, Leaving(q[i]))])
        /\ SetStatus(d, "IN_TRANSIT")
        /\ UNCHANGED <<archived, returnable, asked, counting, custody, rsv>>

Receive(d) ==
    LET h == doc[d].head
        q == doc[d].lines
    IN  /\ d \in Transfers /\ doc[d].status = "IN_TRANSIT"
        /\ Active(q, h)
        /\ \A i \in Posting(d) :
              \E t \in ledger : t.source = d /\ t.item = i /\ t.type = "TRANSFER_OUT"
        /\ Post(d, "TRANSFER_IN", q,
                [i \in Items |-> At2(h.store, Entry(0, 0, 0, -q[i]),
                                     h.toStore, Entry(q[i], 0, 0, 0))])
        /\ SetStatus(d, "RECEIVED")
        /\ UNCHANGED <<archived, returnable, asked, counting, custody, rsv>>

\* The entries of an adjustment or count by delta: a quarantine purpose moves
\* the quarantined quantity only, whatever the sign of delta.
Adjusting(purpose, delta, b) ==
    CASE purpose = "QUARANTINE" -> Entry(0, 0, Abs(delta), 0)
      [] purpose = "RELEASE_FROM_QUARANTINE" -> Entry(0, 0, -Abs(delta), 0)
      [] purpose \in {"WRITE_OFF", "DAMAGE"} ->
            Entry(delta, 0, -Least(Abs(delta), b.quarantined), 0)
      [] OTHER -> Entry(delta, 0, 0, 0)

PostAdjustment(d) ==
    LET h == doc[d].head
        q == doc[d].lines
        delta(i) == IF h.purpose = "POSITIVE_ADJUSTMENT" THEN q[i] ELSE -q[i]
    IN  /\ d \in Adjustments /\ Ready(d)
        /\ h.purpose # "OTHER"
        /\ Active(q, h)
        /\ Post(d, h.purpose, q,
                [i \in Items |-> At(h.store, Adjusting(h.purpose, delta(i), bal[i][h.store]))])
        /\ SetStatus(d, "POSTED")
        /\ UNCHANGED <<archived, returnable, asked, counting, custody, rsv>>

\* Mutant of Unmoved: the book is not compared again.
UnmovedTrusted(c) == TRUE
Unmoved(c) == \A i \in Posting(c) :
                 counting[c].system[i] = bal[i][doc[c].head.store].onHand

\* The book must not have moved since the count started; a line counted as
\* booked posts nothing.
PostCount(d) ==
    LET h == doc[d].head
        delta == [i \in Items |-> IF i \in Posting(d)
                                  THEN counting[d].counted[i] - counting[d].system[i] ELSE 0]
    IN  /\ d \in Counts /\ Ready(d)
        /\ Active(doc[d].lines, h)
        /\ Unmoved(d)
        /\ \A i \in Posting(d) : counting[d].counted[i] # NULL
        /\ Post(d, "STOCK_COUNT_ADJUSTMENT", [i \in Items |-> Abs(delta[i])],
                [i \in Items |-> At(h.store, Adjusting(h.purpose, delta[i], bal[i][h.store]))])
        /\ SetStatus(d, "POSTED")
        /\ UNCHANGED <<archived, returnable, asked, counting, custody, rsv>>

-----------------------------------------------------------------------------
(* Reservations, reversals and masters *)

Only(i, n) == [j \in Items |-> IF j = i THEN n ELSE 0]

Reserve(r) ==
    \E i \in Items \ archived, s \in Stores \ archived, n \in Qty \ {0} :
        /\ rsv[r].status = "NONE"
        /\ rsv' = [rsv EXCEPT ![r] = [status |-> "ACTIVE", item |-> i, store |-> s,
                                      q |-> n, done |-> 0, lapsed |-> FALSE]]
        /\ Post(r, "RESERVATION", Only(i, n), [j \in Items |-> At(s, Entry(0, n, 0, 0))])
        /\ UNCHANGED <<archived, returnable, doc, asked, counting, custody>>

\* expires_at passes; nothing watches it, only post_line and release read it.
Lapse(r) ==
    /\ rsv[r].status = "ACTIVE" /\ ~rsv[r].lapsed
    /\ rsv' = [rsv EXCEPT ![r].lapsed = TRUE]
    /\ UNCHANGED <<archived, returnable, doc, asked, counting, custody, bal, ledger, clock>>

\* release, and cancel (the same with another final status).
Release(r) ==
    LET left == rsv[r].q - rsv[r].done
    IN  \E cancel \in BOOLEAN :
        /\ rsv[r].status = "ACTIVE"
        /\ rsv' = [rsv EXCEPT ![r].status = IF cancel THEN "CANCELLED"
                                            ELSE IF rsv[r].lapsed THEN "EXPIRED" ELSE "RELEASED"]
        /\ Post(r, "RESERVATION_RELEASE", Only(rsv[r].item, left),
                [j \in Items |-> At(rsv[r].store, Entry(0, -left, 0, 0))])
        /\ UNCHANGED <<archived, returnable, doc, asked, counting, custody>>

Reversed(t) == \E u \in ledger : /\ u.type = "REVERSAL"
                                 /\ u.source = t.source /\ u.item = t.item

\* Mutant of LaterMovement: only issues count as movements.
LaterIssue(t) == \E u \in ledger : u.item = t.item /\ u.type = "ISSUE" /\ u.at > t.at

\* The check of reverse(): it compares created_at, not the order of posting.
LaterMovement(t) == \E u \in ledger : u.item = t.item /\ u.at > t.at

Reverse(t) ==
    /\ t.type \in Reversible
    /\ ~Reversed(t)
    /\ ~LaterMovement(t)
    /\ t.type = "ISSUE" => /\ doc[t.source].head.reservation = NULL
                           /\ doc[t.source].head.request = NULL
                           /\ t.item \notin returnable
    /\ Post(t.source, "REVERSAL", Only(t.item, t.q),
            [i \in Items |-> [s \in Stores |-> Minus(t.move[s])]])
    /\ UNCHANGED <<archived, returnable, doc, asked, counting, custody, rsv>>

\* archive(): only items are checked, and only for stock on hand or in transit.
Archive(x) ==
    /\ x \in Archivable \ archived
    /\ x \in Items => \A s \in Stores : bal[x][s].onHand + bal[x][s].inTransit = 0
    /\ archived' = archived \cup {x}
    /\ UNCHANGED <<returnable, doc, asked, counting, custody, rsv, bal, ledger, clock>>

Restore(x) ==
    /\ x \in archived
    /\ archived' = archived \ {x}
    /\ UNCHANGED <<returnable, doc, asked, counting, custody, rsv, bal, ledger, clock>>

\* master_save freezes unit, tracking and currency of a stocked item, not this.
ToggleReturnable(i) ==
    /\ i \in Toggled
    /\ returnable' = IF i \in returnable THEN returnable \ {i} ELSE returnable \cup {i}
    /\ UNCHANGED <<archived, doc, asked, counting, custody, rsv, bal, ledger, clock>>

-----------------------------------------------------------------------------
Move(d) ==
    \/ PostReceipt(d) \/ PostIssue(d) \/ PostReturn(d) \/ Dispatch(d) \/ Receive(d)
    \/ PostAdjustment(d) \/ PostCount(d)

Handle(d) ==
    \/ DocumentSave(d) \/ Cancel(d) \/ Reject(d) \/ SubmitRequest(d) \/ ApproveRequest(d)
    \/ Approve(d) \/ Start(d) \/ Restart(d) \/ SubmitCount(d)

Next ==
    \/ \E d \in Docs : Handle(d) \/ Move(d)
    \/ \E q \in Requests, d \in Issues, s \in Stores : RequestIssue(q, d, s)
    \/ \E r \in Reservations : Reserve(r) \/ Lapse(r) \/ Release(r)
    \/ \E t \in ledger : Reverse(t)
    \/ \E x \in Archivable : Archive(x) \/ Restore(x)
    \/ \E i \in Items : ToggleReturnable(i)

\* No fairness: every step is a request some client may never send.
Spec == Init /\ [][Next]_vars

-----------------------------------------------------------------------------
(* Type *)

DocType == doc \in [Docs -> [status: Status, head: Header, lines: Lines]]
AskedType == asked \in [Requests -> [approved: Lines, issued: Lines]]
CountingType ==
    counting \in [Counts -> [system: [Items -> Nat], counted: [Items -> Qty \cup {NULL}]]]
CustodyType == custody \in [Issues -> [held: Lines, back: [Items -> Nat]]]
RsvType ==
    rsv \in [Reservations ->
               [status: {"NONE", "ACTIVE", "FULFILLED", "RELEASED", "EXPIRED", "CANCELLED"},
                item: Items \cup {NULL}, store: Stores \cup {NULL},
                q: Qty, done: Qty, lapsed: BOOLEAN]]

\* A balance row, and the signed row of an entry.
Counted == [onHand: Nat, reserved: Nat, quarantined: Nat, inTransit: Nat]
Signed == [onHand: Int, reserved: Int, quarantined: Int, inTransit: Int]

BalType == bal \in [Items -> [Stores -> Counted]] /\ clock \in Nat \ {0}
LedgerType ==
    \A t \in ledger :
        /\ t.source \in Docs \cup Reservations /\ t.item \in Items /\ t.type \in TxTypes
        /\ t.q \in Nat /\ t.at \in Nat /\ t.number \in Nat
        /\ t.move \in [Stores -> Signed]

\* Every variable keeps the shape of its table: no quantity or count of a row
\* goes negative or past the quantity that bounds it.
TypeOK ==
    /\ archived \subseteq Archivable /\ returnable \subseteq Toggled
    /\ DocType /\ AskedType /\ CountingType /\ CustodyType /\ RsvType
    /\ BalType /\ LedgerType

(* Safety *)

\* What the entries of the transactions T add up to at store s.
Booked(T, s) ==
    Entry(Sum([t \in T |-> t.move[s].onHand], T), Sum([t \in T |-> t.move[s].reserved], T),
          Sum([t \in T |-> t.move[s].quarantined], T), Sum([t \in T |-> t.move[s].inTransit], T))

\* What reconciliation() compares: every balance is the sum of its ledger
\* entries (app/services/inventory_queries.py), so no operation changes one
\* without the other, whatever the order of postings and reversals.
Reconciled ==
    \A i \in Items, s \in Stores : bal[i][s] = Booked({t \in ledger : t.item = i}, s)

\* The reserved quantity of a bucket is what its active reservations still
\* promise: fulfilling, releasing and expiring never leak a promise.
ReservedIsPromised ==
    \A i \in Items, s \in Stores :
        LET here == {r \in Reservations : /\ rsv[r].status = "ACTIVE"
                                          /\ rsv[r].item = i /\ rsv[r].store = s}
        IN  bal[i][s].reserved = Sum([r \in here |-> rsv[r].q - rsv[r].done], here)

\* The quantity in transit from a store is what its dispatched and not yet
\* received transfers carry.
TransitIsUnderway ==
    \A i \in Items, s \in Stores :
        LET underway == {d \in Transfers : doc[d].status = "IN_TRANSIT" /\ doc[d].head.store = s}
        IN  bal[i][s].inTransit = Sum([d \in underway |-> doc[d].lines[i]], underway)

\* However many issues name one request, and in whatever order they post, the
\* request line counts exactly what they moved, never more than was approved,
\* and the request is FULFILLED when nothing is left to issue and only then.
RequestsBalance ==
    \A a \in Requests :
        LET mine == {d \in Issues : doc[d].head.request = a}
        IN  /\ \A i \in Items :
                 /\ asked[a].issued[i] = Sum([d \in mine |-> Total(d, i, "ISSUE")], mine)
                 /\ asked[a].issued[i] <= asked[a].approved[i]
            /\ doc[a].status = "FULFILLED" => asked[a].issued = asked[a].approved
            /\ doc[a].status = "PARTIALLY_ISSUED" =>
                  asked[a].issued \notin {asked[a].approved, NoLines}

\* A reservation counts exactly what the issues that name it took, never more
\* than was reserved, and is FULFILLED when it is used up and only then.
ReservationsBalance ==
    \A r \in Reservations : rsv[r].status # "NONE" =>
        /\ LET mine == {d \in Issues : doc[d].head.reservation = r}
           IN  rsv[r].done = Sum([d \in mine |-> Total(d, rsv[r].item, "ISSUE")], mine)
        /\ rsv[r].done <= rsv[r].q
        /\ rsv[r].status = "FULFILLED" <=> rsv[r].done = rsv[r].q

\* Custody follows the returns: a custody row has back exactly what the returns
\* of its issue brought, never more than was handed out.
CustodyBalances ==
    \A d \in Issues, i \in Items : custody[d].held[i] > 0 =>
        /\ custody[d].back[i] = Prior(d, i)
        /\ custody[d].back[i] <= custody[d].held[i]

\* The unique posting_key is never relied on: no line posts a type twice, and
\* no movement is reversed twice.
PostsOnce ==
    \A t, u \in ledger :
        (t.source = u.source /\ t.item = u.item /\ t.type = u.type) => t = u

\* On hand and in transit, at all the stores together.
Everywhere(rows) == Sum([s \in Stores |-> rows[s].onHand + rows[s].inTransit], Stores)

\* The transactions of item i of these types, and its reversals of these documents.
OfType(i, types) == {t \in ledger : t.item = i /\ t.type \in types}
Undoing(i, docs) == {t \in ledger : t.item = i /\ t.type = "REVERSAL" /\ t.source \in docs}

\* Stock is moved, never made: what an item has on hand and in transit is what
\* came in less what went out, by the quantities of the transactions, but for
\* what stock counts corrected.
Conserved ==
    \A i \in Items :
        LET counted == OfType(i, {"STOCK_COUNT_ADJUSTMENT"})
        IN  Everywhere(bal[i]) =
               Quantity(OfType(i, {"OTHER_RECEIPT", "RETURN_FROM_EMPLOYEE", "POSITIVE_ADJUSTMENT"}))
                 - Quantity(OfType(i, {"ISSUE", "NEGATIVE_ADJUSTMENT", "LOSS", "DAMAGE", "WRITE_OFF"}))
                 - Quantity(Undoing(i, Receipts)) + Quantity(Undoing(i, Issues))
                 + Sum([t \in counted |-> Everywhere(t.move)], counted)

\* What is under way can be finished: once dispatched, a transfer between
\* active stores can be received, and an active reservation can be released.
\* No other operation can take the quantities these need.
CanSettle ==
    /\ \A d \in Transfers :
          doc[d].status = "IN_TRANSIT" /\ Active(doc[d].lines, doc[d].head) => ENABLED Receive(d)
    /\ \A r \in Reservations : rsv[r].status = "ACTIVE" => ENABLED Release(r)

(* Actions *)

\* The documents and their workflows implement the plain book: only postings
\* change a balance, none is changed, removed or entered twice, none oversells.
Book == INSTANCE LedgerBook WITH balance <- bal, book <- ledger
KeepsTheBook == Book!Spec

\* A document that moved stock, or was called off, is never edited or reopened;
\* only a draft changes its lines; goods in transit can only arrive.
PostedIsFinal ==
    [][\A d \in Docs :
          /\ doc[d].status \in {"POSTED", "RECEIVED", "CANCELLED", "FULFILLED"} =>
                doc'[d] = doc[d]
          /\ doc[d].status \notin {"NONE", "DRAFT"} =>
                doc'[d].lines = doc[d].lines /\ doc'[d].head = doc[d].head
          /\ doc[d].status = "IN_TRANSIT" => doc'[d].status \in {"IN_TRANSIT", "RECEIVED"}]_vars

\* A posted stock count leaves on hand what was counted.
CountsHold ==
    [][\A c \in Counts : doc[c].status # "POSTED" /\ doc'[c].status = "POSTED" =>
          \A i \in Posting(c) :
              bal'[i][doc[c].head.store].onHand = counting[c].counted[i]]_vars

\* A reversal undoes the last movement of its item.
ReversesLast ==
    \A t, r \in ledger :
        r.type = "REVERSAL" /\ t.source = r.source /\ t.item = r.item /\ t.number < r.number =>
            \A u \in ledger : u.item = t.item => u.number \notin (t.number + 1)..(r.number - 1)

\* The balances and custodies are what the ledger says, and reversals take back
\* the last movement only: Reconciled, CustodyBalances and ReversesLast.
BookBalances == Reconciled /\ CustodyBalances /\ ReversesLast

\* Whatever issues, reservations and requests name one another, the counters kept
\* beside them agree; and goods between two stores are neither lost nor doubled:
\* RequestsBalance, ReservationsBalance, ReservedIsPromised, TransitIsUnderway and
\* Conserved.
MovesBalance ==
    /\ RequestsBalance /\ ReservationsBalance /\ ReservedIsPromised
    /\ TransitIsUnderway /\ Conserved

\* Nothing issued comes back twice, by return or by reversal.
ComesBackOnce ==
    \A d \in Issues, i \in Items :
        Total(d, i, "REVERSAL") + Prior(d, i) <= Total(d, i, "ISSUE")
=============================================================================
