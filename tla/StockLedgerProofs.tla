-------------------------- MODULE StockLedgerProofs --------------------------
(***************************************************************************)
(* Proofs about StockLedger for every set of items, stores and documents:   *)
(* what is posted is posted once and stays, and the counters kept beside    *)
(* the ledger agree with it.                                                *)
(***************************************************************************)
EXTENDS StockLedger, SumTheorems

(***************************************************************************)
(* The inductive invariant: the types, the references the posting steps     *)
(* rely on, request lines within their approval, and for every transaction  *)
(* in the ledger the state its source was left in by the posting.           *)
(***************************************************************************)
StoresGiven ==
    \A d \in Docs \ Requests : doc[d].status # "NONE" => doc[d].head.store \in Stores

WithinApproved ==
    \A a \in Requests :
        /\ \A i \in Items : asked[a].issued[i] <= asked[a].approved[i]
        /\ doc[a].status \in {"NONE", "DRAFT", "SUBMITTED"} =>
              \A i \in Items : asked[a].issued[i] = 0

CountStatus ==
    \A c \in Counts :
        doc[c].status \in {"NONE", "DRAFT", "IN_PROGRESS", "SUBMITTED", "APPROVED", "POSTED"}

WithinReserved == \A r \in Reservations : rsv[r].done <= rsv[r].q

\* The state that the source of t was left in.
Left(t) ==
    CASE t.type = "RESERVATION" ->
            t.source \in Reservations /\ rsv[t.source].status # "NONE"
      [] t.type = "RESERVATION_RELEASE" ->
            t.source \in Reservations /\ rsv[t.source].status \notin {"NONE", "ACTIVE", "FULFILLED"}
      [] t.type = "TRANSFER_OUT" ->
            t.source \in Transfers /\ doc[t.source].status \in {"IN_TRANSIT", "RECEIVED"}
      [] t.type = "TRANSFER_IN" ->
            t.source \in Transfers /\ doc[t.source].status = "RECEIVED"
      [] t.type = "REVERSAL" -> t.source \in Docs
      [] OTHER -> t.source \in Docs /\ doc[t.source].status = "POSTED"

SourcesLeft == \A t \in ledger : Left(t)

IInv ==
    /\ TypeOK /\ StoresGiven /\ CountStatus /\ WithinApproved /\ WithinReserved
    /\ SourcesLeft /\ PostsOnce

-----------------------------------------------------------------------------
(* Entries *)

\* The change an adjustment makes is a signed quantity.
LEMMA AdjustingType ==
    ASSUME NEW purpose, NEW delta \in Int, NEW b \in Counted
    PROVE  Adjusting(purpose, delta, b) \in Signed
  BY DEF Adjusting, Entry, Signed, Counted, Abs, Least

\* No change is a change.
LEMMA ZeroType == Zero \in Signed
  BY DEF Zero, Entry, Signed

\* A change of one balance is a change.
LEMMA AtType ==
    ASSUME NEW s, NEW e \in Signed
    PROVE  At(s, e) \in [Stores -> Signed]
  BY ZeroType DEF At

\* A change of two balances is a change.
LEMMA At2Type ==
    ASSUME NEW s, NEW t, NEW e \in Signed, NEW f \in Signed
    PROVE  At2(s, e, t, f) \in [Stores -> Signed]
  BY ZeroType DEF At2

\* A signed entry added to a row that then passes the check gives a row.
LEMMA PlusCounted ==
    ASSUME NEW b \in Counted, NEW e \in Signed, Sound(Plus(b, e))
    PROVE  Plus(b, e) \in Counted
  BY DEF Counted, Signed, Sound, Plus, Entry

\* No change leaves the balances as they are.
LEMMA PlusZero ==
    ASSUME NEW b \in Counted
    PROVE  Plus(b, Zero) = b
  BY DEF Counted, Plus, Zero, Entry

-----------------------------------------------------------------------------
(* One posting *)

\* What a posting under fresh keys does to balances and ledger, whatever the
\* operation: types are kept, keys stay unique and the book accepts it.
LEMMA PostKeeps ==
    ASSUME TypeOK, PostsOnce,
           NEW source \in Docs \cup Reservations, NEW type \in TxTypes,
           NEW q \in [Items -> Nat], NEW move \in [Items -> [Stores -> Signed]],
           Post(source, type, q, move),
           \A t \in ledger : t.source = source /\ t.type = type => q[t.item] = 0
    PROVE  /\ bal' \in [Items -> [Stores -> Counted]]
           /\ clock' \in Nat \ {0}
           /\ \A t \in ledger' \ ledger :
                 /\ t.source = source /\ t.type = type /\ t.item \in Items
                 /\ t.q \in Nat /\ t.at \in Nat /\ t.number \in Nat
                 /\ t.move \in [Stores -> Signed]
           /\ ledger \subseteq ledger'
           /\ PostsOnce'
           /\ Book!Next
  <1> DEFINE actual == [i \in Items |-> IF q[i] > 0 THEN move[i] ELSE [s \in Stores |-> Zero]]
  <1>1. PICK at \in Stamps :
           ledger' = ledger \cup
              {[source |-> source, item |-> i, type |-> type, q |-> q[i],
                move |-> move[i], at |-> at, number |-> clock] : i \in {j \in Items : q[j] > 0}}
    BY DEF Post
  <1>2. at \in Nat /\ clock \in Nat \ {0} /\ clock' \in Nat \ {0}
    BY DEF Post, Stamps, TypeOK, BalType
  <1>3. actual \in [Items -> [Stores -> Signed]]
    BY ZeroType
  <1>4. /\ bal \in [Items -> [Stores -> Counted]]
        /\ bal' = [i \in Items |-> [s \in Stores |-> Plus(bal[i][s], actual[i][s])]]
        /\ \A i \in Items, s \in Stores : Sound(bal'[i][s])
    BY DEF Post, Effect, TypeOK, BalType
  <1>5. bal' \in [Items -> [Stores -> Counted]]
    BY <1>3, <1>4, PlusCounted
  <1>6. \A t \in ledger' \ ledger :
           /\ t.item \in Items /\ q[t.item] > 0
           /\ t = [source |-> source, item |-> t.item, type |-> type, q |-> q[t.item],
                   move |-> move[t.item], at |-> at, number |-> clock]
    BY <1>1
  <1>7. PostsOnce'
    BY <1>6 DEF PostsOnce
  <1>8. Book!Next
    <2> DEFINE new == ledger' \ ledger
    <2>1. \A t \in new : t.item \in Items /\ \A u \in ledger : ~Book!SameKey(t, u)
      BY <1>6 DEF Book!SameKey
    <2>2. \A t, u \in new : t.item = u.item => t = u
      BY <1>6
    <2>3. ledger' = ledger \cup new
      BY <1>1
    <2>4. ASSUME NEW i \in Items, NEW s \in Stores
          PROVE  /\ \A t \in new : t.item = i =>
                       \A f \in Book!Fields : bal'[i][s][f] = bal[i][s][f] + t.move[s][f]
                 /\ (\A t \in new : t.item # i) => bal'[i][s] = bal[i][s]
                 /\ Book!Promised(bal'[i][s])
      <3>1. bal'[i][s] = Plus(bal[i][s], actual[i][s]) /\ bal[i][s] \in Counted
            /\ actual[i][s] \in Signed /\ Sound(bal'[i][s]) /\ bal'[i][s] \in Counted
        BY <1>3, <1>4, <1>5
      <3>2. Book!Promised(bal'[i][s])
        BY <3>1 DEF Book!Promised, Book!Fields, Sound, Counted
      <3>3. ASSUME NEW t \in new, t.item = i, NEW f \in Book!Fields
            PROVE  bal'[i][s][f] = bal[i][s][f] + t.move[s][f]
        BY <1>6, <3>3, <3>1 DEF Book!Fields, Plus, Entry, Counted, Signed
      <3>4. ASSUME \A t \in new : t.item # i
            PROVE  bal'[i][s] = bal[i][s]
        <4>1. CASE q[i] > 0
          <5> DEFINE t == [source |-> source, item |-> i, type |-> type, q |-> q[i],
                           move |-> move[i], at |-> at, number |-> clock]
          <5>1. t \in ledger' /\ t.item = i /\ t.source = source /\ t.type = type
            BY <1>1, <4>1
          <5>2. t \notin ledger
            BY <5>1, <4>1
          <5> QED BY <5>1, <5>2, <3>4
        <4>2. CASE ~(q[i] > 0)
          BY <4>2, <3>1, PlusZero
        <4> QED BY <4>1, <4>2
      <3> QED BY <3>2, <3>3, <3>4
    <2> QED BY <2>1, <2>2, <2>3, <2>4 DEF Book!Next, Book!Enter
  <1> QED
    BY <1>1, <1>2, <1>5, <1>6, <1>7, <1>8

-----------------------------------------------------------------------------
(* Steps that move no stock *)

\* What PostedIsFinal says of one step.
FinalStep ==
    \A d \in Docs :
       /\ doc[d].status \in {"POSTED", "RECEIVED", "CANCELLED", "FULFILLED"} => doc'[d] = doc[d]
       /\ doc[d].status \notin {"NONE", "DRAFT"} =>
             doc'[d].lines = doc[d].lines /\ doc'[d].head = doc[d].head
       /\ doc[d].status = "IN_TRANSIT" => doc'[d].status \in {"IN_TRANSIT", "RECEIVED"}

\* A step that gives d a status and leaves ledger and reservations alone.
LEMMA StatusKeeps ==
    ASSUME IInv, NEW d \in Docs, NEW s \in Status \ {"NONE", "DRAFT"},
           doc' = [doc EXCEPT ![d].status = s],
           doc[d].status \notin {"NONE", "POSTED", "RECEIVED", "CANCELLED", "FULFILLED", "IN_TRANSIT"},
           d \in Counts => s \in {"IN_PROGRESS", "SUBMITTED", "APPROVED", "POSTED"},
           UNCHANGED <<archived, returnable, custody, rsv, bal, ledger, clock>>,
           AskedType', CountingType', WithinApproved'
    PROVE  IInv' /\ FinalStep
  <1>1. /\ DocType /\ DocType'
        /\ doc'[d].status = s /\ doc'[d].head = doc[d].head /\ doc'[d].lines = doc[d].lines
        /\ \A e \in Docs : e # d => doc'[e] = doc[e]
    BY DEF IInv, TypeOK, DocType
  <1>2. CustodyType' /\ RsvType' /\ BalType' /\ LedgerType'
    BY DEF IInv, TypeOK, CustodyType, RsvType, BalType, LedgerType
  <1>3. TypeOK'
    BY <1>1, <1>2 DEF IInv, TypeOK
  <1>4. StoresGiven' /\ CountStatus' /\ WithinReserved'
    BY <1>1 DEF IInv, StoresGiven, CountStatus, WithinReserved, Docs
  <1>5. SourcesLeft' /\ PostsOnce'
    BY <1>1 DEF IInv, SourcesLeft, Left, PostsOnce, Docs
  <1>6. FinalStep
    BY <1>1 DEF FinalStep
  <1> QED BY <1>3, <1>4, <1>5, <1>6 DEF IInv

\* Writing a draft, by the client or by create-issue.
LEMMA SaveKeeps ==
    ASSUME IInv, NEW d \in Docs, NEW l \in Lines, NEW h \in Header,
           d \notin Requests => h.store \in Stores, Save(d, l, h)
    PROVE  IInv' /\ FinalStep
  <1>1. /\ DocType /\ DocType'
        /\ doc[d].status \in {"NONE", "DRAFT"}
        /\ doc'[d] = [status |-> "DRAFT", head |-> h, lines |-> l]
        /\ \A e \in Docs : e # d => doc'[e] = doc[e]
        /\ UNCHANGED <<archived, returnable, asked, counting, custody, rsv, bal, ledger, clock>>
    BY DEF IInv, TypeOK, DocType, Save, Status
  <1>2. TypeOK'
    BY <1>1 DEF IInv, TypeOK, AskedType, CountingType, CustodyType, RsvType, BalType, LedgerType
  <1>3. StoresGiven' /\ CountStatus'
    BY <1>1 DEF IInv, StoresGiven, CountStatus, Docs
  <1>4. WithinApproved' /\ WithinReserved'
    BY <1>1 DEF IInv, WithinApproved, WithinReserved, Docs
  <1>5. SourcesLeft' /\ PostsOnce'
    BY <1>1 DEF IInv, SourcesLeft, Left, PostsOnce, Docs
  <1>6. FinalStep
    BY <1>1 DEF FinalStep
  <1> QED BY <1>2, <1>3, <1>4, <1>5, <1>6 DEF IInv

\* The steps of Handle keep the invariant.
LEMMA HandleKeeps ==
    ASSUME IInv, NEW d \in Docs, Handle(d)
    PROVE  IInv' /\ FinalStep
  <1>1. CASE DocumentSave(d)
    <2>1. PICK l \in Lines \ {NoLines},
                 s \in Field(d \notin Requests, Stores, NULL),
                 t \in Field(d \in Transfers, Stores, NULL),
                 p \in Field(d \in Adjustments \cup Counts, Purposes, "OTHER"),
                 b \in Field(d \in Returns, BOOLEAN, FALSE),
                 a \in Field(d \in Issues, Known(Requests), NULL),
                 r \in Field(d \in Issues, KnownReservations, NULL),
                 o \in Field(d \in Returns, Known(Issues), NULL) :
                    Save(d, l, [store |-> s, toStore |-> t, purpose |-> p, damaged |-> b,
                                request |-> Keep(doc[d].head.request, a),
                                reservation |-> Keep(doc[d].head.reservation, r),
                                original |-> Keep(doc[d].head.original, o)])
      BY <1>1 DEF DocumentSave
    <2> DEFINE h == [store |-> s, toStore |-> t, purpose |-> p, damaged |-> b,
                     request |-> Keep(doc[d].head.request, a),
                     reservation |-> Keep(doc[d].head.reservation, r),
                     original |-> Keep(doc[d].head.original, o)]
    <2>2. doc[d].head \in Header
      BY DEF IInv, TypeOK, DocType
    <2>3. /\ s \in Stores \cup {NULL} /\ (d \notin Requests => s \in Stores)
          /\ t \in Stores \cup {NULL} /\ p \in AllPurposes /\ b \in BOOLEAN
      BY PurposeAssumption DEF Field, AllPurposes
    <2>4. /\ Keep(doc[d].head.request, a) \in Requests \cup {NULL}
          /\ Keep(doc[d].head.reservation, r) \in Reservations \cup {NULL}
          /\ Keep(doc[d].head.original, o) \in Issues \cup {NULL}
      BY <2>2 DEF Field, Known, KnownReservations, Keep, Header
    <2>5. h \in Header /\ (d \notin Requests => h.store \in Stores)
      BY <2>3, <2>4 DEF Header
    <2> HIDE DEF h
    <2> QED BY <2>1, <2>5, SaveKeeps DEF h
  <1>2. CASE Cancel(d)
    <2>1. AskedType' /\ CountingType' /\ WithinApproved'
      BY <1>2, KindsAssumption DEF IInv, TypeOK, DocType, AskedType, CountingType, WithinApproved,
         Cancel, SetStatus, Docs, Final
    <2> QED BY <1>2, <2>1, StatusKeeps, KindsAssumption
            DEF Cancel, SetStatus, Status, IInv, CountStatus, Final
  <1>3. CASE Reject(d)
    <2>1. AskedType' /\ CountingType' /\ WithinApproved'
      BY <1>3, KindsAssumption DEF IInv, TypeOK, DocType, AskedType, CountingType, WithinApproved,
         Reject, SetStatus, Docs
    <2> QED BY <1>3, <2>1, StatusKeeps, KindsAssumption
            DEF Reject, SetStatus, Status, IInv, CountStatus
  <1>4. CASE SubmitRequest(d)
    <2>1. AskedType' /\ CountingType' /\ WithinApproved'
      BY <1>4, KindsAssumption DEF IInv, TypeOK, DocType, AskedType, CountingType, WithinApproved,
         SubmitRequest, SetStatus, Docs
    <2> QED BY <1>4, <2>1, StatusKeeps, KindsAssumption
            DEF SubmitRequest, SetStatus, Status, IInv, CountStatus
  <1>5. CASE ApproveRequest(d)
    <2>1. PICK a \in Lines :
             /\ d \in Requests /\ doc[d].status = "SUBMITTED"
             /\ asked' = [asked EXCEPT ![d].approved = a]
             /\ SetStatus(d, "APPROVED")
             /\ UNCHANGED <<archived, returnable, counting, custody, rsv, bal, ledger, clock>>
      BY <1>5 DEF ApproveRequest
    <2>2. AskedType' /\ asked'[d].approved = a /\ asked'[d].issued = asked[d].issued
          /\ \A e \in Requests : e # d => asked'[e] = asked[e]
      BY <2>1 DEF IInv, TypeOK, AskedType
    <2>3. CountingType'
      BY <2>1 DEF IInv, TypeOK, CountingType
    <2>4. WithinApproved'
      BY <2>1, <2>2 DEF IInv, TypeOK, DocType, SetStatus, Docs, WithinApproved, Lines, Qty
    <2> QED BY <2>1, <2>2, <2>3, <2>4, StatusKeeps, KindsAssumption DEF SetStatus, Status
  <1>6. CASE Approve(d)
    <2>1. AskedType' /\ CountingType' /\ WithinApproved'
      BY <1>6, KindsAssumption DEF IInv, TypeOK, DocType, AskedType, CountingType, WithinApproved,
         Approve, SetStatus, Docs
    <2> QED BY <1>6, <2>1, StatusKeeps, KindsAssumption
            DEF Approve, SetStatus, Status, IInv, CountStatus
  <1>7. CASE Start(d)
    <2>1. Snapshot(d) \in [Items -> Nat]
      BY <1>7, KindsAssumption DEF Start, Snapshot, IInv, TypeOK, BalType, StoresGiven, Counted, Docs
    <2>2. CountingType'
      BY <1>7, <2>1 DEF Start, IInv, TypeOK, CountingType
    <2>3. AskedType' /\ WithinApproved'
      BY <1>7, KindsAssumption DEF Start, SetStatus, IInv, TypeOK, DocType, AskedType, WithinApproved, Docs
    <2> QED BY <1>7, <2>2, <2>3, StatusKeeps DEF Start, SetStatus, Status
  <1>8. CASE Restart(d)
    <2>1. Snapshot(d) \in [Items -> Nat]
      BY <1>8, KindsAssumption DEF Restart, CanRestart, Snapshot, IInv, TypeOK, BalType, StoresGiven,
                                   Counted, Docs
    <2>2. CountingType'
      BY <1>8, <2>1 DEF Restart, IInv, TypeOK, CountingType
    <2>3. AskedType' /\ WithinApproved'
      BY <1>8, KindsAssumption DEF Restart, SetStatus, IInv, TypeOK, DocType, AskedType,
                                   WithinApproved, Docs
    <2>4. doc[d].status \in {"DRAFT", "IN_PROGRESS", "SUBMITTED", "APPROVED"}
      BY <1>8 DEF Restart, CanRestart, IInv, CountStatus
    <2> QED BY <1>8, <2>2, <2>3, <2>4, StatusKeeps DEF Restart, SetStatus, Status
  <1>9. CASE SubmitCount(d)
    <2>1. PICK n \in Lines :
             counting' = [counting EXCEPT ![d].counted =
                            [i \in Items |-> IF doc[d].lines[i] > 0 THEN n[i] ELSE NULL]]
      BY <1>9 DEF SubmitCount
    <2>2. [i \in Items |-> IF doc[d].lines[i] > 0 THEN n[i] ELSE NULL] \in [Items -> Qty \cup {NULL}]
      BY DEF Lines
    <2>3. CountingType'
      BY <1>9, <2>1, <2>2 DEF SubmitCount, IInv, TypeOK, CountingType
    <2>4. AskedType' /\ WithinApproved'
      BY <1>9, KindsAssumption DEF SubmitCount, SetStatus, IInv, TypeOK, DocType, AskedType,
                                   WithinApproved, Docs
    <2> QED BY <1>9, <2>3, <2>4, StatusKeeps DEF SubmitCount, SetStatus, Status
  <1> QED BY <1>1, <1>2, <1>3, <1>4, <1>5, <1>6, <1>7, <1>8, <1>9 DEF Handle

\* The steps of RequestIssue keep the invariant.
LEMMA RequestIssueKeeps ==
    ASSUME IInv, NEW a \in Requests, NEW d \in Issues, NEW s \in Stores, RequestIssue(a, d, s)
    PROVE  IInv' /\ FinalStep
  <1> DEFINE rest == [i \in Items |-> asked[a].approved[i] - asked[a].issued[i]]
             h == [store |-> s, toStore |-> NULL, purpose |-> "OTHER", damaged |-> FALSE,
                   request |-> a, reservation |-> NULL, original |-> NULL]
  <1>1. Save(d, rest, h)
    BY DEF RequestIssue
  <1>2. rest \in Lines
    BY QtyAssumption DEF IInv, TypeOK, AskedType, WithinApproved, Lines, Qty
  <1>3. h \in Header /\ h.store \in Stores /\ d \in Docs
    BY DEF Header, AllPurposes, Docs
  <1> QED BY <1>1, <1>2, <1>3, SaveKeeps

-----------------------------------------------------------------------------
(* Steps on masters and reservations that move no stock *)

\* The steps of Master keep the invariant.
LEMMA MasterKeeps ==
    ASSUME IInv,
           \/ \E x \in Archivable : Archive(x) \/ Restore(x)
           \/ \E i \in Items : ToggleReturnable(i)
           \/ \E r \in Reservations : Lapse(r)
           \/ UNCHANGED vars
    PROVE  IInv' /\ FinalStep
  <1>1. /\ UNCHANGED <<doc, asked, counting, custody, bal, ledger, clock>>
        /\ archived' \subseteq Archivable /\ returnable' \subseteq Toggled
    BY DEF Archive, Restore, ToggleReturnable, Lapse, vars, IInv, TypeOK
  <1>2. RsvType' /\ \A r \in Reservations : /\ rsv'[r].status = rsv[r].status
                                            /\ rsv'[r].q = rsv[r].q /\ rsv'[r].done = rsv[r].done
    <2>1. CASE UNCHANGED rsv
      BY <2>1 DEF IInv, TypeOK, RsvType
    <2>2. CASE \E r \in Reservations : Lapse(r)
      <3>1. PICK r \in Reservations : rsv' = [rsv EXCEPT ![r].lapsed = TRUE]
        BY <2>2 DEF Lapse
      <3>2. RsvType
        BY DEF IInv, TypeOK
      <3> QED BY <3>1, <3>2 DEF RsvType
    <2> QED BY <2>1, <2>2 DEF Archive, Restore, ToggleReturnable, vars
  <1>3. TypeOK'
    BY <1>1, <1>2 DEF IInv, TypeOK, DocType, AskedType, CountingType, CustodyType, BalType, LedgerType
  <1>4. StoresGiven' /\ CountStatus' /\ WithinApproved' /\ WithinReserved' /\ PostsOnce'
    BY <1>1, <1>2 DEF IInv, StoresGiven, CountStatus, WithinApproved, WithinReserved, PostsOnce
  <1>5. SourcesLeft'
    BY <1>1, <1>2 DEF IInv, SourcesLeft, Left
  <1>6. FinalStep
    BY <1>1 DEF FinalStep
  <1> QED BY <1>3, <1>4, <1>5, <1>6 DEF IInv

-----------------------------------------------------------------------------
(* Steps that post *)

\* A step that only moves documents and reservations forward leaves the sources
\* of old transactions as they were left.
LEMMA LeftKept ==
    ASSUME IInv,
           \A d \in Docs :
              /\ doc[d].status \in {"POSTED", "RECEIVED"} => doc'[d].status = doc[d].status
              /\ doc[d].status = "IN_TRANSIT" => doc'[d].status \in {"IN_TRANSIT", "RECEIVED"},
           \A r \in Reservations :
              /\ rsv[r].status # "NONE" => rsv'[r].status # "NONE"
              /\ rsv[r].status \notin {"NONE", "ACTIVE", "FULFILLED"} =>
                    rsv'[r].status = rsv[r].status
    PROVE  \A t \in ledger : Left(t)'
  BY DEF IInv, SourcesLeft, Left, Docs

Elsewhere == {"RESERVATION", "RESERVATION_RELEASE", "TRANSFER_OUT", "TRANSFER_IN", "REVERSAL"}

\* The posting of a document: it comes from a status in which nothing of this
\* type was posted yet, and issues may move a request and a reservation along.
LEMMA DocPostKeeps ==
    ASSUME IInv, NEW d \in Docs \ Requests, NEW s \in Status, NEW type \in TxTypes,
           NEW q \in [Items -> Nat], NEW move \in [Items -> [Stores -> Signed]],
           Post(d, type, q, move),
           \/ s = "POSTED" /\ type \notin Elsewhere /\ doc[d].status \in {"DRAFT", "APPROVED"}
           \/ s = "IN_TRANSIT" /\ type = "TRANSFER_OUT" /\ doc[d].status = "APPROVED" /\ d \in Transfers
           \/ s = "RECEIVED" /\ type = "TRANSFER_IN" /\ doc[d].status = "IN_TRANSIT" /\ d \in Transfers,
           DocType',
           doc'[d].status = s /\ doc'[d].head = doc[d].head /\ doc'[d].lines = doc[d].lines,
           \A e \in Docs : e # d =>
              \/ doc'[e] = doc[e]
              \/ /\ e \in Requests /\ doc[e].status \in {"APPROVED", "PARTIALLY_ISSUED"}
                 /\ doc'[e].status \in {"PARTIALLY_ISSUED", "FULFILLED"}
                 /\ doc'[e].head = doc[e].head /\ doc'[e].lines = doc[e].lines,
           UNCHANGED <<archived, returnable, counting>>,
           AskedType', CustodyType', RsvType', WithinApproved', WithinReserved',
           \A r \in Reservations :
              /\ rsv[r].status # "NONE" => rsv'[r].status # "NONE"
              /\ rsv[r].status \notin {"NONE", "ACTIVE", "FULFILLED"} =>
                    rsv'[r].status = rsv[r].status
    PROVE  IInv' /\ FinalStep /\ Book!Next
  <1>1. \A t \in ledger : t.source = d /\ t.type = type => FALSE
    BY DEF IInv, SourcesLeft, Left, Elsewhere
  <1>2. /\ bal' \in [Items -> [Stores -> Counted]] /\ clock' \in Nat \ {0}
        /\ \A t \in ledger' \ ledger :
              /\ t.source = d /\ t.type = type /\ t.item \in Items
              /\ t.q \in Nat /\ t.at \in Nat /\ t.number \in Nat
              /\ t.move \in [Stores -> Signed]
        /\ PostsOnce' /\ Book!Next
    BY <1>1, PostKeeps DEF IInv
  <1>3. BalType' /\ LedgerType'
    BY <1>2 DEF IInv, TypeOK, BalType, LedgerType
  <1>4. TypeOK'
    BY <1>3 DEF IInv, TypeOK, CountingType
  <1>5. StoresGiven' /\ CountStatus'
    BY KindsAssumption DEF IInv, StoresGiven, CountStatus, Docs
  <1>6. SourcesLeft'
    BY LeftKept, <1>2 DEF Left, Elsewhere, SourcesLeft
  <1>7. FinalStep
    BY DEF FinalStep
  <1> QED BY <1>2, <1>4, <1>5, <1>6, <1>7 DEF IInv

\* A document posting that touches neither requests nor reservations.
LEMMA PlainPostKeeps ==
    ASSUME IInv, NEW d \in Docs \ Requests, NEW s \in Status, NEW type \in TxTypes,
           NEW q \in [Items -> Nat], NEW move \in [Items -> [Stores -> Signed]],
           Post(d, type, q, move),
           \/ s = "POSTED" /\ type \notin Elsewhere /\ doc[d].status \in {"DRAFT", "APPROVED"}
           \/ s = "IN_TRANSIT" /\ type = "TRANSFER_OUT" /\ doc[d].status = "APPROVED" /\ d \in Transfers
           \/ s = "RECEIVED" /\ type = "TRANSFER_IN" /\ doc[d].status = "IN_TRANSIT" /\ d \in Transfers,
           SetStatus(d, s), CustodyType',
           UNCHANGED <<archived, returnable, asked, counting, rsv>>
    PROVE  IInv' /\ FinalStep /\ Book!Next
  <1>1. /\ DocType'
        /\ doc'[d].status = s /\ doc'[d].head = doc[d].head /\ doc'[d].lines = doc[d].lines
        /\ \A e \in Docs : e # d => doc'[e] = doc[e]
    BY DEF IInv, TypeOK, DocType, SetStatus
  <1>2. AskedType' /\ RsvType' /\ WithinReserved'
    BY DEF IInv, TypeOK, AskedType, RsvType, WithinReserved
  <1>3. WithinApproved'
    BY <1>1 DEF IInv, WithinApproved, Docs
  <1> QED BY <1>1, <1>2, <1>3, DocPostKeeps

\* The lines and store of a document that may post.
LEMMA DocFacts ==
    ASSUME IInv, NEW d \in Docs \ Requests, doc[d].status # "NONE"
    PROVE  /\ doc[d].lines \in [Items -> Nat] /\ doc[d].lines \in Lines
           /\ doc[d].head \in Header /\ doc[d].head.store \in Stores
  BY QtyAssumption DEF IInv, TypeOK, DocType, Lines, Qty, StoresGiven

\* The steps of Move keep the invariant.
LEMMA MoveKeeps ==
    ASSUME IInv, NEW d \in Docs, Move(d), ~PostIssue(d)
    PROVE  IInv' /\ FinalStep /\ Book!Next
  <1> DEFINE q == doc[d].lines
             h == doc[d].head
  <1>1. CASE PostReceipt(d)
    <2>1. d \in Docs \ Requests /\ doc[d].status \in {"DRAFT", "APPROVED"} /\ q \in [Items -> Nat]
      BY <1>1, DocFacts, KindsAssumption DEF PostReceipt, Ready, Docs
    <2>2. [i \in Items |-> At(h.store, Entry(q[i], 0, 0, 0))] \in [Items -> [Stores -> Signed]]
      BY <2>1, AtType DEF Entry, Signed
    <2>3. CustodyType'
      BY <1>1 DEF PostReceipt, IInv, TypeOK, CustodyType
    <2> QED BY <1>1, <2>1, <2>2, <2>3, PlainPostKeeps
            DEF PostReceipt, Elsewhere, TxTypes, Reversible, Status
  <1>2. CASE PostReturn(d)
    <2>1. d \in Docs \ Requests /\ doc[d].status \in {"DRAFT", "APPROVED"} /\ q \in [Items -> Nat]
      BY <1>2, DocFacts, KindsAssumption DEF PostReturn, Ready, Docs
    <2> DEFINE move == [i \in Items |->
                          At(h.store, Entry(q[i], 0, IF h.damaged THEN q[i] ELSE 0, 0))]
    <2>2. move \in [Items -> [Stores -> Signed]]
      BY <2>1, AtType DEF Entry, Signed
    <2>3. CustodyType'
      <3> DEFINE o == h.original
                 back == [i \in Items |-> IF custody[o].held[i] > 0
                                          THEN custody[o].back[i] + q[i] ELSE custody[o].back[i]]
      <3>1. custody' = [custody EXCEPT ![o].back = back]
        BY <1>2 DEF PostReturn
      <3>2. o \in Issues
        BY <1>2, <2>1 DEF PostReturn, Header, IInv, TypeOK, DocType
      <3>3. back \in [Items -> Nat]
        BY <2>1, <3>2 DEF IInv, TypeOK, CustodyType
      <3> QED BY <3>1, <3>2, <3>3 DEF IInv, TypeOK, CustodyType
    <2> HIDE DEF move
    <2>4. Post(d, "RETURN_FROM_EMPLOYEE", q, move) /\ SetStatus(d, "POSTED")
          /\ UNCHANGED <<archived, returnable, asked, counting, rsv>>
      BY <1>2 DEF PostReturn, move
    <2> QED BY <2>1, <2>2, <2>3, <2>4, PlainPostKeeps DEF Elsewhere, TxTypes, Status
  <1>3. CASE Dispatch(d)
    <2>1. d \in Docs \ Requests /\ d \in Transfers /\ doc[d].status = "APPROVED"
          /\ q \in [Items -> Nat]
      BY <1>3, DocFacts, KindsAssumption DEF Dispatch, Ready, Docs
    <2>2. [i \in Items |-> At(h.store, Leaving(q[i]))] \in [Items -> [Stores -> Signed]]
      BY <2>1, AtType DEF Leaving, Entry, Signed
    <2>3. CustodyType'
      BY <1>3 DEF Dispatch, IInv, TypeOK, CustodyType
    <2> QED BY <1>3, <2>1, <2>2, <2>3, PlainPostKeeps DEF Dispatch, TxTypes, Status
  <1>4. CASE Receive(d)
    <2>1. d \in Docs \ Requests /\ d \in Transfers /\ doc[d].status = "IN_TRANSIT"
          /\ q \in [Items -> Nat]
      BY <1>4, DocFacts, KindsAssumption DEF Receive, Docs
    <2>2. [i \in Items |-> At2(h.store, Entry(0, 0, 0, -q[i]), h.toStore, Entry(q[i], 0, 0, 0))]
            \in [Items -> [Stores -> Signed]]
      <3>1. \A i \in Items : Entry(0, 0, 0, -q[i]) \in Signed /\ Entry(q[i], 0, 0, 0) \in Signed
        BY <2>1 DEF Entry, Signed
      <3> QED BY <3>1, At2Type
    <2>3. CustodyType'
      BY <1>4 DEF Receive, IInv, TypeOK, CustodyType
    <2> QED BY <1>4, <2>1, <2>2, <2>3, PlainPostKeeps DEF Receive, TxTypes, Status
  <1>5. CASE PostAdjustment(d)
    <2> DEFINE delta(i) == IF h.purpose = "POSITIVE_ADJUSTMENT" THEN q[i] ELSE -q[i]
               move == [i \in Items |->
                          At(h.store, Adjusting(h.purpose, delta(i), bal[i][h.store]))]
    <2>1. d \in Docs \ Requests /\ doc[d].status = "APPROVED" /\ q \in [Items -> Nat]
          /\ h \in Header /\ h.store \in Stores
      BY <1>5, DocFacts, KindsAssumption DEF PostAdjustment, Ready, Docs
    <2>2. move \in [Items -> [Stores -> Signed]]
      <3>1. \A i \in Items : Adjusting(h.purpose, delta(i), bal[i][h.store]) \in Signed
        <4> TAKE i \in Items
        <4>1. bal[i][h.store] \in Counted /\ delta(i) \in Int
          BY <2>1 DEF IInv, TypeOK, BalType
        <4> QED BY <4>1, AdjustingType
      <3> QED BY <3>1, AtType
    <2>3. CustodyType'
      BY <1>5 DEF PostAdjustment, IInv, TypeOK, CustodyType
    <2>4. h.purpose \in TxTypes \ Elsewhere
      BY <1>5, <2>1 DEF PostAdjustment, Header, AllPurposes, TxTypes, Elsewhere
    <2> HIDE DEF move
    <2>5. Post(d, h.purpose, q, move) /\ SetStatus(d, "POSTED")
          /\ UNCHANGED <<archived, returnable, asked, counting, rsv>>
      BY <1>5 DEF PostAdjustment, move
    <2> QED BY <2>1, <2>2, <2>3, <2>4, <2>5, PlainPostKeeps DEF Status
  <1>6. CASE PostCount(d)
    <2> DEFINE delta == [i \in Items |-> IF i \in Posting(d)
                            THEN counting[d].counted[i] - counting[d].system[i] ELSE 0]
               amount == [i \in Items |-> Abs(delta[i])]
               move == [i \in Items |->
                          At(h.store, Adjusting(h.purpose, delta[i], bal[i][h.store]))]
    <2>1. d \in Docs \ Requests /\ d \in Counts /\ doc[d].status = "APPROVED" /\ h.store \in Stores
      BY <1>6, DocFacts, KindsAssumption DEF PostCount, Ready, Docs
    <2>2. delta \in [Items -> Int]
      BY <1>6, <2>1, QtyAssumption DEF PostCount, Posting, IInv, TypeOK, CountingType, Qty
    <2>3. amount \in [Items -> Nat]
      BY <2>2 DEF Abs
    <2>4. move \in [Items -> [Stores -> Signed]]
      <3>1. \A i \in Items : Adjusting(h.purpose, delta[i], bal[i][h.store]) \in Signed
        <4> TAKE i \in Items
        <4>1. bal[i][h.store] \in Counted /\ delta[i] \in Int
          BY <2>1, <2>2 DEF IInv, TypeOK, BalType
        <4> QED BY <4>1, AdjustingType
      <3> QED BY <3>1, AtType
    <2>5. CustodyType'
      BY <1>6 DEF PostCount, IInv, TypeOK, CustodyType
    <2> HIDE DEF move, amount
    <2>6. Post(d, "STOCK_COUNT_ADJUSTMENT", amount, move) /\ SetStatus(d, "POSTED")
          /\ UNCHANGED <<archived, returnable, asked, counting, rsv>>
      BY <1>6 DEF PostCount, move, amount
    <2> QED BY <2>1, <2>3, <2>4, <2>5, <2>6, PlainPostKeeps DEF Elsewhere, TxTypes, Status
  <1> QED BY <1>1, <1>2, <1>3, <1>4, <1>5, <1>6 DEF Move

\* The steps of Issue keep the invariant.
LEMMA IssueKeeps ==
    ASSUME IInv, NEW d \in Docs, PostIssue(d)
    PROVE  IInv' /\ FinalStep /\ Book!Next
  <1> DEFINE q == doc[d].lines
             h == doc[d].head
             r == h.reservation
             a == h.request
             issued == [i \in Items |-> asked[a].issued[i] + q[i]]
             move == [i \in Items |->
                        At(h.store, Entry(-q[i], IF r = NULL THEN 0 ELSE -q[i], 0, 0))]
             held == [i \in Items |-> IF i \in returnable THEN q[i] ELSE 0]
  <1>1. /\ d \in Docs \ Requests /\ d \in Issues /\ doc[d].status \in {"DRAFT", "APPROVED"}
        /\ q \in [Items -> Nat] /\ q \in Lines /\ h \in Header
    BY DocFacts, KindsAssumption DEF PostIssue, Ready, Docs
  <1>2. move \in [Items -> [Stores -> Signed]]
    BY <1>1, AtType DEF Entry, Signed
  <1>3. CustodyType'
    <2>1. custody' = [custody EXCEPT ![d].held = held]
      BY DEF PostIssue
    <2>2. held \in Lines
      BY <1>1, QtyAssumption DEF Lines, Qty
    <2> QED BY <1>1, <2>1, <2>2 DEF IInv, TypeOK, CustodyType
  <1>4. /\ RsvType' /\ WithinReserved'
        /\ \A e \in Reservations :
              /\ rsv[e].status # "NONE" => rsv'[e].status # "NONE"
              /\ rsv[e].status \notin {"NONE", "ACTIVE", "FULFILLED"} =>
                    rsv'[e].status = rsv[e].status
    <2>1. CASE r = NULL
      BY <2>1 DEF PostIssue, IInv, TypeOK, RsvType, WithinReserved
    <2>2. CASE r # NULL
      <3>1. r \in Reservations
        BY <1>1, <2>2 DEF Header
      <3>2. PICK i \in Posting(d) : rsv' = Fulfil(r, q[i])
        BY <2>2 DEF PostIssue
      <3>3. rsv[r].status = "ACTIVE" /\ rsv[r].q - rsv[r].done >= q[i] /\ q[i] \in Nat
        BY <1>1, <2>2, <3>2 DEF PostIssue, Covers, Posting
      <3>4. rsv[r].q \in Qty /\ rsv[r].done \in Qty /\ RsvType
        BY <3>1 DEF IInv, TypeOK, RsvType
      <3>5. rsv[r].done + q[i] \in Qty /\ rsv[r].done + q[i] <= rsv[r].q
        BY <3>3, <3>4, QtyAssumption DEF Qty
      <3> DEFINE n == rsv[r].done + q[i]
                 new == IF n = rsv[r].q THEN "FULFILLED" ELSE rsv[r].status
      <3>6. rsv' = [rsv EXCEPT ![r].done = n, ![r].status = new]
        BY <3>2 DEF Fulfil
      <3> HIDE DEF n
      <3>7. /\ rsv'[r].done = n /\ rsv'[r].status = new /\ rsv'[r].q = rsv[r].q
            /\ rsv'[r].item = rsv[r].item /\ rsv'[r].store = rsv[r].store
            /\ rsv'[r].lapsed = rsv[r].lapsed
            /\ \A e \in Reservations : e # r => rsv'[e] = rsv[e]
        BY <3>1, <3>4, <3>6 DEF RsvType
      <3>8. RsvType'
        <4>1. n \in Qty /\ new \in {"ACTIVE", "FULFILLED"}
          BY <3>3, <3>5 DEF n
        <4> HIDE DEF new
        <4> QED BY <3>1, <3>4, <3>6, <4>1 DEF RsvType
      <3>9. WithinReserved'
        BY <3>5, <3>7 DEF IInv, WithinReserved, n
      <3> QED BY <3>3, <3>7, <3>8, <3>9
    <2> QED BY <2>1, <2>2
  <1>5. /\ AskedType' /\ WithinApproved' /\ DocType'
        /\ doc'[d].status = "POSTED" /\ doc'[d].head = doc[d].head /\ doc'[d].lines = doc[d].lines
        /\ \A e \in Docs : e # d =>
              \/ doc'[e] = doc[e]
              \/ /\ e \in Requests /\ doc[e].status \in {"APPROVED", "PARTIALLY_ISSUED"}
                 /\ doc'[e].status \in {"PARTIALLY_ISSUED", "FULFILLED"}
                 /\ doc'[e].head = doc[e].head /\ doc'[e].lines = doc[e].lines
    <2>1. CASE a = NULL
      <3>1. doc' = [doc EXCEPT ![d].status = "POSTED"] /\ UNCHANGED asked
        BY <2>1 DEF PostIssue, SetStatus
      <3>2. /\ DocType' /\ \A e \in Docs : e # d => doc'[e] = doc[e]
            /\ doc'[d].status = "POSTED" /\ doc'[d].head = doc[d].head
            /\ doc'[d].lines = doc[d].lines
        BY <3>1 DEF IInv, TypeOK, DocType, Status
      <3> QED BY <1>1, <3>1, <3>2 DEF IInv, TypeOK, AskedType, WithinApproved, Docs
    <2>2. CASE a # NULL
      <3> DEFINE new == Served(a, issued)
      <3>1. a \in Requests /\ a # d /\ a \in Docs
        BY <1>1, <2>2 DEF Header, Docs
      <3>2. /\ doc[a].status \in {"APPROVED", "PARTIALLY_ISSUED"}
            /\ WithinApproval(a, q)
            /\ asked' = [asked EXCEPT ![a].issued = issued]
            /\ doc' = [doc EXCEPT ![d].status = "POSTED", ![a].status = new]
        BY <2>2 DEF PostIssue
      <3>3. asked[a].issued \in Lines /\ asked[a].approved \in Lines
            /\ \A i \in Items : asked[a].issued[i] <= asked[a].approved[i]
        BY <3>1 DEF IInv, TypeOK, AskedType, WithinApproved
      <3>4. issued \in Lines /\ \A i \in Items : issued[i] <= asked[a].approved[i]
        <4> SUFFICES ASSUME NEW i \in Items
                     PROVE  issued[i] \in Qty /\ issued[i] <= asked[a].approved[i]
          BY DEF Lines
        <4>1. asked[a].issued[i] \in Qty /\ asked[a].approved[i] \in Qty /\ q[i] \in Nat
              /\ issued[i] = asked[a].issued[i] + q[i]
              /\ asked[a].issued[i] <= asked[a].approved[i]
          BY <1>1, <3>3 DEF Lines
        <4>2. CASE q[i] > 0
          <5>1. WithinApproval(a, q)
            BY <3>2
          <5>2. asked[a].issued[i] + q[i] <= asked[a].approved[i]
            BY <5>1, <4>2 DEF WithinApproval
          <5> QED BY <5>2, <4>1, QtyAssumption DEF Qty
        <4>3. CASE ~(q[i] > 0)
          BY <4>1, <4>3, QtyAssumption DEF Qty
        <4> QED BY <4>2, <4>3
      <3> HIDE DEF new, issued
      <3>5. new \in {"PARTIALLY_ISSUED", "FULFILLED"}
        BY DEF new, Served
      <3>6. /\ DocType' /\ \A e \in Docs : e # d /\ e # a => doc'[e] = doc[e]
            /\ doc'[d].status = "POSTED" /\ doc'[d].head = doc[d].head
            /\ doc'[d].lines = doc[d].lines
            /\ doc'[a].status = new /\ doc'[a].head = doc[a].head
            /\ doc'[a].lines = doc[a].lines
        BY <3>1, <3>2, <3>5 DEF IInv, TypeOK, DocType, Status
      <3>7. AskedType' /\ asked'[a].issued = issued /\ asked'[a].approved = asked[a].approved
            /\ \A e \in Requests : e # a => asked'[e] = asked[e]
        BY <3>1, <3>2, <3>4 DEF IInv, TypeOK, AskedType
      <3>8. WithinApproved'
        BY <1>1, <3>4, <3>5, <3>6, <3>7 DEF IInv, WithinApproved, Docs
      <3> QED BY <3>1, <3>2, <3>5, <3>6, <3>7, <3>8
    <2> QED BY <2>1, <2>2
  <1> HIDE DEF move
  <1>6. Post(d, "ISSUE", q, move) /\ UNCHANGED <<archived, returnable, counting>>
    BY DEF PostIssue, move
  <1> QED BY <1>1, <1>2, <1>3, <1>4, <1>5, <1>6, DocPostKeeps
          DEF Elsewhere, TxTypes, Reversible, Status

\* A posting of a reservation: only its own row changes besides the ledger.
LEMMA RsvPostKeeps ==
    ASSUME IInv, NEW r \in Reservations, NEW type \in {"RESERVATION", "RESERVATION_RELEASE"},
           NEW q \in [Items -> Nat], NEW move \in [Items -> [Stores -> Signed]],
           Post(r, type, q, move),
           \/ /\ type = "RESERVATION" /\ rsv[r].status = "NONE" /\ rsv'[r].status = "ACTIVE"
           \/ /\ type = "RESERVATION_RELEASE" /\ rsv[r].status = "ACTIVE"
              /\ rsv'[r].status \in {"CANCELLED", "EXPIRED", "RELEASED"},
           \A e \in Reservations : e # r => rsv'[e] = rsv[e],
           RsvType', rsv'[r].done <= rsv'[r].q,
           UNCHANGED <<archived, returnable, doc, asked, counting, custody>>
    PROVE  IInv' /\ FinalStep /\ Book!Next
  <1>1. \A t \in ledger : t.source = r /\ t.type = type => FALSE
    BY DEF IInv, SourcesLeft, Left
  <1>2. /\ bal' \in [Items -> [Stores -> Counted]] /\ clock' \in Nat \ {0}
        /\ \A t \in ledger' \ ledger :
              /\ t.source = r /\ t.type = type /\ t.item \in Items
              /\ t.q \in Nat /\ t.at \in Nat /\ t.number \in Nat
              /\ t.move \in [Stores -> Signed]
        /\ PostsOnce' /\ Book!Next
    <2>1. type \in TxTypes
      BY DEF TxTypes
    <2> QED BY <1>1, <2>1, PostKeeps DEF IInv
  <1>3. BalType' /\ LedgerType'
    BY <1>2 DEF TxTypes, IInv, TypeOK, BalType, LedgerType
  <1>4. TypeOK'
    BY <1>3 DEF IInv, TypeOK, DocType, AskedType, CountingType, CustodyType
  <1>5. StoresGiven' /\ CountStatus' /\ WithinApproved' /\ WithinReserved'
    BY DEF IInv, StoresGiven, CountStatus, WithinApproved, WithinReserved
  <1>6. SourcesLeft'
    BY LeftKept, <1>2 DEF Left, SourcesLeft
  <1>7. FinalStep
    BY DEF FinalStep
  <1> QED BY <1>2, <1>4, <1>5, <1>6, <1>7 DEF IInv

\* The steps of Reservation keep the invariant.
LEMMA ReservationKeeps ==
    ASSUME IInv, NEW r \in Reservations, Reserve(r) \/ Release(r)
    PROVE  IInv' /\ FinalStep /\ Book!Next
  <1>0. RsvType /\ WithinReserved
    BY DEF IInv, TypeOK
  <1>1. CASE Reserve(r)
    BY <1>1, QtyAssumption, AtType, <1>0, RsvPostKeeps DEF Reserve, Only, Qty, Entry,
       Signed, RsvType
  <1>2. CASE Release(r)
    <2> DEFINE left == rsv[r].q - rsv[r].done
               move == [j \in Items |-> At(rsv[r].store, Entry(0, -left, 0, 0))]
    <2>1. PICK cancel \in BOOLEAN :
             /\ rsv[r].status = "ACTIVE"
             /\ rsv' = [rsv EXCEPT ![r].status = IF cancel THEN "CANCELLED"
                                                 ELSE IF rsv[r].lapsed THEN "EXPIRED" ELSE "RELEASED"]
             /\ Post(r, "RESERVATION_RELEASE", Only(rsv[r].item, left), move)
             /\ UNCHANGED <<archived, returnable, doc, asked, counting, custody>>
      BY <1>2 DEF Release
    <2>2. left \in Nat /\ Only(rsv[r].item, left) \in [Items -> Nat]
      BY <1>0, QtyAssumption DEF RsvType, WithinReserved, Qty, Only
    <2>3. move \in [Items -> [Stores -> Signed]]
      BY <2>2, AtType DEF Entry, Signed
    <2>4. /\ RsvType' /\ rsv'[r].status \in {"CANCELLED", "EXPIRED", "RELEASED"}
          /\ rsv'[r].done <= rsv'[r].q
          /\ \A e \in Reservations : e # r => rsv'[e] = rsv[e]
      BY <1>0, <2>1 DEF RsvType, WithinReserved
    <2> HIDE DEF move, left
    <2> QED BY <2>1, <2>2, <2>3, <2>4, RsvPostKeeps
  <1> QED BY <1>1, <1>2

\* The steps of Reverse keep the invariant.
LEMMA ReverseKeeps ==
    ASSUME IInv, NEW t \in ledger, Reverse(t)
    PROVE  IInv' /\ FinalStep /\ Book!Next
  <1> DEFINE q == Only(t.item, t.q)
             move == [i \in Items |-> [s \in Stores |-> Minus(t.move[s])]]
  <1>1. /\ t.source \in Docs /\ t.item \in Items /\ t.q \in Nat
        /\ t.move \in [Stores -> Signed]
    BY DEF IInv, SourcesLeft, Reverse, Reversible, Left, TypeOK, LedgerType
  <1>2. q \in [Items -> Nat] /\ move \in [Items -> [Stores -> Signed]] /\ "REVERSAL" \in TxTypes
    BY <1>1 DEF Only, Minus, Entry, Signed, TxTypes
  <1>3. \A u \in ledger : u.source = t.source /\ u.type = "REVERSAL" => q[u.item] = 0
    BY <1>1 DEF Reverse, Reversed, Only, IInv, TypeOK, LedgerType
  <1> HIDE DEF move, q
  <1>4. Post(t.source, "REVERSAL", q, move)
        /\ UNCHANGED <<archived, returnable, doc, asked, counting, custody, rsv>>
    BY DEF Reverse, q, move
  <1>5. /\ bal' \in [Items -> [Stores -> Counted]] /\ clock' \in Nat \ {0}
        /\ \A u \in ledger' \ ledger :
              /\ u.source = t.source /\ u.type = "REVERSAL" /\ u.item \in Items
              /\ u.q \in Nat /\ u.at \in Nat /\ u.number \in Nat
              /\ u.move \in [Stores -> Signed]
        /\ PostsOnce' /\ Book!Next
    BY <1>1, <1>2, <1>3, <1>4, PostKeeps DEF IInv
  <1>6. BalType' /\ LedgerType'
    BY <1>1, <1>2, <1>5 DEF IInv, TypeOK, BalType, LedgerType
  <1>7. TypeOK'
    BY <1>4, <1>6 DEF IInv, TypeOK, DocType, AskedType, CountingType, CustodyType, RsvType
  <1>8. StoresGiven' /\ CountStatus' /\ WithinApproved' /\ WithinReserved' /\ FinalStep
    BY <1>4 DEF IInv, StoresGiven, CountStatus, WithinApproved, WithinReserved, FinalStep
  <1>9. SourcesLeft'
    BY <1>4, <1>1, <1>5 DEF Left, IInv, SourcesLeft
  <1> QED BY <1>5, <1>7, <1>8, <1>9 DEF IInv

-----------------------------------------------------------------------------
(* The theorems *)

\* The empty warehouse satisfies the invariant and is an initial state of the abstract book.
LEMMA InitKeeps == Init => IInv /\ Book!Init
  <1> SUFFICES ASSUME Init PROVE IInv /\ Book!Init
    OBVIOUS
  <1>1. NoLines \in Lines /\ Blank \in Header /\ 0 \in Qty
    BY QtyAssumption DEF NoLines, Lines, Qty, Blank, Header, AllPurposes
  <1>2. DocType /\ AskedType /\ CustodyType
    BY <1>1, QtyAssumption DEF Init, DocType, AskedType, CustodyType, Status, NoLines, Lines, Qty
  <1>3. CountingType /\ RsvType
    BY <1>1, QtyAssumption DEF Init, CountingType, RsvType, NoLines
  <1>4. BalType /\ LedgerType
    BY DEF Init, BalType, LedgerType, Zero, Entry, Counted
  <1>5. TypeOK
    BY <1>2, <1>3, <1>4 DEF Init, TypeOK
  <1>6. StoresGiven /\ CountStatus /\ WithinApproved /\ WithinReserved /\ SourcesLeft /\ PostsOnce
    BY DEF Init, StoresGiven, CountStatus, WithinApproved, WithinReserved, SourcesLeft, PostsOnce,
           NoLines, Docs
  <1>7. Book!Init
    BY DEF Init, Book!Init, Book!Fields, Zero, Entry
  <1> QED BY <1>5, <1>6, <1>7 DEF IInv

\* Every step keeps the invariant and is a step of the abstract book or a stutter.
LEMMA NextKeeps ==
    ASSUME IInv, [Next]_vars
    PROVE  IInv' /\ FinalStep /\ [Book!Next]_<<bal, ledger>>
  <1>1. ASSUME NEW d \in Docs, Handle(d) PROVE IInv' /\ FinalStep /\ UNCHANGED <<bal, ledger>>
    <2>1. DocumentSave(d) => UNCHANGED <<bal, ledger>>
      BY DEF DocumentSave, Save
    <2>2. ApproveRequest(d) \/ SubmitCount(d) => UNCHANGED <<bal, ledger>>
      BY DEF ApproveRequest, SubmitCount
    <2>3. Cancel(d) \/ Reject(d) \/ SubmitRequest(d) \/ Approve(d) \/ Start(d) \/ Restart(d)
            => UNCHANGED <<bal, ledger>>
      BY DEF Cancel, Reject, SubmitRequest, Approve, Start, Restart
    <2> QED BY <1>1, <2>1, <2>2, <2>3, HandleKeeps DEF Handle
  <1>2. ASSUME NEW d \in Docs, Move(d) PROVE IInv' /\ FinalStep /\ Book!Next
    BY <1>2, MoveKeeps, IssueKeeps
  <1>3. ASSUME NEW a \in Requests, NEW d \in Issues, NEW s \in Stores, RequestIssue(a, d, s)
        PROVE  IInv' /\ FinalStep /\ UNCHANGED <<bal, ledger>>
    BY <1>3, RequestIssueKeeps DEF RequestIssue, Save
  <1>4. ASSUME NEW r \in Reservations, Reserve(r) \/ Release(r)
        PROVE  IInv' /\ FinalStep /\ Book!Next
    BY <1>4, ReservationKeeps
  <1>5. ASSUME NEW t \in ledger, Reverse(t) PROVE IInv' /\ FinalStep /\ Book!Next
    BY <1>5, ReverseKeeps
  <1>6. ASSUME \/ \E x \in Archivable : Archive(x) \/ Restore(x)
               \/ \E i \in Items : ToggleReturnable(i)
               \/ \E r \in Reservations : Lapse(r)
               \/ UNCHANGED vars
        PROVE  IInv' /\ FinalStep /\ UNCHANGED <<bal, ledger>>
    BY <1>6, MasterKeeps DEF Archive, Restore, ToggleReturnable, Lapse, vars
  <1> QED BY <1>1, <1>2, <1>3, <1>4, <1>5, <1>6 DEF Next

\* Every table keeps its shape, for any number of items, stores and documents:
\* no balance is ever negative, no request line over its approval.
THEOREM TypeCorrect == Spec => []TypeOK
  <1>1. Init => IInv
    BY InitKeeps
  <1>2. IInv /\ [Next]_vars => IInv'
    BY NextKeeps
  <1>3. IInv => TypeOK
    BY DEF IInv
  <1> QED BY <1>1, <1>2, <1>3, PTL DEF Spec

\* No line of any document posts a type twice and no movement is reversed
\* twice: the unique posting_key is never relied on.
THEOREM NeverPostsTwice == Spec => []PostsOnce
  <1>1. Init => IInv
    BY InitKeeps
  <1>2. IInv /\ [Next]_vars => IInv'
    BY NextKeeps
  <1>3. IInv => PostsOnce
    BY DEF IInv
  <1> QED BY <1>1, <1>2, <1>3, PTL DEF Spec

\* A document that moved stock or was called off is never edited or reopened.
THEOREM PostedStaysFinal == Spec => PostedIsFinal
  <1>1. Init => IInv
    BY InitKeeps
  <1>2. IInv /\ [Next]_vars => IInv'
    BY NextKeeps
  <1>3. IInv /\ [Next]_vars => [FinalStep]_vars
    BY NextKeeps
  <1> QED BY <1>1, <1>2, <1>3, PTL DEF Spec, PostedIsFinal, FinalStep

\* The documents, workflows and reversals of the service implement the plain
\* book: append-only, one entry per key, balances that are never oversold.
THEOREM ImplementsBook == Spec => KeepsTheBook
  <1>1. Init => IInv /\ Book!Init
    BY InitKeeps
  <1>2. IInv /\ [Next]_vars => IInv' /\ [Book!Next]_<<bal, ledger>>
    BY NextKeeps
  <1> QED BY <1>1, <1>2, PTL DEF Spec, KeepsTheBook, Book!Spec

-----------------------------------------------------------------------------
(* Counts *)

\* The purpose of a count is one that its client chose, or none.
PurposeChosen == \A c \in Counts : doc[c].head.purpose \in Purposes \cup {"OTHER"}

\* A step that posts a count leaves on hand what was counted.
CountStep ==
    \A c \in Counts : doc[c].status # "POSTED" /\ doc'[c].status = "POSTED" =>
        \A i \in Posting(c) : bal'[i][doc[c].head.store].onHand = counting[c].counted[i]

\* Outside quarantine, what an adjustment changes on hand is its difference.
LEMMA AdjustsOnHand ==
    ASSUME NEW purpose, purpose \notin {"QUARANTINE", "RELEASE_FROM_QUARANTINE"},
           NEW delta \in Int, NEW b
    PROVE  Adjusting(purpose, delta, b).onHand = delta
  BY DEF Adjusting, Entry

\* Saving a draft keeps a chosen purpose, if the header's is one.
LEMMA SaveChosen ==
    ASSUME IInv, PurposeChosen, NEW d \in Docs, NEW l, NEW h, Save(d, l, h),
           d \in Counts => h.purpose \in Purposes \cup {"OTHER"}
    PROVE  PurposeChosen' /\ CountStep
  BY DEF Save, IInv, TypeOK, DocType, PurposeChosen, Docs, CountStep

\* A new status keeps the purpose, and posts no count unless that is the status.
LEMMA StatusChosen ==
    ASSUME IInv, PurposeChosen, NEW d \in Docs, NEW s, SetStatus(d, s)
    PROVE  /\ PurposeChosen'
           /\ (d \in Counts => s # "POSTED") => CountStep
  BY DEF SetStatus, IInv, TypeOK, DocType, PurposeChosen, Docs, CountStep

\* A step that leaves the documents alone posts no count.
LEMMA StillChosen ==
    ASSUME PurposeChosen, UNCHANGED doc
    PROVE  PurposeChosen' /\ CountStep
  BY DEF PurposeChosen, CountStep

\* Posting a count leaves what was counted: the book is what it was when the count
\* began, so the difference of count and book is what the balance lacks.
LEMMA PostedCountHolds ==
    ASSUME IInv, PurposeChosen, NEW d \in Docs, PostCount(d),
           Purposes \cap {"QUARANTINE", "RELEASE_FROM_QUARANTINE"} = {}
    PROVE  PurposeChosen' /\ CountStep
  <1> DEFINE h == doc[d].head
             delta == [i \in Items |-> IF i \in Posting(d)
                            THEN counting[d].counted[i] - counting[d].system[i] ELSE 0]
             q == [i \in Items |-> Abs(delta[i])]
             move == [i \in Items |-> At(h.store, Adjusting(h.purpose, delta[i], bal[i][h.store]))]
  <1>1. /\ d \in Counts /\ h.store \in Stores
        /\ h.purpose \notin {"QUARANTINE", "RELEASE_FROM_QUARANTINE"}
    BY DocFacts, KindsAssumption DEF PostCount, Ready, Docs, PurposeChosen
  <1>2. /\ Post(d, "STOCK_COUNT_ADJUSTMENT", q, move) /\ SetStatus(d, "POSTED") /\ Unmoved(d)
    BY DEF PostCount
  <1>3. /\ PurposeChosen' /\ DocType
        /\ \A e \in Docs : e # d => doc'[e] = doc[e]
    BY <1>2, StatusChosen DEF IInv, TypeOK, SetStatus, DocType
  <1>4. ASSUME NEW i \in Posting(d)
        PROVE  bal'[i][h.store].onHand = counting[d].counted[i]
    <2>1. /\ i \in Items
          /\ counting[d].counted[i] \in Int /\ counting[d].system[i] \in Int
          /\ bal[i][h.store] \in Counted
      BY <1>1, <1>4, QtyAssumption DEF PostCount, Posting, IInv, TypeOK, CountingType, Qty, BalType
    <2>2. /\ delta[i] = counting[d].counted[i] - counting[d].system[i]
          /\ delta[i] \in Int
          /\ counting[d].system[i] = bal[i][h.store].onHand
      BY <1>2, <1>4, <2>1 DEF Unmoved
    <2>3. /\ q[i] = Abs(delta[i])
          /\ move[i][h.store] = Adjusting(h.purpose, delta[i], bal[i][h.store])
      BY <1>1, <2>1 DEF At
    <2>4. Adjusting(h.purpose, delta[i], bal[i][h.store]).onHand = delta[i]
      BY <1>1, <2>1, <2>2, AdjustsOnHand
    <2>5. bal' = [j \in Items |-> [s \in Stores |->
                    Plus(bal[j][s],
                         (IF q[j] > 0 THEN move[j] ELSE [x \in Stores |-> Zero])[s])]]
      BY <1>2 DEF Post, Effect
    <2> HIDE DEF q, move, delta, h
    <2>6. bal'[i][h.store]
             = Plus(bal[i][h.store],
                    (IF q[i] > 0 THEN move[i] ELSE [x \in Stores |-> Zero])[h.store])
      BY <1>1, <2>1, <2>5
    <2>7. bal'[i][h.store].onHand
             = bal[i][h.store].onHand
                 + (IF q[i] > 0 THEN move[i] ELSE [x \in Stores |-> Zero])[h.store].onHand
      BY <2>6 DEF Plus, Entry
    <2>8. CASE q[i] > 0
      BY <2>3, <2>4, <2>7, <2>8, <2>1, <2>2 DEF Counted
    <2>9. CASE ~(q[i] > 0)
      BY <2>2, <2>3, <2>9, <1>1, <2>7, <2>1 DEF Abs, Zero, Entry, Counted
    <2> QED BY <2>8, <2>9
  <1>5. CountStep
    BY <1>3, <1>4 DEF CountStep, Docs
  <1> QED BY <1>3, <1>5

\* No other step posts a count or chooses a purpose that its client did not.
LEMMA CountsStand ==
    ASSUME IInv, PurposeChosen, [Next]_vars,
           Purposes \cap {"QUARANTINE", "RELEASE_FROM_QUARANTINE"} = {}
    PROVE  PurposeChosen' /\ CountStep
  <1>1. ASSUME NEW d \in Docs, DocumentSave(d) PROVE PurposeChosen' /\ CountStep
    BY <1>1, SaveChosen DEF DocumentSave, Field
  <1>2. ASSUME NEW d \in Docs,
               Cancel(d) \/ Reject(d) \/ SubmitRequest(d) \/ ApproveRequest(d)
                 \/ Approve(d) \/ Start(d) \/ Restart(d) \/ SubmitCount(d)
        PROVE  PurposeChosen' /\ CountStep
    BY <1>2, StatusChosen DEF Cancel, Reject, SubmitRequest, ApproveRequest, Approve, Start,
       Restart, SubmitCount
  <1>3. ASSUME NEW d \in Docs, Move(d), ~PostCount(d) PROVE PurposeChosen' /\ CountStep
    <2>1. CASE PostIssue(d)
      <3>1. d \in Issues
        BY <2>1 DEF PostIssue
      <3> DEFINE a == doc[d].head.request
      <3>a. DocType /\ a \in Requests \cup {NULL}
        BY <3>1 DEF IInv, TypeOK, DocType, Header
      <3>b. ASSUME NEW e \in Docs \ (Requests \cup {d}) PROVE doc'[e] = doc[e]
        <4>1. CASE a = NULL
          BY <2>1, <4>1, <3>a, <3>b DEF PostIssue, SetStatus, DocType
        <4>2. CASE a # NULL
          <5>1. PICK s : doc' = [doc EXCEPT ![d].status = "POSTED", ![a].status = s]
            BY <2>1, <4>2 DEF PostIssue
          <5>2. e \in Docs /\ e # d /\ e # a /\ DOMAIN doc = Docs
            BY <3>a, <3>b, <4>2 DEF DocType
          <5> HIDE DEF a
          <5> QED BY ONLY <5>1, <5>2
        <4> QED BY <4>1, <4>2
      <3>2. /\ d \notin Counts
            /\ \A e \in Docs \ (Requests \cup {d}) : doc'[e] = doc[e]
        BY <3>1, <3>b, KindsAssumption
      <3>3. \A c \in Counts : c \in Docs \ (Requests \cup {d})
        BY <3>2, KindsAssumption DEF Docs
      <3> QED BY <3>2, <3>3 DEF PurposeChosen, CountStep
    <2>2. CASE PostReceipt(d) \/ PostReturn(d) \/ Dispatch(d) \/ Receive(d) \/ PostAdjustment(d)
      BY StatusChosen, KindsAssumption, <2>2 DEF PostReceipt, PostReturn, Dispatch, Receive,
         PostAdjustment
    <2> QED BY <1>3, <2>1, <2>2 DEF Move
  <1>4. ASSUME NEW d \in Docs, PostCount(d) PROVE PurposeChosen' /\ CountStep
    BY <1>4, PostedCountHolds
  <1>5. ASSUME NEW a \in Requests, NEW d \in Issues, NEW s \in Stores, RequestIssue(a, d, s)
        PROVE  PurposeChosen' /\ CountStep
    BY KindsAssumption, <1>5, SaveChosen DEF Docs, RequestIssue
  <1>6. ASSUME \/ \E r \in Reservations : Reserve(r) \/ Lapse(r) \/ Release(r)
               \/ \E t \in ledger : Reverse(t)
               \/ \E x \in Archivable : Archive(x) \/ Restore(x)
               \/ \E i \in Items : ToggleReturnable(i)
               \/ UNCHANGED vars
        PROVE  PurposeChosen' /\ CountStep
    <2>1. UNCHANGED doc
      BY <1>6 DEF Reserve, Lapse, Release, Reverse, Archive, Restore, ToggleReturnable, vars
    <2> QED BY <2>1, StillChosen
  <1> QED BY <1>1, <1>2, <1>3, <1>4, <1>5, <1>6 DEF Next, Handle

\* A posted count leaves on hand what was counted, whatever was posted while it was
\* counted, as long as no count is given a purpose of the quarantine, for which the
\* code moves the quarantined quantity instead.
THEOREM CountsAlwaysHold ==
    ASSUME Purposes \cap {"QUARANTINE", "RELEASE_FROM_QUARANTINE"} = {}
    PROVE  Spec => CountsHold
  <1> DEFINE CInv == IInv /\ PurposeChosen
  <1>1. Init => CInv
    BY InitKeeps DEF Init, PurposeChosen, Blank, Docs
  <1>2. CInv /\ [Next]_vars => CInv'
    BY NextKeeps, CountsStand
  <1>3. CInv /\ [Next]_vars => [CountStep]_vars
    BY CountsStand
  <1> QED BY <1>1, <1>2, <1>3, PTL DEF Spec, CountsHold, CountStep

-----------------------------------------------------------------------------
(***************************************************************************)
(* The counters StockLedger keeps beside the ledger agree with it:         *)
(* balances, request lines, reservations, custody and transfers.           *)
(***************************************************************************)

FiniteLedger == IsFiniteSet(ledger)

-----------------------------------------------------------------------------
(* Sums over transactions *)

\* A quantity of transactions is a number, one more adds its own.
LEMMA QuantityGrows ==
    ASSUME NEW X, IsFiniteSet(X), \A t \in X : t.q \in Nat
    PROVE  /\ Quantity(X) \in Nat
           /\ \A n : n \notin X /\ n.q \in Nat => Quantity(X \cup {n}) = Quantity(X) + n.q
  <1> DEFINE f == [t \in X |-> t.q]
  <1>1. \A t \in X : f[t] \in Nat
    OBVIOUS
  <1>2. Quantity(X) = Sum(f, X)
    BY DEF Quantity
  <1>3. Sum(f, X) \in Nat
    <2> HIDE DEF f
    <2> QED BY <1>1, SumNat
  <1>4. ASSUME NEW n, n \notin X, n.q \in Nat
        PROVE  Quantity(X \cup {n}) = Quantity(X) + n.q
    <2> DEFINE g == [t \in X \cup {n} |-> t.q]
    <2>1. Quantity(X \cup {n}) = Sum(g, X \cup {n})
      BY DEF Quantity
    <2>2. g[n] = n.q /\ g[n] \in Int /\ \A t \in X : f[t] \in Int /\ f[t] = g[t]
      BY <1>1, <1>4
    <2>3. Sum(g, X \cup {n}) = Sum(f, X) + g[n]
      <3> HIDE DEF f, g
      <3> QED BY <2>2, <1>4, SumExtend
    <2> QED BY <1>2, <2>1, <2>2, <2>3
  <1> QED BY <1>2, <1>3, <1>4

\* The same for one of the four quantities of the entries, or any other number.
LEMMA FieldGrows ==
    ASSUME NEW X, IsFiniteSet(X), NEW f, NEW g, NEW n, n \notin X,
           f \in [X -> Int], g \in [X \cup {n} -> Int], \A t \in X : f[t] = g[t]
    PROVE  Sum(f, X) \in Int /\ Sum(g, X \cup {n}) = Sum(f, X) + g[n]
  BY SumType, SumExtend

\* One more transaction adds its entry to what is booked.
LEMMA BookedGrows ==
    ASSUME NEW X, IsFiniteSet(X), NEW s \in Stores,
           \A t \in X : t.move \in [Stores -> Signed],
           NEW n, n \notin X, n.move \in [Stores -> Signed]
    PROVE  Booked(X \cup {n}, s) = Plus(Booked(X, s), n.move[s])
  <1> DEFINE Y == X \cup {n}
  <1>1. \A t \in Y : /\ t.move[s].onHand \in Int /\ t.move[s].reserved \in Int
                     /\ t.move[s].quarantined \in Int /\ t.move[s].inTransit \in Int
    BY DEF Signed
  <1>2. /\ [t \in X |-> t.move[s].onHand] \in [X -> Int]
        /\ [t \in Y |-> t.move[s].onHand] \in [Y -> Int]
        /\ [t \in X |-> t.move[s].reserved] \in [X -> Int]
        /\ [t \in Y |-> t.move[s].reserved] \in [Y -> Int]
        /\ [t \in X |-> t.move[s].quarantined] \in [X -> Int]
        /\ [t \in Y |-> t.move[s].quarantined] \in [Y -> Int]
        /\ [t \in X |-> t.move[s].inTransit] \in [X -> Int]
        /\ [t \in Y |-> t.move[s].inTransit] \in [Y -> Int]
    BY <1>1
  <1>3. Sum([t \in Y |-> t.move[s].onHand], Y)
          = Sum([t \in X |-> t.move[s].onHand], X) + n.move[s].onHand
    BY <1>2, FieldGrows
  <1>4. Sum([t \in Y |-> t.move[s].reserved], Y)
          = Sum([t \in X |-> t.move[s].reserved], X) + n.move[s].reserved
    BY <1>2, FieldGrows
  <1>5. Sum([t \in Y |-> t.move[s].quarantined], Y)
          = Sum([t \in X |-> t.move[s].quarantined], X) + n.move[s].quarantined
    BY <1>2, FieldGrows
  <1>6. Sum([t \in Y |-> t.move[s].inTransit], Y)
          = Sum([t \in X |-> t.move[s].inTransit], X) + n.move[s].inTransit
    BY <1>2, FieldGrows
  <1> QED BY <1>3, <1>4, <1>5, <1>6 DEF Booked, Plus, Entry

-----------------------------------------------------------------------------
(* Quantities at all the stores together *)

\* What is at one store.
AtStore(rows) == [s \in Stores |-> rows[s].onHand + rows[s].inTransit]

\* What there is of an item everywhere is a sum of integers.
LEMMA EverywhereType ==
    ASSUME NEW rows \in [Stores -> Signed]
    PROVE  Everywhere(rows) = Sum(AtStore(rows), Stores) /\ Everywhere(rows) \in Int
  BY FiniteAssumption, SumType DEF AtStore, Signed, Everywhere

\* Rows with entries added hold what was there and what was added.
LEMMA EverywherePlus ==
    ASSUME NEW a \in [Stores -> Signed], NEW b \in [Stores -> Signed],
           NEW c \in [Stores -> Signed], \A s \in Stores : c[s] = Plus(a[s], b[s])
    PROVE  Everywhere(c) = Everywhere(a) + Everywhere(b)
  <1>1. ASSUME NEW s \in Stores
        PROVE  /\ AtStore(a)[s] \in Int /\ AtStore(b)[s] \in Int
               /\ AtStore(c)[s] = AtStore(a)[s] + AtStore(b)[s]
    BY DEF AtStore, Signed, Plus, Entry
  <1>2. Sum(AtStore(c), Stores) = Sum(AtStore(a), Stores) + Sum(AtStore(b), Stores)
    BY <1>1, FiniteAssumption, SumPlus
  <1> QED BY <1>2, EverywhereType

\* Where each store has none there is none.
LEMMA EverywhereZero ==
    ASSUME NEW rows \in [Stores -> Signed],
           \A s \in Stores : rows[s].onHand + rows[s].inTransit = 0
    PROVE  Everywhere(rows) = 0
  BY FiniteAssumption, SumZero, EverywhereType DEF AtStore

\* An entry at one store.
LEMMA EverywhereAt ==
    ASSUME NEW s \in Stores, NEW e \in Signed
    PROVE  Everywhere(At(s, e)) = e.onHand + e.inTransit
  <1> DEFINE none == [x \in Stores |-> Zero]
  <1>1. none \in [Stores -> Signed] /\ At(s, e) \in [Stores -> Signed]
    BY ZeroType, AtType
  <1>2. Everywhere(none) = 0
    <2>1. \A x \in Stores : none[x].onHand + none[x].inTransit = 0
      BY DEF Zero, Entry
    <2> HIDE DEF none
    <2> QED BY <1>1, <2>1, EverywhereZero
  <1>3. ASSUME NEW x \in Stores
        PROVE  /\ AtStore(none)[x] \in Int /\ AtStore(At(s, e))[x] \in Int
               /\ x # s => AtStore(none)[x] = AtStore(At(s, e))[x]
               /\ AtStore(none)[s] = 0 /\ AtStore(At(s, e))[s] = e.onHand + e.inTransit
    BY DEF AtStore, At, Zero, Entry, Signed
  <1>4. Sum(AtStore(At(s, e)), Stores)
          = Sum(AtStore(none), Stores) + (AtStore(At(s, e))[s] - AtStore(none)[s])
    <2> HIDE DEF none
    <2> QED BY <1>3, FiniteAssumption, SumChange
  <1>5. Everywhere(At(s, e)) = Sum(AtStore(At(s, e)), Stores)
    BY <1>1, EverywhereType
  <1>6. Everywhere(none) = Sum(AtStore(none), Stores)
    <2> HIDE DEF none
    <2> QED BY <1>1, EverywhereType
  <1>7. e.onHand + e.inTransit \in Int
    BY DEF Signed
  <1> QED BY <1>2, <1>3, <1>4, <1>5, <1>6, <1>7

\* Entries at two.
LEMMA EverywhereAt2 ==
    ASSUME NEW s \in Stores, NEW t \in Stores, s # t, NEW e \in Signed, NEW f \in Signed
    PROVE  Everywhere(At2(s, e, t, f)) = e.onHand + e.inTransit + (f.onHand + f.inTransit)
  <1>1. At(s, e) \in [Stores -> Signed] /\ At(t, f) \in [Stores -> Signed]
        /\ At2(s, e, t, f) \in [Stores -> Signed]
    BY AtType, At2Type
  <1>2. \A x \in Stores : At2(s, e, t, f)[x] = Plus(At(s, e)[x], At(t, f)[x])
    BY DEF At2, At, Plus, Zero, Entry, Signed
  <1>3. Everywhere(At2(s, e, t, f)) = Everywhere(At(s, e)) + Everywhere(At(t, f))
    BY <1>1, <1>2, EverywherePlus
  <1> QED BY <1>3, EverywhereAt

\* And the entries that undo others.
LEMMA EverywhereMinus ==
    ASSUME NEW m \in [Stores -> Signed]
    PROVE  /\ [s \in Stores |-> Minus(m[s])] \in [Stores -> Signed]
           /\ Everywhere([s \in Stores |-> Minus(m[s])]) = -Everywhere(m)
  <1> DEFINE n == [s \in Stores |-> Minus(m[s])]
             none == [s \in Stores |-> Zero]
  <1>1. n \in [Stores -> Signed] /\ none \in [Stores -> Signed]
    BY ZeroType DEF Minus, Entry, Signed
  <1>2. \A s \in Stores : none[s] = Plus(m[s], n[s])
    BY DEF Plus, Minus, Zero, Entry, Signed
  <1>3. \A s \in Stores : none[s].onHand + none[s].inTransit = 0
    BY DEF Zero, Entry
  <1> HIDE DEF n, none
  <1>4. Everywhere(none) = 0 /\ Everywhere(none) = Everywhere(m) + Everywhere(n)
    BY <1>1, <1>2, <1>3, EverywhereZero, EverywherePlus
  <1>5. Everywhere(n) = -Everywhere(m) /\ n \in [Stores -> Signed]
    BY <1>1, <1>4, EverywhereType
  <1> QED BY <1>5 DEF n

-----------------------------------------------------------------------------
(* What a posting adds to the sums over the ledger *)

\* Nothing of this type was posted for this source at an item that moves now.
Fresh(source, type, q) == \A t \in ledger : t.source = source /\ t.type = type => q[t.item] = 0

\* The postings of item i after one that moves q[i] of it.
LEMMA PostEnters ==
    ASSUME IInv, FiniteLedger,
           NEW source \in Docs \cup Reservations, NEW type \in TxTypes,
           NEW q \in [Items -> Nat], NEW move \in [Items -> [Stores -> Signed]],
           Post(source, type, q, move), Fresh(source, type, q), NEW i \in Items
    PROVE  \E n :
             /\ n.source = source /\ n.item = i /\ n.type = type /\ n.q = q[i]
             /\ n.move = move[i] /\ n.number = clock /\ n.at \in Stamps
             /\ q[i] > 0 => n \notin ledger
             /\ \A t : t.item = i =>
                   (t \in ledger' <=> (t \in ledger \/ (q[i] > 0 /\ t = n)))
  <1>1. PICK at \in Stamps :
           ledger' = ledger \cup
              {[source |-> source, item |-> j, type |-> type, q |-> q[j],
                move |-> move[j], at |-> at, number |-> clock] : j \in {j \in Items : q[j] > 0}}
    BY DEF Post
  <1> DEFINE tx(j) == [source |-> source, item |-> j, type |-> type, q |-> q[j],
                       move |-> move[j], at |-> at, number |-> clock]
  <1>2. q[i] > 0 => tx(i) \notin ledger
    BY DEF Fresh
  <1>3. ASSUME NEW t, t.item = i
        PROVE  t \in ledger' <=> (t \in ledger \/ (q[i] > 0 /\ t = tx(i)))
    BY <1>1, <1>3
  <1> WITNESS tx(i)
  <1> QED BY <1>2, <1>3

\* A posting keeps the ledger finite: the sums are over finite sets.
LEMMA PostFinite ==
    ASSUME FiniteLedger, NEW source, NEW type, NEW q, NEW move, Post(source, type, q, move)
    PROVE  FiniteLedger'
  <1>1. PICK at \in Stamps :
           ledger' = ledger \cup
              {[source |-> source, item |-> j, type |-> type, q |-> q[j],
                move |-> move[j], at |-> at, number |-> clock] : j \in {j \in Items : q[j] > 0}}
    BY DEF Post
  <1> DEFINE tx(j) == [source |-> source, item |-> j, type |-> type, q |-> q[j],
                       move |-> move[j], at |-> at, number |-> clock]
             moved == {j \in Items : q[j] > 0}
  <1>2. IsFiniteSet(moved)
    BY FiniteAssumption, FS_Subset
  <1>3. IsFiniteSet({tx(j) : j \in moved})
    <2> DEFINE f == [j \in moved |-> tx(j)]
    <2>1. IsFiniteSet({f[j] : j \in moved})
      <3>1. f = [j \in moved |-> f[j]]
        OBVIOUS
      <3> HIDE DEF f, moved
      <3> QED BY <1>2, <3>1, ImageFinite
    <2>2. {f[j] : j \in moved} = {tx(j) : j \in moved}
      OBVIOUS
    <2> QED BY <2>1, <2>2
  <1> QED BY <1>1, <1>3, FS_Union DEF FiniteLedger

\* The quantity of any kind W of the transactions of item i.
LEMMA PostAdds ==
    ASSUME IInv, FiniteLedger,
           NEW source \in Docs \cup Reservations, NEW type \in TxTypes,
           NEW q \in [Items -> Nat], NEW move \in [Items -> [Stores -> Signed]],
           Post(source, type, q, move), Fresh(source, type, q), NEW i \in Items,
           NEW X \in SUBSET ledger, NEW Y \in SUBSET ledger', NEW B \in BOOLEAN,
           \A t \in X \cup Y : t.item = i,
           \A t \in ledger : t \in X <=> t \in Y,
           \A t \in ledger' \ ledger : t.item = i => (t \in Y <=> B)
    PROVE  /\ Quantity(X) \in Nat
           /\ Quantity(Y) = Quantity(X) + IF B THEN q[i] ELSE 0
  <1>1. PICK n :
             /\ n.item = i /\ n.q = q[i]
             /\ q[i] > 0 => n \notin ledger
             /\ \A t : t.item = i =>
                   (t \in ledger' <=> (t \in ledger \/ (q[i] > 0 /\ t = n)))
    BY PostEnters
  <1>2. IsFiniteSet(X) /\ \A t \in X : t.q \in Nat
    BY FS_Subset DEF FiniteLedger, IInv, TypeOK, LedgerType
  <1>3. /\ Quantity(X) \in Nat
        /\ \A m : m \notin X /\ m.q \in Nat => Quantity(X \cup {m}) = Quantity(X) + m.q
    BY <1>2, QuantityGrows
  <1>4. CASE q[i] > 0 /\ B
    BY <1>1, <1>4, <1>3
  <1>5. CASE ~(q[i] > 0 /\ B)
    <2>1. Y = X
      BY <1>1, <1>5
    <2>2. B => q[i] = 0
      BY <1>5
    <2> QED BY <1>3, <2>1, <2>2
  <1> QED BY <1>4, <1>5

\* Totals of a document, of types of transactions and of reversals.
LEMMA PostTotals ==
    ASSUME IInv, FiniteLedger,
           NEW source \in Docs \cup Reservations, NEW type \in TxTypes,
           NEW q \in [Items -> Nat], NEW move \in [Items -> [Stores -> Signed]],
           Post(source, type, q, move), Fresh(source, type, q)
    PROVE  \A i \in Items :
             /\ \A d, ty : /\ Total(d, i, ty) \in Nat
                          /\ Total(d, i, ty)' = Total(d, i, ty)
                                 + IF d = source /\ ty = type THEN q[i] ELSE 0
             /\ \A types : /\ Quantity(OfType(i, types)) \in Nat
                           /\ Quantity(OfType(i, types))' = Quantity(OfType(i, types))
                                 + IF type \in types THEN q[i] ELSE 0
             /\ \A docs : /\ Quantity(Undoing(i, docs)) \in Nat
                          /\ Quantity(Undoing(i, docs))' = Quantity(Undoing(i, docs))
                                 + IF type = "REVERSAL" /\ source \in docs THEN q[i] ELSE 0
  <1> SUFFICES ASSUME NEW i \in Items
               PROVE  /\ \A d, ty : /\ Total(d, i, ty) \in Nat
                                   /\ Total(d, i, ty)' = Total(d, i, ty)
                                        + IF d = source /\ ty = type THEN q[i] ELSE 0
                      /\ \A types : /\ Quantity(OfType(i, types)) \in Nat
                                    /\ Quantity(OfType(i, types))' = Quantity(OfType(i, types))
                                         + IF type \in types THEN q[i] ELSE 0
                      /\ \A docs : /\ Quantity(Undoing(i, docs)) \in Nat
                                   /\ Quantity(Undoing(i, docs))' = Quantity(Undoing(i, docs))
                                         + IF type = "REVERSAL" /\ source \in docs THEN q[i] ELSE 0
    OBVIOUS
  <1>1. /\ ledger \subseteq ledger'
        /\ \A t \in ledger' \ ledger : t.source = source /\ t.type = type
    BY PostKeeps DEF IInv, Fresh
  <1>2. ASSUME NEW d, NEW ty
        PROVE  /\ Total(d, i, ty) \in Nat
               /\ Total(d, i, ty)' = Total(d, i, ty) + IF d = source /\ ty = type THEN q[i] ELSE 0
    <2> DEFINE X == {t \in ledger : t.source = d /\ t.item = i /\ t.type = ty}
               Y == {t \in ledger' : t.source = d /\ t.item = i /\ t.type = ty}
               B == d = source /\ ty = type
    <2>1. /\ X \in SUBSET ledger /\ Y \in SUBSET ledger' /\ B \in BOOLEAN
          /\ \A t \in X \cup Y : t.item = i
          /\ \A t \in ledger : t \in X <=> t \in Y
          /\ \A t \in ledger' \ ledger : t.item = i => (t \in Y <=> B)
      BY <1>1
    <2>2. Total(d, i, ty) = Quantity(X) /\ Total(d, i, ty)' = Quantity(Y)
      BY DEF Total, Quantity
    <2> HIDE DEF X, Y, B
    <2>3. Quantity(X) \in Nat /\ Quantity(Y) = Quantity(X) + IF B THEN q[i] ELSE 0
      BY <2>1, PostAdds
    <2> QED BY <2>2, <2>3 DEF B
  <1>3. ASSUME NEW types
        PROVE  /\ Quantity(OfType(i, types)) \in Nat
               /\ Quantity(OfType(i, types))' = Quantity(OfType(i, types))
                    + IF type \in types THEN q[i] ELSE 0
    <2> DEFINE X == {t \in ledger : t.item = i /\ t.type \in types}
               Y == {t \in ledger' : t.item = i /\ t.type \in types}
               B == type \in types
    <2>1. /\ X \in SUBSET ledger /\ Y \in SUBSET ledger' /\ B \in BOOLEAN
          /\ \A t \in X \cup Y : t.item = i
          /\ \A t \in ledger : t \in X <=> t \in Y
          /\ \A t \in ledger' \ ledger : t.item = i => (t \in Y <=> B)
      BY <1>1
    <2>2. Quantity(OfType(i, types)) = Quantity(X) /\ Quantity(OfType(i, types))' = Quantity(Y)
      BY DEF OfType, Quantity
    <2> HIDE DEF X, Y, B
    <2>3. Quantity(X) \in Nat /\ Quantity(Y) = Quantity(X) + IF B THEN q[i] ELSE 0
      BY <2>1, PostAdds
    <2> QED BY <2>2, <2>3 DEF B
  <1>4. ASSUME NEW docs
        PROVE  /\ Quantity(Undoing(i, docs)) \in Nat
               /\ Quantity(Undoing(i, docs))' = Quantity(Undoing(i, docs))
                    + IF type = "REVERSAL" /\ source \in docs THEN q[i] ELSE 0
    <2> DEFINE X == {t \in ledger : t.item = i /\ t.type = "REVERSAL" /\ t.source \in docs}
               Y == {t \in ledger' : t.item = i /\ t.type = "REVERSAL" /\ t.source \in docs}
               B == type = "REVERSAL" /\ source \in docs
    <2>1. /\ X \in SUBSET ledger /\ Y \in SUBSET ledger' /\ B \in BOOLEAN
          /\ \A t \in X \cup Y : t.item = i
          /\ \A t \in ledger : t \in X <=> t \in Y
          /\ \A t \in ledger' \ ledger : t.item = i => (t \in Y <=> B)
      BY <1>1
    <2>2. Quantity(Undoing(i, docs)) = Quantity(X) /\ Quantity(Undoing(i, docs))' = Quantity(Y)
      BY DEF Undoing, Quantity
    <2> HIDE DEF X, Y, B
    <2>3. Quantity(X) \in Nat /\ Quantity(Y) = Quantity(X) + IF B THEN q[i] ELSE 0
      BY <2>1, PostAdds
    <2> QED BY <2>2, <2>3 DEF B
  <1> QED BY <1>2, <1>3, <1>4

\* A posting is booked as it changes the balance.
LEMMA PostReconciled ==
    ASSUME IInv, FiniteLedger, Reconciled,
           NEW source \in Docs \cup Reservations, NEW type \in TxTypes,
           NEW q \in [Items -> Nat], NEW move \in [Items -> [Stores -> Signed]],
           Post(source, type, q, move), Fresh(source, type, q)
    PROVE  Reconciled'
  <1> SUFFICES ASSUME NEW i \in Items, NEW s \in Stores
               PROVE  bal'[i][s] = Booked({t \in ledger' : t.item = i}, s)
    BY DEF Reconciled, Booked
  <1> DEFINE X == {t \in ledger : t.item = i}
             Y == {t \in ledger' : t.item = i}
  <1>1. PICK n :
             /\ n.item = i /\ n.move = move[i]
             /\ q[i] > 0 => n \notin ledger
             /\ \A t : t.item = i =>
                   (t \in ledger' <=> (t \in ledger \/ (q[i] > 0 /\ t = n)))
    BY PostEnters
  <1>2. bal[i][s] \in Counted
        /\ bal'[i][s] = Plus(bal[i][s], IF q[i] > 0 THEN move[i][s] ELSE Zero)
    BY DEF Post, Effect, IInv, TypeOK, BalType
  <1>3. bal[i][s] = Booked(X, s)
    BY DEF Reconciled
  <1>4. ASSUME q[i] > 0 PROVE bal'[i][s] = Booked(Y, s)
    <2>1. Y = X \cup {n} /\ n \notin X
      BY <1>1, <1>4
    <2>2. IsFiniteSet(X) /\ \A t \in X : t.move \in [Stores -> Signed]
      BY FS_Subset DEF FiniteLedger, IInv, TypeOK, LedgerType
    <2>3. n.move \in [Stores -> Signed]
      BY <1>1
    <2> HIDE DEF X, Y
    <2>5. bal'[i][s] = Plus(bal[i][s], n.move[s])
      BY <1>1, <1>2, <1>4
    <2>4. Booked(X \cup {n}, s) = Plus(Booked(X, s), n.move[s])
      BY <2>1, <2>2, <2>3, BookedGrows
    <2> QED BY <1>3, <2>1, <2>4, <2>5
  <1>5. ASSUME ~(q[i] > 0) PROVE bal'[i][s] = Booked(Y, s)
    <2>1. Y = X
      BY <1>1, <1>5
    <2> HIDE DEF X, Y
    <2>2. bal'[i][s] = bal[i][s]
      BY <1>2, <1>5, PlusZero
    <2> QED BY <1>3, <2>1, <2>2
  <1> QED BY <1>4, <1>5

\* What stock counts corrected of item i.
Corrected(i) == Sum([t \in OfType(i, {"STOCK_COUNT_ADJUSTMENT"}) |-> Everywhere(t.move)],
                    OfType(i, {"STOCK_COUNT_ADJUSTMENT"}))

\* And as much is at all the stores together as moved.
LEMMA PostEverywhere ==
    ASSUME IInv, FiniteLedger,
           NEW source \in Docs \cup Reservations, NEW type \in TxTypes,
           NEW q \in [Items -> Nat], NEW move \in [Items -> [Stores -> Signed]],
           Post(source, type, q, move), Fresh(source, type, q), NEW i \in Items
    PROVE  /\ Everywhere(bal[i]) \in Int /\ Corrected(i) \in Int /\ Everywhere(move[i]) \in Int
           /\ Everywhere(bal[i])' = Everywhere(bal[i]) + IF q[i] > 0 THEN Everywhere(move[i]) ELSE 0
           /\ Corrected(i)' = Corrected(i) + IF q[i] > 0 /\ type = "STOCK_COUNT_ADJUSTMENT"
                                              THEN Everywhere(move[i]) ELSE 0
  <1>1. /\ bal[i] \in [Stores -> Signed] /\ move[i] \in [Stores -> Signed]
        /\ bal'[i] \in [Stores -> Signed]
        /\ \A s \in Stores : bal'[i][s] = Plus(bal[i][s], IF q[i] > 0 THEN move[i][s] ELSE Zero)
    <2>1. bal' \in [Items -> [Stores -> Counted]]
      BY PostKeeps DEF IInv, Fresh
    <2>2. bal \in [Items -> [Stores -> Counted]] /\ Counted \subseteq Signed
      BY DEF Counted, Signed, IInv, TypeOK, BalType
    <2> QED BY <2>1, <2>2 DEF Post, Effect
  <1>2. Everywhere(bal'[i]) = Everywhere(bal[i]) + IF q[i] > 0 THEN Everywhere(move[i]) ELSE 0
    <2>1. CASE q[i] > 0
      BY <1>1, <2>1, EverywherePlus
    <2>2. CASE ~(q[i] > 0)
      <3>1. \A s \in Stores : bal'[i][s] = bal[i][s]
        BY <1>1, <2>2, PlusZero DEF IInv, TypeOK, BalType
      <3>2. bal'[i] = bal[i]
        BY <1>1, <3>1
      <3> QED BY <1>1, <2>2, <3>2, EverywhereType
    <2> QED BY <2>1, <2>2
  <1>3. Everywhere(bal[i])' = Everywhere(bal'[i])
    BY DEF Everywhere
  <1> DEFINE X == {t \in ledger : t.item = i /\ t.type = "STOCK_COUNT_ADJUSTMENT"}
             Y == {t \in ledger' : t.item = i /\ t.type = "STOCK_COUNT_ADJUSTMENT"}
             f == [t \in X |-> Everywhere(t.move)]
             g == [t \in Y |-> Everywhere(t.move)]
  <1>4. Corrected(i) = Sum(f, X) /\ Corrected(i)' = Sum(g, Y)
    BY DEF OfType, Corrected, Everywhere
  <1>5. IsFiniteSet(X) /\ \A t \in X : t.move \in [Stores -> Signed]
    BY FS_Subset DEF FiniteLedger, IInv, TypeOK, LedgerType
  <1>6. f \in [X -> Int]
    BY <1>5, EverywhereType
  <1>7. PICK n :
             /\ n.item = i /\ n.move = move[i] /\ n.type = type
             /\ q[i] > 0 => n \notin ledger
             /\ \A t : t.item = i =>
                   (t \in ledger' <=> (t \in ledger \/ (q[i] > 0 /\ t = n)))
    BY PostEnters
  <1>8. CASE q[i] > 0 /\ type = "STOCK_COUNT_ADJUSTMENT"
    <2>1. Y = X \cup {n} /\ n \notin X
      BY <1>7, <1>8
    <2>2. g \in [X \cup {n} -> Int] /\ g[n] = Everywhere(move[i]) /\ \A t \in X : f[t] = g[t]
      BY <1>1, <1>5, <1>7, <2>1, EverywhereType
    <2> HIDE DEF X, Y, f, g
    <2>3. Sum(f, X) \in Int /\ Sum(g, X \cup {n}) = Sum(f, X) + g[n]
      BY <1>5, <1>6, <2>1, <2>2, SumType, SumExtend
    <2>4. Everywhere(bal[i]) \in Int /\ Everywhere(move[i]) \in Int
      BY <1>1, EverywhereType
    <2> QED BY <1>2, <1>3, <1>4, <1>8, <2>1, <2>2, <2>3, <2>4
  <1>9. CASE ~(q[i] > 0 /\ type = "STOCK_COUNT_ADJUSTMENT")
    <2>1. Y = X
      BY <1>7, <1>9
    <2>2. g = f
      BY <2>1
    <2> HIDE DEF X, Y, f, g
    <2>3. Sum(f, X) \in Int
      BY <1>5, <1>6, SumType
    <2> QED BY <1>1, <1>2, <1>3, <1>4, <1>9, <2>1, <2>2, <2>3, EverywhereType
  <1> QED BY <1>8, <1>9

-----------------------------------------------------------------------------
(***************************************************************************)
(* The inductive invariant, beyond IInv: what every transaction says of its *)
(* source, and the sums themselves.                                         *)
(***************************************************************************)

\* A document has a line, a transfer two stores.
LinesGiven ==
    \A d \in Docs : doc[d].status # "NONE" =>
        /\ \E i \in Items : doc[d].lines[i] > 0
        /\ d \in Transfers => /\ doc[d].head.toStore \in Stores
                              /\ doc[d].head.toStore # doc[d].head.store

\* The entries of the transactions that can be undone or come back.
IssueEntry(d, n) == Entry(-n, IF doc[d].head.reservation = NULL THEN 0 ELSE -n, 0, 0)

AsIssued(t) ==
    t.type = "ISSUE" =>
        /\ t.source \in Issues
        /\ \E s \in Stores : t.move = At(s, IssueEntry(t.source, t.q))
        /\ LET r == doc[t.source].head.reservation IN r # NULL => rsv[r].status # "NONE"

AsReceived(t) ==
    t.type = "OTHER_RECEIPT" =>
        t.source \in Receipts /\ \E s \in Stores : t.move = At(s, Entry(t.q, 0, 0, 0))

AsReturned(t) ==
    t.type = "RETURN_FROM_EMPLOYEE" =>
        LET o == doc[t.source].head.original
        IN  t.source \in Returns /\ o \in Issues /\ doc[o].status = "POSTED"

AsReversed(t) ==
    t.type = "REVERSAL" =>
        t.source \in Issues \cup Receipts /\ doc[t.source].status = "POSTED"

Recorded == \A t \in ledger : AsIssued(t) /\ AsReceived(t) /\ AsReturned(t) /\ AsReversed(t)

\* Custody of an issue starts when it is posted, with what it moved.
HeldAsIssued ==
    \A d \in Issues :
        IF doc[d].status = "POSTED"
        THEN \A i \in Items : custody[d].held[i] > 0 => custody[d].held[i] = Total(d, i, "ISSUE")
        ELSE custody[d] = [held |-> NoLines, back |-> NoLines]

\* A reservation is of an item at a store.
ReservesItem ==
    \A r \in Reservations : rsv[r].status # "NONE" => rsv[r].item \in Items /\ rsv[r].store \in Stores

BInv ==
    /\ IInv /\ FiniteLedger /\ LinesGiven /\ ReservesItem /\ Recorded /\ HeldAsIssued
    /\ Reconciled /\ ReservedIsPromised /\ TransitIsUnderway /\ Conserved
    /\ RequestsBalance /\ ReservationsBalance /\ CustodyBalances

-----------------------------------------------------------------------------
(* Totals across one step *)

\* What one step adds to the totals: q under type for source.
Adds(source, type, q) ==
    \A i \in Items, d \in Docs : \A ty :
        Total(d, i, ty)' = Total(d, i, ty) + IF d = source /\ ty = type THEN q[i] ELSE 0

\* Only what is posted has issued or returned anything.
LEMMA TotalOfPosted ==
    ASSUME IInv, FiniteLedger, NEW d \in Docs, NEW i \in Items,
           NEW ty \in {"ISSUE", "RETURN_FROM_EMPLOYEE"}
    PROVE  Total(d, i, ty) \in Nat /\ (Total(d, i, ty) # 0 => doc[d].status = "POSTED")
  <1> DEFINE X == {t \in ledger : t.source = d /\ t.item = i /\ t.type = ty}
  <1>1. IsFiniteSet(X) /\ \A t \in X : t.q \in Nat
    BY FS_Subset DEF FiniteLedger, IInv, TypeOK, LedgerType
  <1>2. Total(d, i, ty) = Quantity(X)
    BY DEF Total
  <1>3. X # {} => doc[d].status = "POSTED"
    BY DEF IInv, SourcesLeft, Left
  <1>4. X = {} => Quantity(X) = 0
    BY SumEmpty DEF Quantity
  <1> HIDE DEF X
  <1> QED BY <1>1, <1>2, <1>3, <1>4, QuantityGrows

\* f and g are the totals under ty, before and after the step, of the documents of
\* the kind S that name something: T before, U after.
Naming(source, q, ty, i, S, T, U, f, g) ==
    /\ q \in [Items -> Nat] /\ i \in Items /\ ty \in {"ISSUE", "RETURN_FROM_EMPLOYEE"}
    /\ S \in SUBSET Docs /\ T \in SUBSET S /\ U \in SUBSET S
    /\ \A d \in S : doc'[d].head = doc[d].head => (d \in T <=> d \in U)
    /\ source \in S => doc'[source].head = doc[source].head
    /\ \A d \in T : f[d] = Total(d, i, ty)
    /\ \A d \in U : g[d] = Total(d, i, ty)'

\* A step adds to the documents that name something what it adds to the one it
\* posts, although drafts may change what they name.
LEMMA NamedTotals ==
    ASSUME IInv, FiniteLedger, FinalStep, NEW source, NEW type, NEW q, Adds(source, type, q),
           NEW ty, NEW S, NEW T, NEW U, NEW i, NEW f, NEW g,
           Naming(source, q, ty, i, S, T, U, f, g)
    PROVE  /\ Sum(f, T) \in Nat
           /\ Sum(g, U) = Sum(f, T) + IF source \in T /\ type = ty THEN q[i] ELSE 0
  <1>0. /\ q \in [Items -> Nat] /\ i \in Items /\ ty \in {"ISSUE", "RETURN_FROM_EMPLOYEE"}
        /\ S \in SUBSET Docs /\ T \in SUBSET S /\ U \in SUBSET S
        /\ \A d \in S : doc'[d].head = doc[d].head => (d \in T <=> d \in U)
        /\ source \in S => doc'[source].head = doc[source].head
        /\ \A d \in T : f[d] = Total(d, i, ty)
        /\ \A d \in U : g[d] = Total(d, i, ty)'
    BY DEF Naming
  <1> DEFINE add(d) == IF d = source /\ type = ty THEN q[i] ELSE 0
  <1>1. IsFiniteSet(S) /\ IsFiniteSet(T)
    BY <1>0, FiniteAssumption, FS_Subset
  <1>2. ASSUME NEW d \in S
        PROVE  /\ Total(d, i, ty) \in Nat /\ q[i] \in Nat
               /\ Total(d, i, ty)' = Total(d, i, ty) + add(d)
               /\ Total(d, i, ty) # 0 => (d \in T <=> d \in U)
    BY <1>0, TotalOfPosted DEF FinalStep, Adds
  <1>3. /\ \A d \in T : f[d] \in Nat /\ f[d] = Total(d, i, ty)
        /\ \A d \in U : g[d] \in Nat /\ g[d] = Total(d, i, ty) + add(d)
    BY <1>0, <1>2
  <1>4. Sum(f, T) \in Nat
    BY <1>1, <1>3, SumNat
  <1>5. CASE source \in S /\ type = ty
    <2>1. source \in T <=> source \in U
      BY <1>0, <1>5
    <2>2. \A d \in S : d # source =>
             (IF d \in T THEN f[d] ELSE 0) = (IF d \in U THEN g[d] ELSE 0)
      BY <1>2, <1>0
    <2>3. /\ \A x \in T : f[x] \in Int
          /\ \A x \in U : g[x] \in Int
          /\ source \in T => f[source] \in Nat /\ g[source] = f[source] + q[i]
      BY <1>0, <1>2, <1>3, <1>5, <2>1
    <2> HIDE DEF add
    <2>4. Sum(g, U) = Sum(f, T) + ((IF source \in U THEN g[source] ELSE 0)
                                     - (IF source \in T THEN f[source] ELSE 0))
      BY <1>0, <1>1, <1>5, <2>2, <2>3, SumMoves
    <2>5. q[i] \in Nat
      BY <1>0
    <2>6. Sum(g, U) = Sum(f, T) + IF source \in T THEN q[i] ELSE 0
      BY <1>4, <2>1, <2>3, <2>4, <2>5
    <2> QED BY <1>4, <1>5, <2>6
  <1>6. CASE ~(source \in S /\ type = ty)
    <2>1. \A d \in S : (IF d \in T THEN f[d] ELSE 0) = (IF d \in U THEN g[d] ELSE 0)
      BY <1>2, <1>6, <1>0
    <2>2. (\A x \in T : f[x] \in Int) /\ (\A x \in U : g[x] \in Int)
      BY <1>3
    <2>3. ~(source \in T /\ type = ty)
      BY <1>0, <1>6
    <2> HIDE DEF add
    <2>4. Sum(g, U) = Sum(f, T)
      BY <1>0, <1>1, <2>1, <2>2, SumStays
    <2> QED BY <1>4, <2>3, <2>4
  <1> QED BY <1>5, <1>6

\* A request line counts what is posted, and the status of the request says how
\* far it got.
AskedFollows(source, type, q) ==
    \A a \in Requests, i \in Items :
       asked'[a].issued[i] = asked[a].issued[i]
          + IF source \in Issues /\ doc[source].head.request = a /\ type = "ISSUE"
            THEN q[i] ELSE 0

ServedStatus ==
    \A a \in Requests :
       /\ doc[a].status = "FULFILLED" => asked[a].issued = asked[a].approved
       /\ doc[a].status = "PARTIALLY_ISSUED" => asked[a].issued \notin {asked[a].approved, NoLines}

\* The request lines, whatever drafts and postings name the request.
LEMMA RequestsKeep ==
    ASSUME BInv, IInv', FinalStep, NEW source, NEW type, NEW q \in [Items -> Nat],
           Adds(source, type, q), source \in Docs => doc'[source].head = doc[source].head,
           AskedFollows(source, type, q), ServedStatus'
    PROVE  RequestsBalance'
  <1> SUFFICES ASSUME NEW a \in Requests, NEW i \in Items
               PROVE  /\ asked'[a].issued[i]
                           = Sum([d \in {d \in Issues : doc'[d].head.request = a} |->
                                    Total(d, i, "ISSUE")'],
                                 {d \in Issues : doc'[d].head.request = a})
                      /\ asked'[a].issued[i] <= asked'[a].approved[i]
    BY DEF RequestsBalance, Total, Quantity, ServedStatus
  <1> DEFINE T == {d \in Issues : doc[d].head.request = a}
             U == {d \in Issues : doc'[d].head.request = a}
  <1>1. /\ Issues \in SUBSET Docs /\ T \in SUBSET Issues /\ U \in SUBSET Issues
        /\ \A d \in Issues : doc'[d].head = doc[d].head => (d \in T <=> d \in U)
        /\ source \in Issues => doc'[source].head = doc[source].head
        /\ source \in T <=> source \in Issues /\ doc[source].head.request = a
    BY DEF Docs
  <1>2. asked[a].issued[i] = Sum([d \in T |-> Total(d, i, "ISSUE")], T)
    BY DEF BInv, RequestsBalance
  <1>3. asked'[a].issued[i] = asked[a].issued[i] + IF source \in T /\ type = "ISSUE" THEN q[i] ELSE 0
    BY <1>1 DEF AskedFollows
  <1>4. asked'[a].issued[i] <= asked'[a].approved[i]
    BY DEF IInv, WithinApproved
  <1> DEFINE f == [d \in T |-> Total(d, i, "ISSUE")]
             g == [d \in U |-> Total(d, i, "ISSUE")']
  <1>5. Sum(g, U) = Sum(f, T) + IF source \in T /\ type = "ISSUE" THEN q[i] ELSE 0
    <2>1. (\A d \in T : f[d] = Total(d, i, "ISSUE")) /\ (\A d \in U : g[d] = Total(d, i, "ISSUE")')
      OBVIOUS
    <2>2. Naming(source, q, "ISSUE", i, Issues, T, U, f, g)
      <3> HIDE DEF T, U, f, g
      <3> QED BY <1>1, <2>1 DEF Naming
    <2> HIDE DEF T, U, f, g
    <2> QED BY <2>2, NamedTotals DEF BInv
  <1> QED BY <1>2, <1>3, <1>4, <1>5

\* The same for reservations, where a row may also be new.
DoneFollows(source, type, q) ==
    \A r \in Reservations :
       \/ /\ rsv[r].status # "NONE" /\ rsv'[r].item = rsv[r].item
          /\ rsv'[r].done = rsv[r].done
               + IF source \in Issues /\ doc[source].head.reservation = r /\ type = "ISSUE"
                 THEN q[rsv[r].item] ELSE 0
       \/ rsv[r].status = "NONE" /\ rsv'[r].done = 0 /\ type # "ISSUE"
       \/ rsv'[r].status = "NONE"

DoneStatus ==
    \A r \in Reservations : rsv[r].status # "NONE" =>
       rsv[r].status = "FULFILLED" <=> rsv[r].done = rsv[r].q

\* The reservations, likewise.
LEMMA ReservationsKeep ==
    ASSUME BInv, IInv', FinalStep, NEW source, NEW type, NEW q \in [Items -> Nat],
           Adds(source, type, q), source \in Docs => doc'[source].head = doc[source].head,
           DoneFollows(source, type, q), DoneStatus', ReservesItem'
    PROVE  ReservationsBalance'
  <1> SUFFICES ASSUME NEW r \in Reservations, rsv'[r].status # "NONE",
                      NEW i \in Items, i = rsv'[r].item
               PROVE  rsv'[r].done
                           = Sum([d \in {d \in Issues : doc'[d].head.reservation = r} |->
                                    Total(d, i, "ISSUE")'],
                                 {d \in Issues : doc'[d].head.reservation = r})
    BY DEF IInv, WithinReserved, ReservationsBalance, Total, Quantity, DoneStatus,
       ReservesItem
  <1> DEFINE T == {d \in Issues : doc[d].head.reservation = r}
             U == {d \in Issues : doc'[d].head.reservation = r}
  <1>1. /\ Issues \in SUBSET Docs /\ T \in SUBSET Issues /\ U \in SUBSET Issues
        /\ \A d \in Issues : doc'[d].head = doc[d].head => (d \in T <=> d \in U)
        /\ source \in Issues => doc'[source].head = doc[source].head
        /\ source \in T <=> source \in Issues /\ doc[source].head.reservation = r
    BY DEF Docs
  <1> SUFFICES rsv'[r].done = Sum([d \in U |-> Total(d, i, "ISSUE")'], U)
    OBVIOUS
  <1> DEFINE f == [d \in T |-> Total(d, i, "ISSUE")]
             g == [d \in U |-> Total(d, i, "ISSUE")']
  <1>3. /\ Sum(f, T) \in Nat
        /\ Sum(g, U) = Sum(f, T) + IF source \in T /\ type = "ISSUE" THEN q[i] ELSE 0
    <2>1. (\A d \in T : f[d] = Total(d, i, "ISSUE")) /\ (\A d \in U : g[d] = Total(d, i, "ISSUE")')
      OBVIOUS
    <2>2. Naming(source, q, "ISSUE", i, Issues, T, U, f, g)
      <3> HIDE DEF T, U, f, g
      <3> QED BY <1>1, <2>1 DEF Naming
    <2> HIDE DEF T, U, f, g
    <2> QED BY <2>2, NamedTotals DEF BInv
  <1>4. CASE rsv[r].status # "NONE" /\ rsv'[r].item = rsv[r].item
             /\ rsv'[r].done = rsv[r].done
                      + IF source \in Issues /\ doc[source].head.reservation = r /\ type = "ISSUE"
                        THEN q[rsv[r].item] ELSE 0
    <2>1. rsv[r].done = Sum(f, T)
      BY <1>4 DEF BInv, ReservationsBalance
    <2>2. rsv'[r].done = rsv[r].done + IF source \in T /\ type = "ISSUE" THEN q[i] ELSE 0
      BY <1>1, <1>4
    <2> HIDE DEF T, f
    <2>3. rsv'[r].done = Sum(g, U)
      BY <1>3, <2>1, <2>2
    <2> QED BY <2>3
  <1>5. CASE rsv[r].status = "NONE" /\ rsv'[r].done = 0 /\ type # "ISSUE"
    <2>1. \A d \in T : Total(d, i, "ISSUE") = 0
      <3> SUFFICES ASSUME NEW d \in T PROVE Total(d, i, "ISSUE") = 0
        OBVIOUS
      <3>1. \A t \in ledger : ~(t.source = d /\ t.item = i /\ t.type = "ISSUE")
        BY <1>5, NullAssumption DEF BInv, Recorded, AsIssued
      <3>2. {t \in ledger : t.source = d /\ t.item = i /\ t.type = "ISSUE"} = {}
        BY <3>1
      <3> QED BY <3>2, SumEmpty DEF Total, Quantity
    <2>2. IsFiniteSet(T)
      BY <1>1, FiniteAssumption, FS_Subset
    <2>3. \A d \in T : f[d] = 0
      BY <2>1
    <2>4. Sum(f, T) = 0
      <3> HIDE DEF f, T
      <3> QED BY <2>2, <2>3, SumZero
    <2>5. Sum(g, U) = 0
      <3> HIDE DEF T, f
      <3> QED BY <1>3, <1>5, <2>4
    <2> QED BY <1>5, <2>5
  <1> QED BY <1>4, <1>5 DEF DoneFollows

\* What the returns of an issue brought back.
LEMMA PriorAdds ==
    ASSUME IInv, FiniteLedger, FinalStep, NEW source, NEW type, NEW q \in [Items -> Nat],
           Adds(source, type, q), source \in Docs => doc'[source].head = doc[source].head,
           NEW o \in Issues, NEW i \in Items
    PROVE  /\ Prior(o, i) \in Nat
           /\ Prior(o, i)' = Prior(o, i)
                + IF source \in Returns /\ doc[source].head.original = o
                     /\ type = "RETURN_FROM_EMPLOYEE"
                  THEN q[i] ELSE 0
  <1> DEFINE T == {d \in Returns : doc[d].head.original = o}
             U == {d \in Returns : doc'[d].head.original = o}
  <1>1. /\ Returns \in SUBSET Docs /\ T \in SUBSET Returns /\ U \in SUBSET Returns
        /\ \A d \in Returns : doc'[d].head = doc[d].head => (d \in T <=> d \in U)
        /\ source \in Returns => doc'[source].head = doc[source].head
        /\ source \in T <=> source \in Returns /\ doc[source].head.original = o
    BY DEF Docs
  <1>2. /\ Prior(o, i) = Sum([d \in T |-> Total(d, i, "RETURN_FROM_EMPLOYEE")], T)
        /\ Prior(o, i)' = Sum([d \in U |-> Total(d, i, "RETURN_FROM_EMPLOYEE")'], U)
    BY DEF Prior, ReturnsOf, Total, Quantity
  <1> DEFINE f == [d \in T |-> Total(d, i, "RETURN_FROM_EMPLOYEE")]
             g == [d \in U |-> Total(d, i, "RETURN_FROM_EMPLOYEE")']
  <1>3. /\ Sum(f, T) \in Nat
        /\ Sum(g, U) = Sum(f, T) + IF source \in T /\ type = "RETURN_FROM_EMPLOYEE" THEN q[i] ELSE 0
    <2>1. /\ \A d \in T : f[d] = Total(d, i, "RETURN_FROM_EMPLOYEE")
          /\ \A d \in U : g[d] = Total(d, i, "RETURN_FROM_EMPLOYEE")'
      OBVIOUS
    <2>2. Naming(source, q, "RETURN_FROM_EMPLOYEE", i, Returns, T, U, f, g)
      <3> HIDE DEF T, U, f, g
      <3> QED BY <1>1, <2>1 DEF Naming
    <2> HIDE DEF T, U, f, g
    <2> QED BY <2>2, NamedTotals
  <1> QED BY <1>1, <1>2, <1>3

-----------------------------------------------------------------------------
(* Balances across one step *)

\* A posting changes a balance by what its entry for the item says.
LEMMA BalanceMoves ==
    ASSUME IInv, NEW source, NEW type, NEW q \in [Items -> Nat],
           NEW move \in [Items -> [Stores -> Signed]], Post(source, type, q, move),
           NEW i \in Items, NEW s \in Stores
    PROVE  /\ bal[i][s] \in Counted /\ move[i][s] \in Signed
           /\ bal'[i][s].reserved
                = bal[i][s].reserved + IF q[i] > 0 THEN move[i][s].reserved ELSE 0
           /\ bal'[i][s].inTransit
                = bal[i][s].inTransit + IF q[i] > 0 THEN move[i][s].inTransit ELSE 0
           /\ bal'[i][s].onHand
                = bal[i][s].onHand + IF q[i] > 0 THEN move[i][s].onHand ELSE 0
  <1> DEFINE e == IF q[i] > 0 THEN move[i][s] ELSE Zero
  <1>1. bal[i][s] \in Counted /\ move[i][s] \in Signed /\ e \in Signed
    BY ZeroType DEF IInv, TypeOK, BalType
  <1>2. bal'[i][s] = Plus(bal[i][s], e)
    BY DEF Post, Effect
  <1>3. /\ bal'[i][s].reserved = bal[i][s].reserved + e.reserved
        /\ bal'[i][s].inTransit = bal[i][s].inTransit + e.inTransit
        /\ bal'[i][s].onHand = bal[i][s].onHand + e.onHand
    BY <1>2 DEF Plus, Entry
  <1>4. CASE q[i] > 0
    BY <1>1, <1>3, <1>4
  <1>5. CASE ~(q[i] > 0)
    BY <1>1, <1>3, <1>5 DEF Zero, Entry
  <1> QED BY <1>4, <1>5

\* What reservation r still promises of a bucket, and the reservations that do.
Open(r, i, s) == rsv[r].status = "ACTIVE" /\ rsv[r].item = i /\ rsv[r].store = s
Promise(r, i, s) == IF Open(r, i, s) THEN rsv[r].q - rsv[r].done ELSE 0

\* A bucket whose reserved quantity moves as the promise of one reservation does.
LEMMA PromisesMove ==
    ASSUME BInv, IInv', NEW r \in Reservations, \A e \in Reservations : e # r => rsv'[e] = rsv[e],
           NEW i \in Items, NEW s \in Stores,
           bal'[i][s].reserved = bal[i][s].reserved + (Promise(r, i, s)' - Promise(r, i, s))
    PROVE  bal'[i][s].reserved
              = Sum([e \in {e \in Reservations : Open(e, i, s)'} |-> rsv'[e].q - rsv'[e].done],
                    {e \in Reservations : Open(e, i, s)'})
  <1> DEFINE T == {e \in Reservations : Open(e, i, s)}
             U == {e \in Reservations : Open(e, i, s)'}
             f == [e \in T |-> rsv[e].q - rsv[e].done]
             g == [e \in U |-> rsv'[e].q - rsv'[e].done]
  <1>1. bal[i][s].reserved = Sum(f, T)
    BY DEF Open, BInv, ReservedIsPromised
  <1>2. /\ \A e \in Reservations : /\ rsv[e].q - rsv[e].done \in Int
                                   /\ rsv'[e].q - rsv'[e].done \in Int
    BY QtyAssumption DEF BInv, IInv, TypeOK, RsvType, Qty
  <1>3. /\ T \in SUBSET Reservations /\ U \in SUBSET Reservations
        /\ \A e \in T : f[e] \in Int
        /\ \A e \in U : g[e] \in Int
        /\ \A e \in Reservations : e # r =>
              (IF e \in T THEN f[e] ELSE 0) = (IF e \in U THEN g[e] ELSE 0)
    BY <1>2 DEF Open
  <1>4. /\ Promise(r, i, s) = IF r \in T THEN f[r] ELSE 0
        /\ Promise(r, i, s)' = IF r \in U THEN g[r] ELSE 0
    BY DEF Promise, Open
  <1>5. Sum(g, U) = Sum(f, T) + ((IF r \in U THEN g[r] ELSE 0) - (IF r \in T THEN f[r] ELSE 0))
    <2> HIDE DEF T, U, f, g
    <2> QED BY <1>3, FiniteAssumption, SumMoves
  <1>6. bal'[i][s].reserved = Sum(g, U)
    <2> HIDE DEF T, U, f, g
    <2> QED BY <1>1, <1>4, <1>5
  <1> QED BY <1>6

\* What transfer d has under way from a store.
Underway(d, s) == doc[d].status = "IN_TRANSIT" /\ doc[d].head.store = s
Carried(d, i, s) == IF Underway(d, s) THEN doc[d].lines[i] ELSE 0

\* A bucket whose quantity in transit moves as what one transfer carries does.
LEMMA TransitMoves ==
    ASSUME BInv, IInv', NEW d \in Transfers,
           \A e \in Transfers : e # d => \A s \in Stores, i \in Items : Carried(e, i, s)' = Carried(e, i, s),
           NEW i \in Items, NEW s \in Stores,
           bal'[i][s].inTransit = bal[i][s].inTransit + (Carried(d, i, s)' - Carried(d, i, s))
    PROVE  bal'[i][s].inTransit
              = Sum([e \in {e \in Transfers : Underway(e, s)'} |-> doc'[e].lines[i]],
                    {e \in Transfers : Underway(e, s)'})
  <1> DEFINE T == {e \in Transfers : Underway(e, s)}
             U == {e \in Transfers : Underway(e, s)'}
             f == [e \in T |-> doc[e].lines[i]]
             g == [e \in U |-> doc'[e].lines[i]]
  <1>1. bal[i][s].inTransit = Sum(f, T)
    BY DEF Underway, BInv, TransitIsUnderway
  <1>2. \A e \in Transfers : doc[e].lines[i] \in Int /\ doc'[e].lines[i] \in Int
    BY QtyAssumption DEF BInv, IInv, TypeOK, DocType, Lines, Qty, Docs
  <1>3. /\ T \in SUBSET Transfers /\ U \in SUBSET Transfers
        /\ \A e \in T : f[e] \in Int
        /\ \A e \in U : g[e] \in Int
        /\ \A e \in Transfers : /\ Carried(e, i, s) = IF e \in T THEN f[e] ELSE 0
                                /\ Carried(e, i, s)' = IF e \in U THEN g[e] ELSE 0
    BY <1>2 DEF Carried, Underway
  <1>4. IsFiniteSet(Transfers)
    BY FiniteAssumption, FS_Subset DEF Docs
  <1>5. Sum(g, U) = Sum(f, T) + ((IF d \in U THEN g[d] ELSE 0) - (IF d \in T THEN f[d] ELSE 0))
    <2>1. \A e \in Transfers : e # d =>
              (IF e \in T THEN f[e] ELSE 0) = (IF e \in U THEN g[e] ELSE 0)
      <3> HIDE DEF T, U, f, g
      <3> QED BY <1>3
    <2> HIDE DEF T, U, f, g
    <2> QED BY <1>3, <1>4, <2>1, SumMoves
  <1>6. bal'[i][s].inTransit = Sum(g, U)
    <2> HIDE DEF T, U, f, g
    <2> QED BY <1>1, <1>3, <1>5
  <1> QED BY <1>6

\* Nothing under way, or nothing that changes.
LEMMA TransitStays ==
    ASSUME BInv, IInv',
           \A d \in Transfers, i \in Items, s \in Stores : Carried(d, i, s)' = Carried(d, i, s),
           \A i \in Items, s \in Stores : bal'[i][s].inTransit = bal[i][s].inTransit
    PROVE  TransitIsUnderway'
  <1> SUFFICES ASSUME NEW i \in Items, NEW s \in Stores
               PROVE  bal'[i][s].inTransit
                        = Sum([e \in {e \in Transfers : Underway(e, s)'} |-> doc'[e].lines[i]],
                              {e \in Transfers : Underway(e, s)'})
    BY DEF TransitIsUnderway, Underway
  <1>1. CASE Transfers = {}
    <2>1. {e \in Transfers : Underway(e, s)'} = {}
          /\ {e \in Transfers : doc[e].status = "IN_TRANSIT" /\ doc[e].head.store = s} = {}
      BY <1>1
    <2> DEFINE T == {e \in Transfers : doc[e].status = "IN_TRANSIT" /\ doc[e].head.store = s}
               f == [e \in T |-> doc[e].lines[i]]
               U == {e \in Transfers : Underway(e, s)'}
               g == [e \in U |-> doc'[e].lines[i]]
    <2>2. bal[i][s].inTransit = Sum(f, T)
      BY DEF BInv, TransitIsUnderway
    <2>3. bal'[i][s].inTransit = bal[i][s].inTransit /\ T = {} /\ U = {}
      BY <2>1
    <2>4. bal'[i][s].inTransit = Sum(g, U)
      <3> HIDE DEF T, U, f, g
      <3> QED BY <2>2, <2>3, SumEmpty
    <2> QED BY <2>4
  <1>2. CASE Transfers # {}
    <2>1. PICK d \in Transfers : TRUE
      BY <1>2
    <2>2. Carried(d, i, s) \in Int /\ bal[i][s].inTransit \in Int
      BY QtyAssumption DEF Carried, BInv, IInv, TypeOK, DocType, Lines, Qty, Docs, BalType, Counted
    <2>3. bal'[i][s].inTransit = bal[i][s].inTransit + (Carried(d, i, s)' - Carried(d, i, s))
      BY <2>2
    <2> QED BY <2>1, <2>3, TransitMoves
  <1> QED BY <1>1, <1>2

\* A step that touches no reservation and no reserved quantity keeps them agreed.
LEMMA PromisesStay ==
    ASSUME BInv,
           \A r \in Reservations : /\ rsv'[r].status = rsv[r].status /\ rsv'[r].item = rsv[r].item
                                   /\ rsv'[r].store = rsv[r].store
                                   /\ rsv'[r].q = rsv[r].q /\ rsv'[r].done = rsv[r].done,
           \A i \in Items, s \in Stores : bal'[i][s].reserved = bal[i][s].reserved
    PROVE  ReservedIsPromised'
  <1> SUFFICES ASSUME NEW i \in Items, NEW s \in Stores
               PROVE  bal'[i][s].reserved
                        = Sum([r \in {r \in Reservations : Open(r, i, s)'} |-> rsv'[r].q - rsv'[r].done],
                              {r \in Reservations : Open(r, i, s)'})
    BY DEF ReservedIsPromised, Open
  <1> DEFINE T == {r \in Reservations : Open(r, i, s)}
             U == {r \in Reservations : Open(r, i, s)'}
             f == [r \in T |-> rsv[r].q - rsv[r].done]
             g == [r \in U |-> rsv'[r].q - rsv'[r].done]
  <1>1. bal[i][s].reserved = Sum(f, T)
    BY DEF Open, BInv, ReservedIsPromised
  <1>2. U = T
    BY DEF Open
  <1>3. g = f
    BY <1>2
  <1>4. bal'[i][s].reserved = Sum(g, U)
    <2> HIDE DEF T, U, f, g
    <2> QED BY <1>1, <1>2, <1>3
  <1> QED BY <1>4

Incoming == {"OTHER_RECEIPT", "RETURN_FROM_EMPLOYEE", "POSITIVE_ADJUSTMENT"}
Outgoing == {"ISSUE", "NEGATIVE_ADJUSTMENT", "LOSS", "DAMAGE", "WRITE_OFF"}

\* What moving n of an item, posted under this type, leaves more of it.
Gain(source, type, n, moved) ==
    CASE type \in Incoming -> n
      [] type \in Outgoing -> -n
      [] type = "REVERSAL" -> (IF source \in Issues THEN n ELSE 0) - (IF source \in Receipts THEN n ELSE 0)
      [] type = "STOCK_COUNT_ADJUSTMENT" -> moved
      [] OTHER -> 0

\* Stock stays conserved if the entries posted sum to what the type says.
LEMMA ConservedKeeps ==
    ASSUME BInv, NEW source \in Docs \cup Reservations, NEW type \in TxTypes,
           NEW q \in [Items -> Nat], NEW move \in [Items -> [Stores -> Signed]],
           Post(source, type, q, move), Fresh(source, type, q),
           \A i \in Items : q[i] > 0 =>
              Everywhere(move[i]) = Gain(source, type, q[i], Everywhere(move[i]))
    PROVE  Conserved'
  <1> SUFFICES ASSUME NEW i \in Items
               PROVE  Everywhere(bal[i])' =
                         Quantity(OfType(i, Incoming))' - Quantity(OfType(i, Outgoing))'
                           - Quantity(Undoing(i, Receipts))' + Quantity(Undoing(i, Issues))'
                           + Corrected(i)'
    BY DEF Conserved, Incoming, Outgoing, Corrected, Quantity, Everywhere, OfType, Undoing
  <1>1. Everywhere(bal[i]) = Quantity(OfType(i, Incoming)) - Quantity(OfType(i, Outgoing))
                               - Quantity(Undoing(i, Receipts)) + Quantity(Undoing(i, Issues))
                               + Corrected(i)
    BY DEF BInv, Conserved, Incoming, Outgoing, Corrected
  <1>2. IInv /\ FiniteLedger
    BY DEF BInv
  <1>3. /\ Quantity(OfType(i, Incoming)) \in Nat
        /\ Quantity(OfType(i, Incoming))'
              = Quantity(OfType(i, Incoming)) + IF type \in Incoming THEN q[i] ELSE 0
        /\ Quantity(OfType(i, Outgoing)) \in Nat
        /\ Quantity(OfType(i, Outgoing))'
              = Quantity(OfType(i, Outgoing)) + IF type \in Outgoing THEN q[i] ELSE 0
        /\ Quantity(Undoing(i, Receipts)) \in Nat
        /\ Quantity(Undoing(i, Receipts))' = Quantity(Undoing(i, Receipts))
              + IF type = "REVERSAL" /\ source \in Receipts THEN q[i] ELSE 0
        /\ Quantity(Undoing(i, Issues)) \in Nat
        /\ Quantity(Undoing(i, Issues))' = Quantity(Undoing(i, Issues))
              + IF type = "REVERSAL" /\ source \in Issues THEN q[i] ELSE 0
    BY <1>2, PostTotals
  <1>4. /\ Everywhere(bal[i]) \in Int /\ Corrected(i) \in Int /\ Everywhere(move[i]) \in Int
        /\ Everywhere(bal[i])' = Everywhere(bal[i]) + IF q[i] > 0 THEN Everywhere(move[i]) ELSE 0
        /\ Corrected(i)' = Corrected(i) + IF q[i] > 0 /\ type = "STOCK_COUNT_ADJUSTMENT"
                                           THEN Everywhere(move[i]) ELSE 0
    BY <1>2, PostEverywhere
  <1>5. q[i] \in Nat
    OBVIOUS
  <1>6. CASE q[i] = 0
    BY <1>1, <1>3, <1>4, <1>6
  <1>7. CASE q[i] > 0
    <2> DEFINE m == Everywhere(move[i])
    <2>1. m = Gain(source, type, q[i], m)
      BY <1>7
    <2> HIDE DEF m
    <2>2. CASE type \in Incoming
      BY <2>1, <2>2, <1>1, <1>3, <1>4, <1>5, <1>7 DEF Gain, Incoming, Outgoing, m
    <2>3. CASE type \in Outgoing
      BY <2>1, <2>3, <1>1, <1>3, <1>4, <1>5, <1>7 DEF Gain, Incoming, Outgoing, m
    <2>4. CASE type = "REVERSAL"
      BY <2>1, <2>4, <1>1, <1>3, <1>4, <1>5, <1>7 DEF Gain, Incoming, Outgoing, m
    <2>5. CASE type = "STOCK_COUNT_ADJUSTMENT"
      BY <2>5, <1>1, <1>3, <1>4, <1>5, <1>7 DEF Incoming, Outgoing
    <2>6. CASE type \notin Incoming \cup Outgoing \cup {"REVERSAL", "STOCK_COUNT_ADJUSTMENT"}
      BY <2>1, <2>6, <1>1, <1>3, <1>4, <1>5, <1>7 DEF Gain, m
    <2> QED BY <2>2, <2>3, <2>4, <2>5, <2>6
  <1> QED BY <1>5, <1>6, <1>7

\* What old transactions say of their sources stays true.
LEMMA RecordedKeeps ==
    ASSUME BInv, FinalStep,
           \A r \in Reservations : rsv[r].status # "NONE" => rsv'[r].status # "NONE",
           \A t \in ledger' \ ledger :
              AsIssued(t)' /\ AsReceived(t)' /\ AsReturned(t)' /\ AsReversed(t)'
    PROVE  Recorded'
  <1> SUFFICES ASSUME NEW t \in ledger
               PROVE  AsIssued(t)' /\ AsReceived(t)' /\ AsReturned(t)' /\ AsReversed(t)'
    BY DEF Recorded
  <1>1. AsIssued(t) /\ AsReceived(t) /\ AsReturned(t) /\ AsReversed(t) /\ Left(t)
    BY DEF BInv, IInv, SourcesLeft, Recorded
  <1>2. \A d \in Docs : doc[d].status = "POSTED" => doc'[d] = doc[d]
    BY DEF FinalStep
  <1>3. ASSUME t.type = "ISSUE" PROVE AsIssued(t)'
    BY <1>1, <1>3, <1>2 DEF AsIssued, Left, Docs, BInv, IInv, TypeOK, DocType, Header,
       IssueEntry
  <1>4. AsReceived(t)'
    BY <1>1 DEF AsReceived
  <1>5. ASSUME t.type = "RETURN_FROM_EMPLOYEE" PROVE AsReturned(t)'
    BY <1>1, <1>5, <1>2 DEF AsReturned, Left, Docs
  <1>6. AsReversed(t)'
    BY <1>1, <1>2 DEF AsReversed, Docs
  <1> QED BY <1>3, <1>4, <1>5, <1>6 DEF AsIssued, AsReturned

-----------------------------------------------------------------------------
(* Steps that move no stock *)

\* What a document moved of an item is a number.
LEMMA TotalType ==
    ASSUME IInv, FiniteLedger, NEW d, NEW i, NEW ty
    PROVE  Total(d, i, ty) \in Nat
  <1> DEFINE X == {t \in ledger : t.source = d /\ t.item = i /\ t.type = ty}
  <1>1. IsFiniteSet(X) /\ \A t \in X : t.q \in Nat
    BY FS_Subset DEF FiniteLedger, IInv, TypeOK, LedgerType
  <1>2. Total(d, i, ty) = Quantity(X)
    BY DEF Total
  <1> HIDE DEF X
  <1> QED BY <1>1, <1>2, QuantityGrows

\* A step that neither posts nor reverses keeps every balance and counter agreement.
LEMMA QuietKeeps ==
    ASSUME BInv, IInv', FinalStep, LinesGiven', UNCHANGED <<bal, ledger, custody>>,
           \A r \in Reservations : /\ rsv'[r].status = rsv[r].status /\ rsv'[r].item = rsv[r].item
                                   /\ rsv'[r].store = rsv[r].store
                                   /\ rsv'[r].q = rsv[r].q /\ rsv'[r].done = rsv[r].done,
           \A a \in Requests : asked'[a].issued = asked[a].issued,
           ServedStatus',
           \A d \in Docs : /\ doc'[d].status = "POSTED" <=> doc[d].status = "POSTED"
                           /\ doc'[d].status = "IN_TRANSIT" <=> doc[d].status = "IN_TRANSIT"
    PROVE  BInv'
  <1>1. FiniteLedger' /\ Reconciled' /\ Conserved'
    BY DEF BInv, FiniteLedger, Reconciled, Booked, Conserved, Everywhere, OfType, Undoing,
       Quantity
  <1>2. \A d, i, ty : Total(d, i, ty) \in Nat /\ Total(d, i, ty)' = Total(d, i, ty)
    <2>1. \A d, i, ty : Total(d, i, ty) \in Nat
      BY TotalType DEF BInv
    <2>2. \A d, i, ty : Total(d, i, ty)' = Total(d, i, ty)
      BY DEF Total, Quantity
    <2> QED BY <2>1, <2>2
  <1>3. Adds(NULL, "REVERSAL", NoLines) /\ NULL \notin Docs /\ NoLines \in [Items -> Nat]
    BY <1>2, NullAssumption DEF Adds, NoLines
  <1>4. Recorded'
    BY RecordedKeeps
  <1>5. ReservedIsPromised'
    BY PromisesStay
  <1>6. TransitIsUnderway'
    BY TransitStays DEF FinalStep, Carried, Underway, Docs
  <1>7. RequestsBalance'
    BY QtyAssumption, <1>3, RequestsKeep DEF BInv, IInv, TypeOK, AskedType, Lines, Qty,
       AskedFollows
  <1>8. ReservationsBalance'
    <2>1. \A r \in Reservations : rsv[r].done \in Nat
      BY QtyAssumption DEF BInv, IInv, TypeOK, RsvType, Qty
    <2>2. DoneFollows(NULL, "REVERSAL", NoLines)
      BY <2>1 DEF DoneFollows
    <2>3. DoneStatus' /\ ReservesItem'
      BY DEF DoneStatus, ReservationsBalance, ReservesItem, BInv
    <2> QED BY <1>3, <2>2, <2>3, ReservationsKeep
  <1>9. HeldAsIssued' /\ CustodyBalances'
    BY <1>3, PriorAdds, <1>2 DEF BInv, HeldAsIssued, Docs, CustodyBalances
  <1>10. ReservesItem'
    BY DEF ReservesItem, BInv
  <1> QED BY <1>1, <1>4, <1>5, <1>6, <1>7, <1>8, <1>9, <1>10 DEF BInv

\* A draft has a line and its stores.
LEMMA SaveQuiet ==
    ASSUME BInv, NEW d \in Docs, NEW l \in Lines \ {NoLines}, NEW h, Save(d, l, h),
           IInv', FinalStep, d \in Transfers => h.toStore \in Stores
    PROVE  BInv'
  <1>1. /\ doc[d].status \in {"NONE", "DRAFT"}
        /\ d \in Transfers => h.store # h.toStore
        /\ doc' = [doc EXCEPT ![d] = [status |-> "DRAFT", head |-> h, lines |-> l]]
        /\ UNCHANGED <<archived, returnable, asked, counting, custody, rsv, bal, ledger, clock>>
    BY DEF Save
  <1>2. /\ doc'[d].status = "DRAFT" /\ doc'[d].head = h /\ doc'[d].lines = l
        /\ \A e \in Docs : e # d => doc'[e] = doc[e]
    BY <1>1 DEF BInv, IInv, TypeOK, DocType
  <1>3. \E i \in Items : l[i] > 0
    BY QtyAssumption DEF Lines, NoLines, Qty
  <1>4. LinesGiven'
    BY <1>1, <1>2, <1>3 DEF BInv, LinesGiven
  <1>5. ServedStatus'
    BY <1>1, <1>2 DEF BInv, RequestsBalance, ServedStatus, Docs
  <1>6. \A e \in Docs : /\ doc'[e].status = "POSTED" <=> doc[e].status = "POSTED"
                        /\ doc'[e].status = "IN_TRANSIT" <=> doc[e].status = "IN_TRANSIT"
    BY <1>1, <1>2
  <1> QED BY <1>1, <1>4, <1>5, <1>6, QuietKeeps

\* A status that is not one of a posting.
LEMMA StatusQuiet ==
    ASSUME BInv, NEW d \in Docs,
           NEW s \in {"CANCELLED", "REJECTED", "SUBMITTED", "APPROVED", "IN_PROGRESS"},
           SetStatus(d, s), doc[d].status \notin Final \cup {"NONE"}, IInv', FinalStep,
           UNCHANGED <<custody, rsv, bal, ledger>>,
           \A a \in Requests : asked'[a].issued = asked[a].issued,
           \A a \in Requests : doc[a].status \in {"FULFILLED", "PARTIALLY_ISSUED"} =>
              asked'[a] = asked[a]
    PROVE  BInv'
  BY QuietKeeps DEF SetStatus, BInv, IInv, TypeOK, DocType, LinesGiven, RequestsBalance,
     ServedStatus, Docs, Final

\* Handling a document (submit, approve, cancel) moves no stock.
LEMMA HandleBalances ==
    ASSUME BInv, NEW d \in Docs, Handle(d)
    PROVE  BInv'
  <1>0. IInv /\ IInv' /\ FinalStep
    BY HandleKeeps DEF BInv
  <1>1. CASE DocumentSave(d)
    BY <1>1, <1>0, SaveQuiet DEF DocumentSave, Field
  <1>2. CASE ApproveRequest(d)
    BY <1>2, <1>0, StatusQuiet DEF ApproveRequest, IInv, TypeOK, AskedType, Final
  <1>3. CASE Cancel(d)
    BY <1>0, <1>3, StatusQuiet DEF Cancel
  <1>4. CASE Reject(d)
    BY <1>0, <1>4, StatusQuiet DEF Reject, Final
  <1>5. CASE SubmitRequest(d)
    BY <1>0, <1>5, StatusQuiet DEF SubmitRequest, Final
  <1>6. CASE Approve(d)
    BY <1>0, <1>6, StatusQuiet DEF Approve, Final
  <1>7. CASE Start(d)
    BY <1>0, <1>7, StatusQuiet DEF Start, Final
  <1>8. CASE Restart(d)
    BY <1>0, <1>8, StatusQuiet DEF Restart, CanRestart, IInv, CountStatus, Final
  <1>9. CASE SubmitCount(d)
    BY <1>0, <1>9, StatusQuiet DEF SubmitCount, Final
  <1> QED BY <1>1, <1>2, <1>3, <1>4, <1>5, <1>6, <1>7, <1>8, <1>9 DEF Handle

\* Raising the issue of a request moves no stock.
LEMMA RequestIssueBalances ==
    ASSUME BInv, NEW a \in Requests, NEW d \in Issues, NEW s \in Stores, RequestIssue(a, d, s)
    PROVE  BInv'
  <1> DEFINE rest == [i \in Items |-> asked[a].approved[i] - asked[a].issued[i]]
             h == [store |-> s, toStore |-> NULL, purpose |-> "OTHER", damaged |-> FALSE,
                   request |-> a, reservation |-> NULL, original |-> NULL]
  <1>0. IInv /\ IInv' /\ FinalStep
    BY RequestIssueKeeps DEF BInv
  <1>1. Save(d, rest, h) /\ \E i \in Items : rest[i] > 0
    BY DEF RequestIssue
  <1>2. rest \in Lines
    BY <1>0, QtyAssumption DEF IInv, TypeOK, AskedType, WithinApproved, Lines, Qty
  <1>3. rest # NoLines
    BY <1>1 DEF NoLines
  <1>4. d \in Docs /\ d \notin Transfers
    BY KindsAssumption DEF Docs
  <1> HIDE DEF rest, h
  <1> QED BY <1>0, <1>1, <1>2, <1>3, <1>4, SaveQuiet

\* Archiving, restoring, editing an item and the lapse of a reservation move no stock.
LEMMA MasterBalances ==
    ASSUME BInv,
           \/ \E x \in Archivable : Archive(x) \/ Restore(x)
           \/ \E i \in Items : ToggleReturnable(i)
           \/ \E r \in Reservations : Lapse(r)
           \/ UNCHANGED vars
    PROVE  BInv'
  <1>0. IInv' /\ FinalStep
    BY MasterKeeps DEF BInv
  <1>1. UNCHANGED <<doc, asked, counting, custody, bal, ledger, clock>>
    BY DEF Archive, Restore, ToggleReturnable, Lapse, vars
  <1>2. \A r \in Reservations : /\ rsv'[r].status = rsv[r].status /\ rsv'[r].item = rsv[r].item
                                /\ rsv'[r].store = rsv[r].store
                                /\ rsv'[r].q = rsv[r].q /\ rsv'[r].done = rsv[r].done
    BY DEF Lapse, BInv, IInv, TypeOK, RsvType, Archive, Restore, ToggleReturnable, vars
  <1>3. LinesGiven' /\ ServedStatus'
    BY <1>1 DEF BInv, LinesGiven, RequestsBalance, ServedStatus
  <1> QED BY <1>0, <1>1, <1>2, <1>3, QuietKeeps
-----------------------------------------------------------------------------
(* Steps that post *)

\* The transactions a posting enters.
LEMMA PostNew ==
    ASSUME NEW source, NEW type, NEW q, NEW move, Post(source, type, q, move)
    PROVE  \A t \in ledger' \ ledger :
              /\ t.source = source /\ t.type = type /\ t.item \in Items /\ q[t.item] > 0
              /\ t.q = q[t.item] /\ t.move = move[t.item]
  BY DEF Post

\* What a posting adds to the totals of the documents.
LEMMA PostAddsUp ==
    ASSUME BInv, NEW source \in Docs \cup Reservations, NEW type \in TxTypes,
           NEW q \in [Items -> Nat], NEW move \in [Items -> [Stores -> Signed]],
           Post(source, type, q, move), Fresh(source, type, q)
    PROVE  Adds(source, type, q)
  BY PostTotals DEF Adds, BInv

\* What every posting has to show to keep the sums.
LEMMA PostBalances ==
    ASSUME BInv, IInv', FinalStep,
           NEW source \in Docs \cup Reservations, NEW type \in TxTypes,
           NEW q \in [Items -> Nat], NEW move \in [Items -> [Stores -> Signed]],
           Post(source, type, q, move), Fresh(source, type, q),
           source \in Docs => doc'[source].head = doc[source].head,
           LinesGiven', ReservesItem',
           \A r \in Reservations : rsv[r].status # "NONE" => rsv'[r].status # "NONE",
           \A t \in ledger' \ ledger :
              AsIssued(t)' /\ AsReceived(t)' /\ AsReturned(t)' /\ AsReversed(t)',
           HeldAsIssued', CustodyBalances', ReservedIsPromised', TransitIsUnderway',
           AskedFollows(source, type, q), ServedStatus',
           DoneFollows(source, type, q), DoneStatus',
           \A i \in Items : q[i] > 0 =>
              Everywhere(move[i]) = Gain(source, type, q[i], Everywhere(move[i]))
    PROVE  BInv'
  BY PostFinite, PostReconciled, PostAddsUp, ConservedKeeps, RequestsKeep, ReservationsKeep,
     RecordedKeeps DEF BInv

\* Custody is left alone by what neither issues nor returns.
LEMMA CustodyStays ==
    ASSUME BInv, FinalStep, NEW source, NEW type, type \notin {"ISSUE", "RETURN_FROM_EMPLOYEE"},
           NEW q \in [Items -> Nat], Adds(source, type, q),
           source \in Docs => doc'[source].head = doc[source].head,
           \A d \in Issues : doc'[d].status = "POSTED" <=> doc[d].status = "POSTED",
           UNCHANGED custody
    PROVE  HeldAsIssued' /\ CustodyBalances'
  <1>1. \A d \in Issues, i \in Items :
           /\ Prior(d, i)' = Prior(d, i)
           /\ Total(d, i, "ISSUE")' = Total(d, i, "ISSUE")
    <2> SUFFICES ASSUME NEW d \in Issues, NEW i \in Items
                 PROVE  /\ Prior(d, i)' = Prior(d, i)
                        /\ Total(d, i, "ISSUE")' = Total(d, i, "ISSUE")
      OBVIOUS
    <2>1. Prior(d, i)' = Prior(d, i)
      BY PriorAdds DEF BInv
    <2>2. Total(d, i, "ISSUE")' = Total(d, i, "ISSUE")
      BY TotalType DEF BInv, Docs, Adds
    <2> QED BY <2>1, <2>2
  <1>2. HeldAsIssued'
    BY <1>1 DEF BInv, HeldAsIssued
  <1>3. CustodyBalances'
    BY <1>1 DEF BInv, CustodyBalances
  <1> QED BY <1>2, <1>3

\* A document posting that touches neither requests nor reservations.
Plainly(d, s, type, q, move) ==
    /\ d \in Docs \ (Requests \cup Issues) /\ s \in Status \ {"NONE"}
    /\ type \in TxTypes \ {"ISSUE", "REVERSAL"}
    /\ q \in [Items -> Nat] /\ move \in [Items -> [Stores -> Signed]]
    /\ Post(d, type, q, move) /\ Fresh(d, type, q) /\ SetStatus(d, s)
    /\ doc[d].status # "NONE" /\ UNCHANGED <<asked, rsv>>
    /\ \A i \in Items, x \in Stores : move[i][x].reserved = 0
    /\ type = "OTHER_RECEIPT" =>
          /\ d \in Receipts
          /\ \A i \in Items : \E x \in Stores : move[i] = At(x, Entry(q[i], 0, 0, 0))
    /\ type = "RETURN_FROM_EMPLOYEE" =>
          /\ d \in Returns /\ doc[d].head.original \in Issues
          /\ doc[doc[d].head.original].status = "POSTED"
    /\ \A i \in Items : q[i] > 0 =>
          Everywhere(move[i]) = Gain(d, type, q[i], Everywhere(move[i]))

\* It keeps the sums if it keeps custody and what is under way.
LEMMA PlainBalances ==
    ASSUME BInv, IInv', FinalStep, NEW d, NEW s, NEW type, NEW q, NEW move,
           Plainly(d, s, type, q, move), HeldAsIssued', CustodyBalances', TransitIsUnderway'
    PROVE  BInv'
  <1>0. /\ d \in Docs \ (Requests \cup Issues) /\ s \in Status \ {"NONE"} /\ d \in Docs \cup Reservations
        /\ type \in TxTypes \ {"ISSUE", "REVERSAL"} /\ type \in TxTypes
        /\ q \in [Items -> Nat] /\ move \in [Items -> [Stores -> Signed]]
        /\ Post(d, type, q, move) /\ Fresh(d, type, q) /\ SetStatus(d, s)
        /\ doc[d].status # "NONE" /\ UNCHANGED <<asked, rsv>>
        /\ \A i \in Items, x \in Stores : move[i][x].reserved = 0
        /\ \A i \in Items : q[i] > 0 =>
              Everywhere(move[i]) = Gain(d, type, q[i], Everywhere(move[i]))
    BY DEF Plainly
  <1>1. /\ doc'[d].status = s /\ doc'[d].head = doc[d].head /\ doc'[d].lines = doc[d].lines
        /\ \A e \in Docs : e # d => doc'[e] = doc[e]
    BY <1>0 DEF SetStatus, BInv, IInv, TypeOK, DocType
  <1>2. LinesGiven' /\ ReservesItem'
    BY <1>0, <1>1 DEF BInv, LinesGiven, ReservesItem
  <1>3. \A t \in ledger' \ ledger :
              AsIssued(t)' /\ AsReceived(t)' /\ AsReturned(t)' /\ AsReversed(t)'
    BY <1>0, PostNew, <1>1 DEF AsIssued, AsReversed, AsReceived, Plainly, AsReturned, Docs
  <1>4. ReservedIsPromised'
    BY <1>0, BalanceMoves, PromisesStay DEF BInv, Counted
  <1>5. AskedFollows(d, type, q) /\ ServedStatus'
    <2>1. \A a \in Requests, i \in Items : asked[a].issued[i] \in Nat
      BY QtyAssumption DEF BInv, IInv, TypeOK, AskedType, Lines, Qty
    <2>2. AskedFollows(d, type, q)
      BY <1>0, <2>1 DEF AskedFollows
    <2>3. ServedStatus'
      BY <1>0, <1>1 DEF BInv, RequestsBalance, ServedStatus, Docs
    <2> QED BY <2>2, <2>3
  <1>6. DoneFollows(d, type, q) /\ DoneStatus'
    <2>1. \A r \in Reservations : rsv[r].done \in Nat
      BY QtyAssumption DEF BInv, IInv, TypeOK, RsvType, Qty
    <2>2. DoneFollows(d, type, q)
      BY <1>0, <2>1 DEF DoneFollows
    <2>3. DoneStatus'
      BY <1>0 DEF BInv, ReservationsBalance, DoneStatus
    <2> QED BY <2>2, <2>3
  <1>7. \A r \in Reservations : rsv[r].status # "NONE" => rsv'[r].status # "NONE"
    BY <1>0
  <1> QED BY <1>0, <1>1, <1>2, <1>3, <1>4, <1>5, <1>6, <1>7, PostBalances

\* Nothing of this type was posted yet for a document that may post it.
LEMMA DocFresh ==
    ASSUME IInv, NEW d \in Docs, NEW type, NEW q,
           \/ type \notin Elsewhere /\ doc[d].status \in {"DRAFT", "APPROVED"}
           \/ type = "TRANSFER_OUT" /\ doc[d].status = "APPROVED"
           \/ type = "TRANSFER_IN" /\ doc[d].status = "IN_TRANSIT"
    PROVE  Fresh(d, type, q)
  BY DEF Fresh, IInv, SourcesLeft, Left, Elsewhere

\* What the posting of a document that is not a transfer leaves in transit.
LEMMA NoTransit ==
    ASSUME BInv, IInv', NEW d \in Docs \ Transfers, NEW s, SetStatus(d, s), NEW type,
           NEW q \in [Items -> Nat], NEW move \in [Items -> [Stores -> Signed]],
           Post(d, type, q, move),
           \A i \in Items, x \in Stores : move[i][x].inTransit = 0
    PROVE  TransitIsUnderway'
  <1>1. \A e \in Transfers, i \in Items, x \in Stores : Carried(e, i, x)' = Carried(e, i, x)
    BY DEF SetStatus, BInv, IInv, TypeOK, DocType, Carried, Underway, Docs
  <1>2. \A i \in Items, x \in Stores : bal'[i][x].inTransit = bal[i][x].inTransit
    BY BalanceMoves DEF BInv, Counted
  <1> QED BY <1>1, <1>2, TransitStays

\* Custody is left alone by the posting of a document that neither issues nor returns.
LEMMA CustodyApart ==
    ASSUME BInv, FinalStep, NEW d \in Docs \ Issues, NEW s, SetStatus(d, s),
           NEW type \in TxTypes \ {"ISSUE", "RETURN_FROM_EMPLOYEE"},
           NEW q \in [Items -> Nat], NEW move \in [Items -> [Stores -> Signed]],
           Post(d, type, q, move), Fresh(d, type, q), UNCHANGED custody
    PROVE  HeldAsIssued' /\ CustodyBalances'
  BY PostAddsUp, CustodyStays DEF SetStatus, BInv, IInv, TypeOK, DocType, Docs

\* What each kind of posting gains.
LEMMA GainIn ==
    ASSUME NEW source, NEW type \in Incoming, NEW n \in Int, NEW moved
    PROVE  Gain(source, type, n, moved) = n
  BY DEF Gain, Incoming, Outgoing

\* The types of Outgoing are none of Incoming.
LEMMA GainOut ==
    ASSUME NEW source, NEW type \in Outgoing, NEW n \in Int, NEW moved
    PROVE  Gain(source, type, n, moved) = -n
  BY DEF Gain, Incoming, Outgoing

\* A count gains what it moved.
LEMMA GainCount ==
    ASSUME NEW source, NEW n, NEW moved
    PROVE  Gain(source, "STOCK_COUNT_ADJUSTMENT", n, moved) = moved
  BY DEF Gain, Incoming, Outgoing

\* Reversals take back receipts and bring back issues.
LEMMA GainBack ==
    ASSUME NEW source, NEW n, NEW moved
    PROVE  Gain(source, "REVERSAL", n, moved)
             = (IF source \in Issues THEN n ELSE 0) - (IF source \in Receipts THEN n ELSE 0)
  BY DEF Gain, Incoming, Outgoing

\* Everything else moves stock between states or stores.
LEMMA GainNone ==
    ASSUME NEW source, NEW n, NEW moved,
           NEW type, type \notin Incoming \cup Outgoing \cup {"STOCK_COUNT_ADJUSTMENT", "REVERSAL"}
    PROVE  Gain(source, type, n, moved) = 0
  BY DEF Gain

\* Posting a receipt keeps balances, counters and custody agreed with the ledger.
LEMMA ReceiptBalances ==
    ASSUME BInv, NEW d \in Docs, PostReceipt(d)
    PROVE  BInv'
  <1> DEFINE q == doc[d].lines
             h == doc[d].head
             move == [i \in Items |-> At(h.store, Entry(q[i], 0, 0, 0))]
  <1>0. IInv /\ IInv' /\ FinalStep
    BY KindsAssumption, MoveKeeps DEF PostReceipt, PostIssue, BInv, Move
  <1>1. /\ d \in Docs \ (Requests \cup Issues) /\ d \in Docs \ Transfers /\ d \in Receipts
        /\ d \notin Issues
        /\ doc[d].status \in {"DRAFT", "APPROVED"} /\ q \in [Items -> Nat] /\ h.store \in Stores
    BY <1>0, DocFacts, KindsAssumption DEF PostReceipt, Ready, Docs
  <1>2. /\ Post(d, "OTHER_RECEIPT", q, move) /\ SetStatus(d, "POSTED")
        /\ UNCHANGED <<asked, custody, rsv>>
    BY DEF PostReceipt
  <1>3. \A i \in Items : Entry(q[i], 0, 0, 0) \in Signed
    BY <1>1 DEF Entry, Signed
  <1>4. /\ move \in [Items -> [Stores -> Signed]]
        /\ \A i \in Items, x \in Stores : move[i][x].reserved = 0 /\ move[i][x].inTransit = 0
        /\ \A i \in Items : Everywhere(move[i]) = q[i]
        /\ \A i \in Items : \E x \in Stores : move[i] = At(x, Entry(q[i], 0, 0, 0))
    BY <1>3, AtType, <1>1, EverywhereAt DEF At, Zero, Entry
  <1>5. "OTHER_RECEIPT" \in TxTypes \ {"ISSUE", "REVERSAL"} /\ "POSTED" \in Status
    BY DEF TxTypes, Reversible, Status
  <1>6. \A i \in Items : Everywhere(move[i]) = Gain(d, "OTHER_RECEIPT", q[i], Everywhere(move[i]))
    <2>1. "OTHER_RECEIPT" \in Incoming
      BY DEF Incoming
    <2> HIDE DEF move, q
    <2> QED BY <1>1, <1>4, <2>1, GainIn
  <1> HIDE DEF move, q
  <1>7. Fresh(d, "OTHER_RECEIPT", q)
    BY <1>0, <1>1, DocFresh DEF Elsewhere
  <1>8. TransitIsUnderway'
    BY <1>0, <1>1, <1>2, <1>4, NoTransit
  <1>9. HeldAsIssued' /\ CustodyBalances'
    BY <1>0, <1>1, <1>2, <1>4, <1>5, <1>7, CustodyApart
  <1>10. Plainly(d, "POSTED", "OTHER_RECEIPT", q, move)
    BY <1>0, <1>1, <1>2, <1>4, <1>5, <1>6, <1>7, <1>8, <1>9 DEF Plainly
  <1> QED BY <1>0, <1>8, <1>9, <1>10, PlainBalances

\* The entries at one store: what they reserve, have in transit and add up to.
LEMMA AtFacts ==
    ASSUME NEW s \in Stores, NEW e \in Signed
    PROVE  /\ At(s, e) \in [Stores -> Signed]
           /\ \A x \in Stores : /\ At(s, e)[x].reserved = IF x = s THEN e.reserved ELSE 0
                                /\ At(s, e)[x].inTransit = IF x = s THEN e.inTransit ELSE 0
           /\ Everywhere(At(s, e)) = e.onHand + e.inTransit
  BY AtType, EverywhereAt DEF At, Zero, Entry

\* The entries of a posting that has them all at one store.
LEMMA EntriesAt ==
    ASSUME NEW s \in Stores, NEW e \in [Items -> Signed], NEW move,
           move = [i \in Items |-> At(s, e[i])]
    PROVE  /\ move \in [Items -> [Stores -> Signed]]
           /\ \A i \in Items, x \in Stores :
                 /\ move[i][x].reserved = IF x = s THEN e[i].reserved ELSE 0
                 /\ move[i][x].inTransit = IF x = s THEN e[i].inTransit ELSE 0
           /\ \A i \in Items : Everywhere(move[i]) = e[i].onHand + e[i].inTransit
  BY AtFacts

\* The entry of an adjustment gains what its purpose says.
LEMMA AdjustingGains ==
    ASSUME NEW purpose \in AllPurposes \ {"OTHER"}, NEW n \in Nat, NEW b \in Counted,
           NEW delta, delta = IF purpose = "POSITIVE_ADJUSTMENT" THEN n ELSE -n,
           NEW source, NEW e, e = Adjusting(purpose, delta, b), NEW moved
    PROVE  /\ e \in Signed /\ e.reserved = 0 /\ e.inTransit = 0
           /\ e.onHand + e.inTransit = Gain(source, purpose, n, moved)
  <1>1. delta \in Int
    OBVIOUS
  <1>2. e \in Signed /\ e.reserved = 0 /\ e.inTransit = 0
    BY <1>1, AdjustingType DEF Adjusting, Entry
  <1>3. CASE purpose = "POSITIVE_ADJUSTMENT"
    BY <1>3, <1>2, GainIn DEF Adjusting, Entry, Incoming
  <1>4. CASE purpose \in {"NEGATIVE_ADJUSTMENT", "LOSS", "DAMAGE", "WRITE_OFF"}
    BY <1>4, <1>2, GainOut DEF Adjusting, Entry, Outgoing
  <1>5. CASE purpose \in {"QUARANTINE", "RELEASE_FROM_QUARANTINE"}
    BY <1>5, <1>2, GainNone DEF Adjusting, Entry, Incoming, Outgoing
  <1> QED BY <1>3, <1>4, <1>5 DEF AllPurposes

\* Posting an adjustment does.
LEMMA AdjustmentBalances ==
    ASSUME BInv, NEW d \in Docs, PostAdjustment(d)
    PROVE  BInv'
  <1> DEFINE q == doc[d].lines
             h == doc[d].head
             delta == [i \in Items |-> IF h.purpose = "POSITIVE_ADJUSTMENT" THEN q[i] ELSE -q[i]]
             entry == [i \in Items |-> Adjusting(h.purpose, delta[i], bal[i][h.store])]
             move == [i \in Items |-> At(h.store, entry[i])]
  <1>0. IInv /\ IInv' /\ FinalStep
    BY KindsAssumption, MoveKeeps DEF PostAdjustment, PostIssue, BInv, Move
  <1>1. /\ d \in Docs \ (Requests \cup Issues) /\ d \in Docs \ Transfers /\ d \in Docs \ Issues
        /\ doc[d].status = "APPROVED" /\ q \in [Items -> Nat]
        /\ h.store \in Stores /\ h.purpose \in AllPurposes \ {"OTHER"}
    BY KindsAssumption, <1>0, DocFacts DEF PostAdjustment, Ready, Docs, Header
  <1>2. /\ Post(d, h.purpose, q, move) /\ SetStatus(d, "POSTED")
        /\ UNCHANGED <<asked, custody, rsv>>
    BY DEF PostAdjustment
  <1>b. \A i \in Items :
          /\ bal[i][h.store] \in Counted /\ q[i] \in Nat
          /\ entry[i] = Adjusting(h.purpose, delta[i], bal[i][h.store])
          /\ delta[i] = IF h.purpose = "POSITIVE_ADJUSTMENT" THEN q[i] ELSE -q[i]
    BY <1>0, <1>1 DEF IInv, TypeOK, BalType
  <1>a. entry = [i \in Items |-> entry[i]] /\ move = [i \in Items |-> At(h.store, entry[i])]
    OBVIOUS
  <1> DEFINE p == h.purpose
  <1>c. p = h.purpose
    OBVIOUS
  <1> HIDE DEF entry, delta, move, q, p
  <1>3. ASSUME NEW i \in Items, NEW moved
        PROVE  /\ entry[i] \in Signed /\ entry[i].reserved = 0 /\ entry[i].inTransit = 0
               /\ entry[i].onHand + entry[i].inTransit = Gain(d, p, q[i], moved)
    BY <1>1, <1>b, <1>c, AdjustingGains
  <1>d. entry \in [Items -> Signed]
    BY <1>3, <1>a
  <1>4. /\ move \in [Items -> [Stores -> Signed]]
        /\ \A i \in Items, x \in Stores : move[i][x].reserved = 0 /\ move[i][x].inTransit = 0
        /\ \A i \in Items : Everywhere(move[i]) = Gain(d, p, q[i], Everywhere(move[i]))
    <2>1. /\ move \in [Items -> [Stores -> Signed]]
          /\ \A i \in Items, x \in Stores :
                /\ move[i][x].reserved = IF x = h.store THEN entry[i].reserved ELSE 0
                /\ move[i][x].inTransit = IF x = h.store THEN entry[i].inTransit ELSE 0
          /\ \A i \in Items : Everywhere(move[i]) = entry[i].onHand + entry[i].inTransit
      BY <1>1, <1>a, <1>d, EntriesAt
    <2>2. \A i \in Items : entry[i].reserved = 0 /\ entry[i].inTransit = 0
      BY <1>3
    <2>3. ASSUME NEW i \in Items
          PROVE  Everywhere(move[i]) = Gain(d, p, q[i], Everywhere(move[i]))
      BY <1>3, <2>1
    <2> QED BY <2>1, <2>2, <2>3
  <1>5. /\ p \in TxTypes \ {"ISSUE", "RETURN_FROM_EMPLOYEE"} /\ p \in TxTypes \ {"ISSUE", "REVERSAL"}
        /\ p # "OTHER_RECEIPT" /\ p # "RETURN_FROM_EMPLOYEE"
        /\ p \notin Elsewhere /\ "POSTED" \in Status
    BY <1>1, <1>c DEF AllPurposes, TxTypes, Reversible, Status, Elsewhere
  <1>6. Post(d, p, q, move) /\ Fresh(d, p, q)
    BY <1>0, <1>1, <1>2, <1>5, <1>c, DocFresh
  <1> HIDE DEF h
  <1>7. TransitIsUnderway'
    BY <1>0, <1>1, <1>2, <1>4, <1>6, NoTransit
  <1>9. HeldAsIssued' /\ CustodyBalances'
    BY <1>0, <1>1, <1>2, <1>4, <1>5, <1>6, CustodyApart
  <1>10. Plainly(d, "POSTED", p, q, move)
    BY <1>0, <1>1, <1>2, <1>4, <1>5, <1>6, <1>7, <1>9 DEF Plainly
  <1> QED BY <1>0, <1>7, <1>9, <1>10, PlainBalances

\* Posting a stock count does: the entries are the differences between count and balance.
LEMMA CountBalances ==
    ASSUME BInv, NEW d \in Docs, PostCount(d)
    PROVE  BInv'
  <1> DEFINE h == doc[d].head
             delta == [i \in Items |-> IF i \in Posting(d)
                            THEN counting[d].counted[i] - counting[d].system[i] ELSE 0]
             q == [i \in Items |-> Abs(delta[i])]
             entry == [i \in Items |-> Adjusting(h.purpose, delta[i], bal[i][h.store])]
             move == [i \in Items |-> At(h.store, entry[i])]
  <1>0. IInv /\ IInv' /\ FinalStep
    BY KindsAssumption, MoveKeeps DEF PostCount, PostIssue, BInv, Move
  <1>1. /\ d \in Docs \ (Requests \cup Issues) /\ d \in Docs \ Transfers /\ d \in Docs \ Issues
        /\ d \in Counts /\ doc[d].status = "APPROVED" /\ h.store \in Stores
    BY <1>0, DocFacts, KindsAssumption DEF PostCount, Ready, Docs
  <1>2. /\ Post(d, "STOCK_COUNT_ADJUSTMENT", q, move) /\ SetStatus(d, "POSTED")
        /\ UNCHANGED <<asked, custody, rsv>>
    BY DEF PostCount
  <1>3. delta \in [Items -> Int] /\ q \in [Items -> Nat]
    <2>1. \A i \in Posting(d) : counting[d].counted[i] \in Nat /\ counting[d].system[i] \in Nat
      BY <1>0, <1>1, QtyAssumption DEF PostCount, Posting, IInv, TypeOK, CountingType, Qty
    <2>2. delta \in [Items -> Int]
      BY <2>1
    <2> QED BY <2>2 DEF Abs
  <1>4. ASSUME NEW i \in Items
        PROVE  entry[i] \in Signed /\ entry[i].reserved = 0 /\ entry[i].inTransit = 0
    <2>1. bal[i][h.store] \in Counted /\ delta[i] \in Int
      BY <1>0, <1>1, <1>3 DEF IInv, TypeOK, BalType
    <2>2. entry[i] \in Signed
      BY <2>1, AdjustingType
    <2> QED BY <2>2 DEF Adjusting, Entry
  <1>a. entry \in [Items -> Signed] /\ move = [i \in Items |-> At(h.store, entry[i])]
    BY <1>4
  <1> HIDE DEF entry, delta, move, q
  <1>5. /\ move \in [Items -> [Stores -> Signed]]
        /\ \A i \in Items, x \in Stores : move[i][x].reserved = 0 /\ move[i][x].inTransit = 0
    <2>1. /\ move \in [Items -> [Stores -> Signed]]
          /\ \A i \in Items, x \in Stores :
                /\ move[i][x].reserved = IF x = h.store THEN entry[i].reserved ELSE 0
                /\ move[i][x].inTransit = IF x = h.store THEN entry[i].inTransit ELSE 0
      BY <1>1, <1>a, EntriesAt
    <2> QED BY <1>4, <2>1
  <1>6. /\ "STOCK_COUNT_ADJUSTMENT" \in TxTypes \ {"ISSUE", "RETURN_FROM_EMPLOYEE"}
        /\ "STOCK_COUNT_ADJUSTMENT" \in TxTypes \ {"ISSUE", "REVERSAL"}
        /\ "POSTED" \in Status /\ q \in [Items -> Nat]
    BY <1>3 DEF TxTypes, Status
  <1>7. \A i \in Items :
           Everywhere(move[i]) = Gain(d, "STOCK_COUNT_ADJUSTMENT", q[i], Everywhere(move[i]))
    BY GainCount
  <1>8. Fresh(d, "STOCK_COUNT_ADJUSTMENT", q)
    BY <1>0, <1>1, DocFresh DEF Elsewhere
  <1>9. TransitIsUnderway'
    BY <1>0, <1>1, <1>2, <1>3, <1>5, NoTransit
  <1>10. HeldAsIssued' /\ CustodyBalances'
    BY <1>0, <1>1, <1>2, <1>3, <1>5, <1>6, <1>8, CustodyApart
  <1> HIDE DEF h
  <1>11. Plainly(d, "POSTED", "STOCK_COUNT_ADJUSTMENT", q, move)
    BY <1>0, <1>1, <1>2, <1>5, <1>6, <1>7, <1>8, <1>9, <1>10 DEF Plainly
  <1> QED BY <1>0, <1>9, <1>10, <1>11, PlainBalances

\* Dispatching a transfer does: what leaves the store is in transit.
LEMMA DispatchBalances ==
    ASSUME BInv, NEW d \in Docs, Dispatch(d)
    PROVE  BInv'
  <1> DEFINE q == doc[d].lines
             h == doc[d].head
             entry == [i \in Items |-> Leaving(q[i])]
             move == [i \in Items |-> At(h.store, entry[i])]
  <1>0. IInv /\ IInv' /\ FinalStep
    BY KindsAssumption, MoveKeeps DEF Dispatch, PostIssue, BInv, Move
  <1>1. /\ d \in Docs \ (Requests \cup Issues) /\ d \in Docs \ Issues /\ d \in Transfers
        /\ doc[d].status = "APPROVED" /\ q \in [Items -> Nat] /\ h.store \in Stores
    BY <1>0, DocFacts, KindsAssumption DEF Dispatch, Ready, Docs
  <1>2. /\ Post(d, "TRANSFER_OUT", q, move) /\ SetStatus(d, "IN_TRANSIT")
        /\ UNCHANGED <<asked, custody, rsv>>
    BY DEF Dispatch
  <1>3. \A i \in Items : /\ entry[i] \in Signed /\ entry[i].reserved = 0
                         /\ entry[i].inTransit = q[i] /\ entry[i].onHand = -q[i]
    BY <1>1 DEF Leaving, Entry, Signed
  <1>4. entry \in [Items -> Signed] /\ move = [i \in Items |-> At(h.store, entry[i])]
    BY <1>3
  <1>5. /\ doc'[d].status = "IN_TRANSIT" /\ doc'[d].head = h /\ doc'[d].lines = q
        /\ \A e \in Docs : e # d => doc'[e] = doc[e]
    BY <1>0, <1>2 DEF SetStatus, IInv, TypeOK, DocType
  <1>6. \A i \in Items, s \in Stores : /\ Carried(d, i, s) = 0
                                       /\ Carried(d, i, s)' = IF s = h.store THEN q[i] ELSE 0
    BY <1>1, <1>5 DEF Carried, Underway
  <1>7. \A e \in Transfers : e # d =>
           \A s \in Stores, i \in Items : Carried(e, i, s)' = Carried(e, i, s)
    BY <1>5 DEF Carried, Underway, Docs
  <1> HIDE DEF entry, move, q, h
  <1>8. /\ move \in [Items -> [Stores -> Signed]]
        /\ \A i \in Items, x \in Stores :
              /\ move[i][x].reserved = IF x = h.store THEN entry[i].reserved ELSE 0
              /\ move[i][x].inTransit = IF x = h.store THEN entry[i].inTransit ELSE 0
        /\ \A i \in Items : Everywhere(move[i]) = entry[i].onHand + entry[i].inTransit
    BY <1>1, <1>4, EntriesAt
  <1>9. /\ \A i \in Items, x \in Stores : move[i][x].reserved = 0
        /\ \A i \in Items, x \in Stores : move[i][x].inTransit = IF x = h.store THEN q[i] ELSE 0
        /\ \A i \in Items : Everywhere(move[i]) = 0
    BY <1>1, <1>3, <1>8
  <1>10. /\ "TRANSFER_OUT" \in TxTypes \ {"ISSUE", "RETURN_FROM_EMPLOYEE"}
         /\ "TRANSFER_OUT" \in TxTypes \ {"ISSUE", "REVERSAL"} /\ "IN_TRANSIT" \in Status
    BY DEF TxTypes, Status
  <1>11. Fresh(d, "TRANSFER_OUT", q)
    BY <1>0, <1>1, DocFresh
  <1>12. TransitIsUnderway'
    <2> SUFFICES ASSUME NEW i \in Items, NEW s \in Stores
                 PROVE  bal'[i][s].inTransit
                           = Sum([e \in {e \in Transfers : Underway(e, s)'} |-> doc'[e].lines[i]],
                                 {e \in Transfers : Underway(e, s)'})
      BY DEF TransitIsUnderway, Underway
    <2>1. bal[i][s].inTransit \in Nat
          /\ bal'[i][s].inTransit
                = bal[i][s].inTransit + IF q[i] > 0 THEN move[i][s].inTransit ELSE 0
      BY <1>0, <1>1, <1>2, <1>8, BalanceMoves DEF Counted
    <2>2. bal'[i][s].inTransit = bal[i][s].inTransit + (Carried(d, i, s)' - Carried(d, i, s))
      BY <1>1, <1>6, <1>9, <2>1
    <2> QED BY <1>0, <1>1, <1>7, <2>2, TransitMoves
  <1>13. HeldAsIssued' /\ CustodyBalances'
    BY <1>0, <1>1, <1>2, <1>8, <1>10, <1>11, CustodyApart
  <1>14. \A i \in Items : Everywhere(move[i]) = Gain(d, "TRANSFER_OUT", q[i], Everywhere(move[i]))
    BY <1>9, GainNone DEF Incoming, Outgoing
  <1>15. Plainly(d, "IN_TRANSIT", "TRANSFER_OUT", q, move)
    BY <1>0, <1>1, <1>2, <1>8, <1>9, <1>10, <1>11, <1>12, <1>13, <1>14 DEF Plainly
  <1> QED BY <1>0, <1>12, <1>13, <1>15, PlainBalances

\* Receiving a transfer does, in full or in part.
LEMMA ReceiveBalances ==
    ASSUME BInv, NEW d \in Docs, Receive(d)
    PROVE  BInv'
  <1> DEFINE q == doc[d].lines
             h == doc[d].head
             move == [i \in Items |-> At2(h.store, Entry(0, 0, 0, -q[i]), h.toStore, Entry(q[i], 0, 0, 0))]
  <1>0. IInv /\ IInv' /\ FinalStep
    BY KindsAssumption, MoveKeeps DEF Receive, PostIssue, BInv, Move
  <1>1. /\ d \in Docs \ (Requests \cup Issues) /\ d \in Docs \ Issues /\ d \in Transfers
        /\ doc[d].status = "IN_TRANSIT" /\ q \in [Items -> Nat] /\ h.store \in Stores
        /\ h.toStore \in Stores /\ h.toStore # h.store
    BY <1>0, DocFacts, KindsAssumption DEF Receive, Docs, BInv, LinesGiven
  <1>2. /\ Post(d, "TRANSFER_IN", q, move) /\ SetStatus(d, "RECEIVED")
        /\ UNCHANGED <<asked, custody, rsv>>
    BY DEF Receive
  <1>3. \A i \in Items : Entry(0, 0, 0, -q[i]) \in Signed /\ Entry(q[i], 0, 0, 0) \in Signed
    BY <1>1 DEF Entry, Signed
  <1>4. /\ move \in [Items -> [Stores -> Signed]]
        /\ \A i \in Items, x \in Stores : move[i][x].reserved = 0
        /\ \A i \in Items, x \in Stores : move[i][x].inTransit = IF x = h.store THEN -q[i] ELSE 0
        /\ \A i \in Items : Everywhere(move[i]) = 0
    <2>1. move \in [Items -> [Stores -> Signed]]
      BY <1>3, At2Type
    <2>2. \A i \in Items, x \in Stores :
             move[i][x].reserved = 0 /\ move[i][x].inTransit = IF x = h.store THEN -q[i] ELSE 0
      BY DEF At2, Zero, Entry
    <2>3. ASSUME NEW i \in Items PROVE Everywhere(move[i]) = 0
      <3> DEFINE e == Entry(0, 0, 0, -q[i])
                 f == Entry(q[i], 0, 0, 0)
                 m == move[i]
      <3>1. e \in Signed /\ f \in Signed /\ m = At2(h.store, e, h.toStore, f)
        BY <1>3
      <3>2. e.onHand + e.inTransit = -q[i] /\ f.onHand + f.inTransit = q[i] /\ q[i] \in Nat
        BY <1>1 DEF Entry
      <3>3. Everywhere(m) = 0
        <4> HIDE DEF e, f, m
        <4>1. Everywhere(m) = e.onHand + e.inTransit + (f.onHand + f.inTransit)
          BY <1>1, <3>1, EverywhereAt2
        <4> QED BY <3>2, <4>1
      <3> QED BY <3>3
    <2> QED BY <2>1, <2>2, <2>3
  <1>5. /\ doc'[d].status = "RECEIVED" /\ doc'[d].head = h /\ doc'[d].lines = q
        /\ \A e \in Docs : e # d => doc'[e] = doc[e]
    BY <1>0, <1>2 DEF SetStatus, IInv, TypeOK, DocType
  <1>6. \A i \in Items, s \in Stores : /\ Carried(d, i, s) = IF s = h.store THEN q[i] ELSE 0
                                       /\ Carried(d, i, s)' = 0
    BY <1>1, <1>5 DEF Carried, Underway
  <1>7. \A e \in Transfers : e # d =>
           \A s \in Stores, i \in Items : Carried(e, i, s)' = Carried(e, i, s)
    BY <1>5 DEF Carried, Underway, Docs
  <1> HIDE DEF move, q, h
  <1>8. /\ "TRANSFER_IN" \in TxTypes \ {"ISSUE", "RETURN_FROM_EMPLOYEE"}
        /\ "TRANSFER_IN" \in TxTypes \ {"ISSUE", "REVERSAL"} /\ "RECEIVED" \in Status
    BY DEF TxTypes, Status
  <1>9. Fresh(d, "TRANSFER_IN", q)
    BY <1>0, <1>1, DocFresh
  <1>10. TransitIsUnderway'
    <2> SUFFICES ASSUME NEW i \in Items, NEW s \in Stores
                 PROVE  bal'[i][s].inTransit
                           = Sum([e \in {e \in Transfers : Underway(e, s)'} |-> doc'[e].lines[i]],
                                 {e \in Transfers : Underway(e, s)'})
      BY DEF TransitIsUnderway, Underway
    <2>1. bal[i][s].inTransit \in Nat
          /\ bal'[i][s].inTransit
                = bal[i][s].inTransit + IF q[i] > 0 THEN move[i][s].inTransit ELSE 0
      BY <1>0, <1>1, <1>2, <1>4, BalanceMoves DEF Counted
    <2>2. bal'[i][s].inTransit = bal[i][s].inTransit + (Carried(d, i, s)' - Carried(d, i, s))
      BY <1>1, <1>4, <1>6, <2>1
    <2> QED BY <1>0, <1>1, <1>7, <2>2, TransitMoves
  <1>11. HeldAsIssued' /\ CustodyBalances'
    BY <1>0, <1>1, <1>2, <1>4, <1>8, <1>9, CustodyApart
  <1>12. \A i \in Items : Everywhere(move[i]) = Gain(d, "TRANSFER_IN", q[i], Everywhere(move[i]))
    BY <1>4, GainNone DEF Incoming, Outgoing
  <1>13. Plainly(d, "RECEIVED", "TRANSFER_IN", q, move)
    BY <1>0, <1>1, <1>2, <1>4, <1>8, <1>9, <1>10, <1>11, <1>12 DEF Plainly
  <1> QED BY <1>0, <1>10, <1>11, <1>13, PlainBalances

\* Posting a return does, on the custody row of the issue it names.
LEMMA ReturnBalances ==
    ASSUME BInv, NEW d \in Docs, PostReturn(d)
    PROVE  BInv'
  <1> DEFINE q == doc[d].lines
             h == doc[d].head
             o == h.original
             entry == [i \in Items |-> Entry(q[i], 0, IF h.damaged THEN q[i] ELSE 0, 0)]
             move == [i \in Items |-> At(h.store, entry[i])]
             back == [i \in Items |-> IF custody[o].held[i] > 0
                                      THEN custody[o].back[i] + q[i] ELSE custody[o].back[i]]
  <1>0. IInv /\ IInv' /\ FinalStep
    BY KindsAssumption, MoveKeeps DEF PostReturn, PostIssue, BInv, Move
  <1>1. /\ d \in Docs \ (Requests \cup Issues) /\ d \in Docs \ Issues /\ d \in Docs \ Transfers
        /\ d \in Returns /\ doc[d].status \in {"DRAFT", "APPROVED"}
        /\ q \in [Items -> Nat] /\ h.store \in Stores
        /\ o \in Issues /\ doc[o].status = "POSTED"
    BY KindsAssumption, <1>0, DocFacts DEF PostReturn, Ready, Docs, Header
  <1>2. /\ Post(d, "RETURN_FROM_EMPLOYEE", q, move) /\ SetStatus(d, "POSTED")
        /\ UNCHANGED <<asked, rsv>> /\ custody' = [custody EXCEPT ![o].back = back]
        /\ WithinIssue(o, q)
    BY DEF PostReturn
  <1>3. \A i \in Items : /\ entry[i] \in Signed /\ entry[i].reserved = 0
                         /\ entry[i].inTransit = 0 /\ entry[i].onHand = q[i]
    BY <1>1 DEF Entry, Signed
  <1>4. entry \in [Items -> Signed] /\ move = [i \in Items |-> At(h.store, entry[i])]
    BY <1>3
  <1>5. custody \in [Issues -> [held: Lines, back: [Items -> Nat]]]
    BY <1>0 DEF IInv, TypeOK, CustodyType
  <1>b. \A i \in Items : /\ custody[o].held[i] \in Nat
                         /\ custody[o].held[i] > 0 => back[i] = custody[o].back[i] + q[i]
    BY <1>1, <1>5, QtyAssumption DEF Lines, Qty
  <1>6. /\ doc'[d].head = h /\ \A e \in Docs : e # d => doc'[e] = doc[e]
    BY <1>0, <1>2 DEF SetStatus, IInv, TypeOK, DocType
  <1>a. o = doc[d].head.original
    OBVIOUS
  <1> HIDE DEF entry, move, q, h, o, back
  <1>c. /\ custody'[o].held = custody[o].held /\ custody'[o].back = back
        /\ \A e \in Issues : e # o => custody'[e] = custody[e]
    BY <1>1, <1>2, <1>5
  <1>7. /\ move \in [Items -> [Stores -> Signed]]
        /\ \A i \in Items, x \in Stores :
              /\ move[i][x].reserved = IF x = h.store THEN entry[i].reserved ELSE 0
              /\ move[i][x].inTransit = IF x = h.store THEN entry[i].inTransit ELSE 0
        /\ \A i \in Items : Everywhere(move[i]) = entry[i].onHand + entry[i].inTransit
    BY <1>1, <1>4, EntriesAt
  <1>8. /\ \A i \in Items, x \in Stores : move[i][x].reserved = 0
        /\ \A i \in Items, x \in Stores : move[i][x].inTransit = 0
        /\ \A i \in Items : Everywhere(move[i]) = q[i] /\ q[i] \in Int
    BY <1>1, <1>3, <1>7
  <1>9. /\ "RETURN_FROM_EMPLOYEE" \in TxTypes \ {"ISSUE", "REVERSAL"} /\ "POSTED" \in Status
        /\ "RETURN_FROM_EMPLOYEE" \in TxTypes /\ "RETURN_FROM_EMPLOYEE" \in Incoming
    BY DEF TxTypes, Status, Incoming
  <1>10. Fresh(d, "RETURN_FROM_EMPLOYEE", q)
    BY <1>0, <1>1, DocFresh DEF Elsewhere
  <1>11. TransitIsUnderway'
    BY <1>0, <1>1, <1>2, <1>7, <1>8, NoTransit
  <1>12. \A i \in Items : Everywhere(move[i]) = Gain(d, "RETURN_FROM_EMPLOYEE", q[i], Everywhere(move[i]))
    BY <1>8, <1>9, GainIn
  <1>d. /\ d \in Returns /\ doc[d].head.original \in Issues
        /\ doc[doc[d].head.original].status = "POSTED"
    BY <1>1, <1>a
  <1>e. "RETURN_FROM_EMPLOYEE" # "OTHER_RECEIPT" /\ doc[d].status # "NONE" /\ "POSTED" \in Status \ {"NONE"}
    BY <1>1, <1>9
  <1>13. Plainly(d, "POSTED", "RETURN_FROM_EMPLOYEE", q, move)
    <2>1. /\ d \in Docs \ (Requests \cup Issues)
          /\ q \in [Items -> Nat] /\ move \in [Items -> [Stores -> Signed]]
          /\ "RETURN_FROM_EMPLOYEE" \in TxTypes \ {"ISSUE", "REVERSAL"}
          /\ UNCHANGED <<asked, rsv>> /\ \A i \in Items, x \in Stores : move[i][x].reserved = 0
      BY <1>1, <1>2, <1>7, <1>8, <1>9
    <2>2. /\ Post(d, "RETURN_FROM_EMPLOYEE", q, move) /\ Fresh(d, "RETURN_FROM_EMPLOYEE", q)
          /\ SetStatus(d, "POSTED")
      BY <1>2, <1>10
    <2> QED BY <1>12, <1>d, <1>e, <2>1, <2>2, Zenon DEF Plainly
  <1>14. Adds(d, "RETURN_FROM_EMPLOYEE", q)
    BY <1>0, <1>1, <1>2, <1>7, <1>9, <1>10, PostAddsUp
  <1>15. \A e \in Issues, i \in Items :
            /\ Prior(e, i) \in Nat /\ Prior(e, i)' = Prior(e, i) + IF e = o THEN q[i] ELSE 0
            /\ Total(e, i, "ISSUE")' = Total(e, i, "ISSUE")
    BY <1>6, <1>0, <1>1, <1>14, PriorAdds, TotalType, <1>a DEF h, BInv, Docs, Adds
  <1>16. HeldAsIssued'
    BY <1>1, <1>6, <1>c, <1>15 DEF HeldAsIssued, Docs, BInv
  <1>17. CustodyBalances'
    BY <1>c, <1>b, <1>15, <1>1, <1>2 DEF CustodyBalances, BInv, HeldAsIssued, WithinIssue
  <1> QED BY <1>0, <1>11, <1>13, <1>16, <1>17, PlainBalances

-----------------------------------------------------------------------------
(* Issues *)

\* What posting an issue does to the documents and to its request.
LEMMA IssueDocs ==
    ASSUME BInv, NEW d \in Docs, PostIssue(d)
    PROVE  /\ d \in Issues /\ d \in Docs \ Requests /\ doc[d].status \in {"DRAFT", "APPROVED"}
           /\ doc[d].lines \in [Items -> Nat] /\ doc[d].head \in Header
           /\ doc[d].head.store \in Stores /\ \E i \in Items : doc[d].lines[i] > 0
           /\ doc'[d].status = "POSTED"
           /\ \A e \in Docs : /\ doc'[e].head = doc[e].head /\ doc'[e].lines = doc[e].lines
                              /\ doc'[e].status = "NONE" <=> doc[e].status = "NONE"
           /\ \A e \in Docs \ Requests : e # d => doc'[e] = doc[e]
  <1> DEFINE q == doc[d].lines
             a == doc[d].head.request
             issued == [i \in Items |-> asked[a].issued[i] + q[i]]
  <1>1. /\ d \in Issues /\ d \in Docs \ Requests /\ doc[d].status \in {"DRAFT", "APPROVED"}
        /\ q \in [Items -> Nat] /\ doc[d].head \in Header /\ doc[d].head.store \in Stores
        /\ \E i \in Items : q[i] > 0
    BY KindsAssumption, DocFacts DEF PostIssue, Ready, Docs, BInv, LinesGiven
  <1>2. DocType
    BY DEF BInv, IInv, TypeOK
  <1>3. CASE a = NULL
    BY <1>3, <1>2, <1>1 DEF PostIssue, SetStatus, DocType
  <1>4. CASE a # NULL
    <2> DEFINE new == Served(a, issued)
    <2>1. a \in Requests /\ a # d /\ a \in Docs
      BY <1>1, <1>4 DEF Header, Docs
    <2>2. /\ doc[a].status \in {"APPROVED", "PARTIALLY_ISSUED"}
          /\ doc' = [doc EXCEPT ![d].status = "POSTED", ![a].status = new]
      BY <1>4 DEF PostIssue
    <2>3. new \in {"PARTIALLY_ISSUED", "FULFILLED"}
      BY DEF Served
    <2> HIDE DEF new
    <2>4. /\ doc'[d].status = "POSTED" /\ doc'[d].head = doc[d].head /\ doc'[d].lines = doc[d].lines
          /\ doc'[a].status = new /\ doc'[a].head = doc[a].head /\ doc'[a].lines = doc[a].lines
          /\ \A e \in Docs : e # d /\ e # a => doc'[e] = doc[e]
      BY <1>2, <2>1, <2>2 DEF DocType
    <2>5. \A e \in Docs : /\ doc'[e].head = doc[e].head /\ doc'[e].lines = doc[e].lines
                          /\ doc'[e].status = "NONE" <=> doc[e].status = "NONE"
      BY <1>1, <2>1, <2>2, <2>3, <2>4
    <2> QED BY <1>1, <2>1, <2>4, <2>5
  <1> QED BY <1>3, <1>4

\* Its request counts the lines and says how far it got.
LEMMA IssueAsked ==
    ASSUME BInv, IInv', NEW d \in Docs, PostIssue(d)
    PROVE  AskedFollows(d, "ISSUE", doc[d].lines) /\ ServedStatus'
  <1> DEFINE q == doc[d].lines
             a == doc[d].head.request
             issued == [i \in Items |-> asked[a].issued[i] + q[i]]
  <1>1. /\ d \in Issues /\ d \in Docs \ Requests
        /\ q \in [Items -> Nat] /\ doc[d].head \in Header /\ \E i \in Items : q[i] > 0
    BY IssueDocs
  <1>2. /\ DocType /\ asked \in [Requests -> [approved: Lines, issued: Lines]]
        /\ \A e \in Requests, i \in Items : asked[e].issued[i] \in Nat
        /\ ServedStatus
    BY QtyAssumption DEF BInv, IInv, TypeOK, AskedType, Lines, Qty, RequestsBalance, ServedStatus
  <1>3. CASE a = NULL
    <2>1. doc' = [doc EXCEPT ![d].status = "POSTED"] /\ UNCHANGED asked
      BY <1>3 DEF PostIssue, SetStatus
    <2>2. \A e \in Requests : doc'[e] = doc[e] /\ asked'[e] = asked[e]
      BY <1>1, <1>2, <2>1 DEF DocType, Docs
    <2>3. ServedStatus'
      BY <1>2, <2>2 DEF ServedStatus
    <2>4. AskedFollows(d, "ISSUE", q)
      <3>1. \A e \in Requests : a # e
        BY <1>3, NullAssumption DEF Docs
      <3>2. \A e \in Requests, i \in Items : asked'[e].issued[i] = asked[e].issued[i]
        BY <2>2
      <3> HIDE DEF q
      <3> QED BY <1>2, <3>1, <3>2 DEF AskedFollows
    <2> QED BY <2>3, <2>4
  <1>4. CASE a # NULL
    <2> DEFINE new == Served(a, issued)
    <2>1. a \in Requests /\ a # d /\ a \in Docs
      BY <1>1, <1>4 DEF Header, Docs
    <2>2. /\ asked' = [asked EXCEPT ![a].issued = issued]
          /\ doc' = [doc EXCEPT ![d].status = "POSTED", ![a].status = new]
      BY <1>4 DEF PostIssue
    <2>3. \A i \in Items : issued[i] = asked[a].issued[i] + q[i] /\ issued[i] \in Nat
      BY <1>1, <1>2, <2>1
    <2>4. issued # NoLines
      <3>1. PICK i \in Items : q[i] > 0
        BY <1>1
      <3>2. asked[a].issued[i] \in Nat /\ q[i] \in Nat
        BY <1>1, <1>2, <2>1
      <3>3. issued[i] # NoLines[i]
        BY <2>3, <3>1, <3>2 DEF NoLines
      <3> HIDE DEF issued
      <3> QED BY <3>3
    <2>a. issued = [i \in Items |-> issued[i]]
      OBVIOUS
    <2> HIDE DEF issued, new
    <2>5. /\ doc'[a].status = new
          /\ \A e \in Requests : e # a => doc'[e] = doc[e]
      BY <1>1, <1>2, <2>1, <2>2 DEF DocType, Docs
    <2>6. /\ asked'[a].issued = issued /\ asked'[a].approved = asked[a].approved
          /\ \A e \in Requests : e # a => asked'[e] = asked[e]
      BY <1>2, <2>1, <2>2
    <2>7. AskedFollows(d, "ISSUE", q)
      BY <1>1, <1>2, <2>3, <2>6 DEF AskedFollows
    <2>8. ServedStatus'
      <3>1. \A e \in Requests : e # a =>
              /\ doc'[e].status = "FULFILLED" => asked'[e].issued = asked'[e].approved
              /\ doc'[e].status = "PARTIALLY_ISSUED" =>
                    asked'[e].issued \notin {asked'[e].approved, NoLines}
        BY <1>2, <2>5, <2>6 DEF ServedStatus
      <3>2. CASE \E i \in Items : issued[i] < asked[a].approved[i]
        <4>1. new = "PARTIALLY_ISSUED"
          BY <3>2 DEF new, Served
        <4>2. issued # asked[a].approved
          BY <3>2, <1>2, <2>1, <2>3, QtyAssumption DEF Lines, Qty
        <4> QED BY <2>4, <2>5, <2>6, <3>1, <4>1, <4>2 DEF ServedStatus
      <3>3. CASE ~\E i \in Items : issued[i] < asked[a].approved[i]
        <4>1. new = "FULFILLED"
          BY <3>3 DEF new, Served
        <4>2. issued = asked[a].approved
          <5>1. \A i \in Items : issued[i] <= asked[a].approved[i]
            BY <2>1, <2>6 DEF IInv, WithinApproved
          <5>2. \A i \in Items : issued[i] \in Nat /\ asked[a].approved[i] \in Nat
            BY <1>2, <2>1, <2>3, QtyAssumption DEF Lines, Qty
          <5>3. \A i \in Items : issued[i] = asked[a].approved[i]
            BY <3>3, <5>1, <5>2
          <5>4. asked[a].approved = [i \in Items |-> asked[a].approved[i]]
            BY <1>2, <2>1 DEF Lines
          <5> QED BY <2>a, <5>3, <5>4
        <4> QED BY <2>5, <2>6, <3>1, <4>1, <4>2 DEF ServedStatus
      <3> QED BY <3>2, <3>3
    <2> QED BY <2>7, <2>8
  <1> QED BY <1>3, <1>4

\* What posting an issue does to the reservation it names.
LEMMA IssueTakes ==
    ASSUME BInv, NEW d \in Docs, PostIssue(d), NEW r, r = doc[d].head.reservation, r # NULL
    PROVE  /\ r \in Reservations /\ rsv[r].status = "ACTIVE"
           /\ rsv[r].item \in Items /\ rsv[r].store = doc[d].head.store
           /\ \A i \in Items : doc[d].lines[i] > 0 <=> i = rsv[r].item
           /\ rsv'[r].done = rsv[r].done + doc[d].lines[rsv[r].item]
           /\ rsv'[r].item = rsv[r].item /\ rsv'[r].store = rsv[r].store /\ rsv'[r].q = rsv[r].q
           /\ rsv'[r].status = IF rsv'[r].done = rsv[r].q THEN "FULFILLED" ELSE "ACTIVE"
           /\ \A e \in Reservations : e # r => rsv'[e] = rsv[e]
  <1> DEFINE q == doc[d].lines
  <1>1. /\ r \in Reservations /\ RsvType /\ \E i \in Items : q[i] > 0
    BY IssueDocs DEF Header, BInv, IInv, TypeOK
  <1>2. Covers(r, d) /\ \E i \in Posting(d) : rsv' = Fulfil(r, q[i])
    BY DEF PostIssue
  <1>3. PICK i \in Items : q[i] > 0 /\ rsv' = Fulfil(r, q[i])
    BY <1>2 DEF Posting
  <1>4. /\ rsv[r].status = "ACTIVE" /\ rsv[r].store = doc[d].head.store
        /\ \A j \in Items : q[j] > 0 => rsv[r].item = j
    BY <1>2, <1>3 DEF Covers, Posting
  <1>5. rsv[r].item = i /\ \A j \in Items : q[j] > 0 <=> j = i
    BY <1>3, <1>4
  <1> DEFINE n == rsv[r].done + q[i]
             new == IF n = rsv[r].q THEN "FULFILLED" ELSE rsv[r].status
  <1>6. rsv' = [rsv EXCEPT ![r].done = n, ![r].status = new]
    BY <1>3 DEF Fulfil
  <1> HIDE DEF n, new
  <1>7. /\ rsv'[r].done = n /\ rsv'[r].status = new /\ rsv'[r].q = rsv[r].q
        /\ rsv'[r].item = rsv[r].item /\ rsv'[r].store = rsv[r].store
        /\ \A e \in Reservations : e # r => rsv'[e] = rsv[e]
    BY <1>1, <1>6 DEF RsvType
  <1> QED BY <1>1, <1>4, <1>5, <1>7 DEF n, new

\* The reservations count the issue and stay in step with their status.
LEMMA IssueDone ==
    ASSUME BInv, NEW d \in Docs, PostIssue(d)
    PROVE  /\ DoneFollows(d, "ISSUE", doc[d].lines) /\ DoneStatus' /\ ReservesItem'
           /\ \A r \in Reservations : rsv[r].status # "NONE" => rsv'[r].status # "NONE"
  <1> DEFINE q == doc[d].lines
             r == doc[d].head.reservation
  <1>1. /\ d \in Issues /\ q \in [Items -> Nat]
    BY IssueDocs
  <1>2. /\ \A e \in Reservations : rsv[e].done \in Nat /\ rsv[e].q \in Nat
        /\ DoneStatus /\ ReservesItem
    <2>1. \A e \in Reservations : rsv[e].done \in Nat /\ rsv[e].q \in Nat
      BY QtyAssumption DEF BInv, IInv, TypeOK, RsvType, Qty
    <2>2. DoneStatus /\ ReservesItem
      BY DEF BInv, ReservationsBalance, DoneStatus
    <2> QED BY <2>1, <2>2
  <1> HIDE DEF q
  <1>3. CASE r = NULL
    <2>1. rsv' = rsv
      BY <1>3 DEF PostIssue
    <2>2. \A e \in Reservations : r # e
      BY <1>3, NullAssumption
    <2>3. DoneStatus' /\ ReservesItem'
      BY <1>2, <2>1 DEF DoneStatus, ReservesItem
    <2>4. DoneFollows(d, "ISSUE", q)
      BY <1>2, <2>1, <2>2 DEF DoneFollows
    <2> QED BY <2>1, <2>3, <2>4 DEF q
  <1>4. CASE r # NULL
    <2>0. r = doc[d].head.reservation
      OBVIOUS
    <2> HIDE DEF r
    <2>1. /\ r \in Reservations /\ rsv[r].status = "ACTIVE"
          /\ rsv[r].item \in Items /\ rsv[r].store = doc[d].head.store
          /\ \A i \in Items : q[i] > 0 <=> i = rsv[r].item
          /\ rsv'[r].done = rsv[r].done + q[rsv[r].item]
          /\ rsv'[r].item = rsv[r].item /\ rsv'[r].store = rsv[r].store /\ rsv'[r].q = rsv[r].q
          /\ rsv'[r].status = IF rsv'[r].done = rsv[r].q THEN "FULFILLED" ELSE "ACTIVE"
          /\ \A e \in Reservations : e # r => rsv'[e] = rsv[e]
      BY <1>4, <2>0, IssueTakes DEF q
    <2>2. DoneStatus' /\ ReservesItem'
      BY <1>2, <2>1 DEF DoneStatus, ReservesItem
    <2>3. DoneFollows(d, "ISSUE", q)
      BY <2>1, <1>1, <2>0, <1>2 DEF DoneFollows
    <2>4. \A e \in Reservations : rsv[e].status # "NONE" => rsv'[e].status # "NONE"
      BY <2>1
    <2> QED BY <2>2, <2>3, <2>4 DEF q
  <1> QED BY <1>3, <1>4

\* The entries of an issue: n leaves, and the promise of its reservation with it.
IssueMove(d) == [i \in Items |-> At(doc[d].head.store, IssueEntry(d, doc[d].lines[i]))]

\* What these entries reserve, have in transit and add up to.
LEMMA IssueEntries ==
    ASSUME BInv, NEW d \in Docs, PostIssue(d)
    PROVE  /\ IssueMove(d) \in [Items -> [Stores -> Signed]]
           /\ Post(d, "ISSUE", doc[d].lines, IssueMove(d))
           /\ \A i \in Items, s \in Stores :
                 /\ IssueMove(d)[i][s].inTransit = 0
                 /\ IssueMove(d)[i][s].reserved =
                       IF s = doc[d].head.store /\ doc[d].head.reservation # NULL
                       THEN -doc[d].lines[i] ELSE 0
           /\ \A i \in Items : Everywhere(IssueMove(d)[i]) = -doc[d].lines[i]
  <1> DEFINE q == doc[d].lines
             entry == [i \in Items |-> IssueEntry(d, q[i])]
  <1>1. q \in [Items -> Nat] /\ doc[d].head.store \in Stores
    BY IssueDocs
  <1>2. Post(d, "ISSUE", q, IssueMove(d))
    BY DEF PostIssue, IssueMove, IssueEntry
  <1>3. \A i \in Items :
           /\ entry[i] \in Signed /\ entry[i].onHand = -q[i] /\ entry[i].inTransit = 0
           /\ entry[i].reserved = IF doc[d].head.reservation # NULL THEN -q[i] ELSE 0
    BY <1>1 DEF IssueEntry, Entry, Signed
  <1>4. entry \in [Items -> Signed] /\ IssueMove(d) = [i \in Items |-> At(doc[d].head.store, entry[i])]
    BY <1>3 DEF IssueMove
  <1> HIDE DEF entry
  <1>5. /\ IssueMove(d) \in [Items -> [Stores -> Signed]]
        /\ \A i \in Items, s \in Stores :
              /\ IssueMove(d)[i][s].reserved = IF s = doc[d].head.store THEN entry[i].reserved ELSE 0
              /\ IssueMove(d)[i][s].inTransit = IF s = doc[d].head.store THEN entry[i].inTransit ELSE 0
        /\ \A i \in Items : Everywhere(IssueMove(d)[i]) = entry[i].onHand + entry[i].inTransit
    BY <1>1, <1>4, EntriesAt
  <1>6. \A i \in Items : Everywhere(IssueMove(d)[i]) = -q[i]
    BY <1>1, <1>3, <1>5
  <1> QED BY <1>2, <1>3, <1>5, <1>6

\* What the issue takes off the shelf it takes off the promise of its reservation.
LEMMA IssueReserved ==
    ASSUME BInv, NEW d \in Docs, PostIssue(d), NEW i \in Items, NEW s \in Stores
    PROVE  /\ bal[i][s].reserved \in Nat /\ doc[d].lines[i] \in Nat
           /\ bal'[i][s].reserved = bal[i][s].reserved
                + IF s = doc[d].head.store /\ doc[d].head.reservation # NULL
                  THEN -doc[d].lines[i] ELSE 0
  <1> DEFINE q == doc[d].lines
  <1>1. q \in [Items -> Nat]
    BY IssueDocs
  <1>2. /\ IssueMove(d) \in [Items -> [Stores -> Signed]]
        /\ Post(d, "ISSUE", q, IssueMove(d))
        /\ IssueMove(d)[i][s].reserved =
              IF s = doc[d].head.store /\ doc[d].head.reservation # NULL THEN -q[i] ELSE 0
    BY IssueEntries
  <1> HIDE DEF q
  <1>3. /\ bal[i][s].reserved \in Nat
        /\ bal'[i][s].reserved
             = bal[i][s].reserved + IF q[i] > 0 THEN IssueMove(d)[i][s].reserved ELSE 0
    BY <1>1, <1>2, BalanceMoves DEF BInv, Counted
  <1>4. q[i] \in Nat
    BY <1>1
  <1> QED BY <1>2, <1>3, <1>4 DEF q

\* The promise of that reservation, before and after.
LEMMA IssueFulfils ==
    ASSUME BInv, NEW d \in Docs, PostIssue(d), NEW r, r = doc[d].head.reservation, r # NULL,
           NEW i \in Items, NEW s \in Stores
    PROVE  bal'[i][s].reserved = bal[i][s].reserved + (Promise(r, i, s)' - Promise(r, i, s))
  <1> DEFINE n == doc[d].lines[i]
             s0 == doc[d].head.store
  <1>1. /\ r \in Reservations /\ rsv[r].status = "ACTIVE"
        /\ rsv[r].store = s0 /\ (n > 0 <=> i = rsv[r].item)
        /\ i = rsv[r].item => rsv'[r].done = rsv[r].done + n
        /\ rsv'[r].item = rsv[r].item /\ rsv'[r].store = rsv[r].store /\ rsv'[r].q = rsv[r].q
        /\ rsv'[r].status = IF rsv'[r].done = rsv[r].q THEN "FULFILLED" ELSE "ACTIVE"
    BY IssueTakes
  <1>2. /\ bal[i][s].reserved \in Nat /\ n \in Nat
        /\ bal'[i][s].reserved = bal[i][s].reserved + IF s = s0 THEN -n ELSE 0
    BY IssueReserved
  <1> HIDE DEF n, s0
  <1>3. rsv[r].q \in Nat /\ rsv[r].done \in Nat
    BY <1>1, QtyAssumption DEF BInv, IInv, TypeOK, RsvType, Qty
  <1>4. Promise(r, i, s) = IF i = rsv[r].item /\ s = s0 THEN rsv[r].q - rsv[r].done ELSE 0
    BY <1>1 DEF Promise, Open
  <1>5. Promise(r, i, s)' = IF i = rsv[r].item /\ s = s0 THEN rsv[r].q - rsv'[r].done ELSE 0
    BY <1>1, <1>3 DEF Promise, Open
  <1>6. CASE i = rsv[r].item /\ s = s0
    BY <1>1, <1>2, <1>3, <1>4, <1>5, <1>6
  <1>7. CASE i # rsv[r].item
    BY <1>1, <1>2, <1>7, <1>4, <1>5
  <1>8. CASE s # s0
    BY <1>2, <1>4, <1>5, <1>8
  <1> QED BY <1>6, <1>7, <1>8

\* So what is reserved stays what is promised.
LEMMA IssuePromised ==
    ASSUME BInv, IInv', NEW d \in Docs, PostIssue(d), NEW r, r = doc[d].head.reservation
    PROVE  ReservedIsPromised'
  <1>1. CASE r = NULL
    <2>1. rsv' = rsv
      BY <1>1 DEF PostIssue
    <2>2. ASSUME NEW i \in Items, NEW s \in Stores
          PROVE  bal'[i][s].reserved = bal[i][s].reserved
      <3>1. /\ bal[i][s].reserved \in Nat
            /\ bal'[i][s].reserved = bal[i][s].reserved
                 + IF s = doc[d].head.store /\ doc[d].head.reservation # NULL
                   THEN -doc[d].lines[i] ELSE 0
        BY IssueReserved
      <3>2. doc[d].head.reservation = NULL
        BY <1>1
      <3>3. bal'[i][s].reserved = bal[i][s].reserved + 0
        BY <3>1, <3>2, Zenon
      <3> QED BY <3>1, <3>3
    <2> QED BY <2>1, <2>2, PromisesStay
  <1>2. CASE r # NULL
    BY <1>2, IssueTakes, IssueFulfils, PromisesMove DEF ReservedIsPromised, Open
  <1> QED BY <1>1, <1>2

\* Nothing was returned of an issue that was not posted.
LEMMA NoneBack ==
    ASSUME BInv, NEW d \in Issues, doc[d].status # "POSTED", NEW i \in Items
    PROVE  Prior(d, i) = 0
  <1> DEFINE T == {e \in Returns : doc[e].head.original = d}
             f == [e \in T |-> Total(e, i, "RETURN_FROM_EMPLOYEE")]
  <1>1. \A e \in T : Total(e, i, "RETURN_FROM_EMPLOYEE") = 0
    BY SumEmpty DEF BInv, Recorded, AsReturned, Total, Quantity
  <1>2. IsFiniteSet(T)
    BY FiniteAssumption, FS_Subset DEF Docs
  <1>3. \A e \in T : f[e] = 0
    BY <1>1
  <1>4. Prior(d, i) = Sum(f, T)
    BY DEF Prior, ReturnsOf
  <1> HIDE DEF f, T
  <1> QED BY <1>2, <1>3, <1>4, SumZero

\* Custody starts with what the issue moved of what is returnable.
LEMMA IssueCustody ==
    ASSUME BInv, FinalStep, NEW d \in Docs, PostIssue(d), Adds(d, "ISSUE", doc[d].lines)
    PROVE  HeldAsIssued' /\ CustodyBalances'
  <1> DEFINE q == doc[d].lines
             held == [i \in Items |-> IF i \in returnable THEN q[i] ELSE 0]
  <1>1. /\ d \in Issues /\ d \in Docs \ Requests /\ doc[d].status # "POSTED"
        /\ q \in [Items -> Nat] /\ doc'[d].status = "POSTED" /\ doc'[d].head = doc[d].head
        /\ \A e \in Issues : e # d => doc'[e] = doc[e]
    BY IssueDocs, KindsAssumption DEF Docs
  <1>2. custody \in [Issues -> [held: Lines, back: [Items -> Nat]]]
    BY DEF BInv, IInv, TypeOK, CustodyType
  <1>3. custody' = [custody EXCEPT ![d].held = held]
    BY DEF PostIssue
  <1>4. /\ custody'[d].held = held /\ custody'[d].back = custody[d].back
        /\ \A e \in Issues : e # d => custody'[e] = custody[e]
    <2> HIDE DEF held
    <2> QED BY <1>1, <1>2, <1>3
  <1>5. \A i \in Items : held[i] > 0 => held[i] = q[i]
    BY <1>1
  <1>6. custody[d] = [held |-> NoLines, back |-> NoLines]
    BY <1>1 DEF BInv, HeldAsIssued
  <1>7. \A i \in Items : custody'[d].back[i] = 0
    BY <1>4, <1>6 DEF NoLines
  <1> HIDE DEF held, q
  <1>8. \A e \in Issues, i \in Items :
           /\ Total(e, i, "ISSUE") \in Nat
           /\ Total(e, i, "ISSUE")' = Total(e, i, "ISSUE") + IF e = d THEN q[i] ELSE 0
    BY <1>1, TotalType DEF BInv, Adds, Docs, q
  <1>9. \A i \in Items : Total(d, i, "ISSUE") = 0
    BY <1>1, TotalOfPosted DEF BInv
  <1>10. \A e \in Issues, i \in Items : Prior(e, i)' = Prior(e, i)
    BY <1>1, PriorAdds DEF BInv, q
  <1>11. HeldAsIssued'
    BY <1>1, <1>5, <1>8, <1>9, <1>4 DEF HeldAsIssued, BInv
  <1>12. CustodyBalances'
    BY <1>1, NoneBack, <1>4, <1>5, <1>7, <1>10 DEF CustodyBalances, BInv
  <1> QED BY <1>11, <1>12

\* Posting an issue keeps every sum.
LEMMA IssueBalances ==
    ASSUME BInv, NEW d \in Docs, PostIssue(d)
    PROVE  BInv'
  <1> DEFINE q == doc[d].lines
             move == IssueMove(d)
  <1>0. IInv /\ IInv' /\ FinalStep
    BY IssueKeeps DEF BInv
  <1>1. /\ d \in Issues /\ d \in Docs \ Requests /\ doc[d].status \in {"DRAFT", "APPROVED"}
        /\ q \in [Items -> Nat] /\ doc[d].head.store \in Stores
        /\ doc'[d].status = "POSTED"
        /\ \A e \in Docs : /\ doc'[e].head = doc[e].head /\ doc'[e].lines = doc[e].lines
                           /\ doc'[e].status = "NONE" <=> doc[e].status = "NONE"
        /\ \A e \in Docs \ Requests : e # d => doc'[e] = doc[e]
    BY IssueDocs
  <1>2. /\ move \in [Items -> [Stores -> Signed]] /\ Post(d, "ISSUE", q, move)
        /\ \A i \in Items, s \in Stores : move[i][s].inTransit = 0
        /\ \A i \in Items : Everywhere(move[i]) = -q[i]
        /\ \A i \in Items : move[i] = At(doc[d].head.store, IssueEntry(d, q[i]))
    BY IssueEntries DEF IssueMove
  <1>3. "ISSUE" \in TxTypes /\ "ISSUE" \in Outgoing
    BY DEF TxTypes, Reversible, Outgoing
  <1>4. AskedFollows(d, "ISSUE", q) /\ ServedStatus'
    BY <1>0, IssueAsked
  <1>5. /\ DoneFollows(d, "ISSUE", q) /\ DoneStatus' /\ ReservesItem'
        /\ \A r \in Reservations : rsv[r].status # "NONE" => rsv'[r].status # "NONE"
    BY IssueDone
  <1>6. ReservedIsPromised'
    BY <1>0, IssuePromised
  <1> HIDE DEF move
  <1>7. Fresh(d, "ISSUE", q)
    BY <1>0, <1>1, DocFresh DEF Elsewhere
  <1>8. Adds(d, "ISSUE", q)
    <2> HIDE DEF q
    <2> QED BY <1>1, <1>2, <1>3, <1>7, PostAddsUp
  <1>9. HeldAsIssued' /\ CustodyBalances'
    BY <1>0, <1>8, IssueCustody
  <1>10. doc[d].head.reservation # NULL => rsv[doc[d].head.reservation].status # "NONE"
    BY IssueTakes
  <1>a. doc[d].head.reservation # NULL => doc[d].head.reservation \in Reservations
    BY IssueTakes
  <1>11. LinesGiven'
    BY <1>1 DEF BInv, LinesGiven
  <1>12. TransitIsUnderway'
    <2>1. \A e \in Transfers : doc'[e] = doc[e]
      BY <1>1, KindsAssumption DEF Docs
    <2>2. \A e \in Transfers, i \in Items, s \in Stores : Carried(e, i, s)' = Carried(e, i, s)
      BY <2>1 DEF Carried, Underway
    <2>3. \A i \in Items, s \in Stores : bal'[i][s].inTransit = bal[i][s].inTransit
      <3> SUFFICES ASSUME NEW i \in Items, NEW s \in Stores
                   PROVE  bal'[i][s].inTransit = bal[i][s].inTransit
        OBVIOUS
      <3>1. /\ bal[i][s].inTransit \in Nat
            /\ bal'[i][s].inTransit
                 = bal[i][s].inTransit + IF q[i] > 0 THEN move[i][s].inTransit ELSE 0
        <4> HIDE DEF q
        <4> QED BY <1>0, <1>1, <1>2, BalanceMoves DEF Counted
      <3> QED BY <1>2, <3>1
    <2> QED BY <1>0, <2>2, <2>3, TransitStays
  <1>13. \A t \in ledger' \ ledger :
              AsIssued(t)' /\ AsReceived(t)' /\ AsReturned(t)' /\ AsReversed(t)'
    <2> SUFFICES ASSUME NEW t \in ledger' \ ledger
                 PROVE  AsIssued(t)' /\ AsReceived(t)' /\ AsReturned(t)' /\ AsReversed(t)'
      OBVIOUS
    <2>1. t.source = d /\ t.type = "ISSUE" /\ t.item \in Items /\ t.q = q[t.item] /\ t.move = move[t.item]
      <3> HIDE DEF q
      <3> QED BY <1>2, PostNew
    <2>2. AsReceived(t)' /\ AsReturned(t)' /\ AsReversed(t)'
      BY <2>1 DEF AsReceived, AsReturned, AsReversed
    <2>3. AsIssued(t)'
      BY <1>1, <1>2, <2>1, <1>5, <1>10, <1>a DEF IssueEntry, AsIssued
    <2> QED BY <2>2, <2>3
  <1>14. \A i \in Items : Everywhere(move[i]) = Gain(d, "ISSUE", q[i], Everywhere(move[i]))
    <2>1. \A i \in Items : q[i] \in Int
      BY <1>1
    <2> HIDE DEF q
    <2> QED BY <1>2, <1>3, <2>1, GainOut
  <1>15. doc'[d].head = doc[d].head /\ d \in Docs \cup Reservations
    BY <1>1
  <1> HIDE DEF q
  <1> QED BY <1>0, <1>1, <1>2, <1>3, <1>4, <1>5, <1>6, <1>7, <1>9, <1>11, <1>12, <1>13,
             <1>14, <1>15, PostBalances

-----------------------------------------------------------------------------
(* Reservations and reversals *)

\* What the posting of a reservation has to show: n of the promise of item i at
\* store s is made or given back.
Promising(r, type, i, s, n, m) ==
    /\ r \in Reservations /\ type \in {"RESERVATION", "RESERVATION_RELEASE"}
    /\ i \in Items /\ s \in Stores /\ n \in Nat /\ m \in Int /\ (n = 0 => m = 0)
    /\ Post(r, type, Only(i, n), [j \in Items |-> At(s, Entry(0, m, 0, 0))])
    /\ Fresh(r, type, Only(i, n))
    /\ \A e \in Reservations : e # r => rsv'[e] = rsv[e]
    /\ rsv'[r].status \notin {"NONE", "FULFILLED"} /\ rsv'[r].done # rsv'[r].q
    /\ rsv'[r].item = i /\ rsv'[r].store = s
    /\ \/ rsv[r].status # "NONE" /\ rsv[r].item = i /\ rsv'[r].done = rsv[r].done
       \/ rsv[r].status = "NONE" /\ rsv'[r].done = 0
    /\ \A j \in Items, x \in Stores :
          Promise(r, j, x)' = Promise(r, j, x) + IF j = i /\ x = s THEN m ELSE 0
    /\ UNCHANGED <<doc, asked, counting, custody>>

\* The reservations and the buckets after it.
LEMMA PromisingKeeps ==
    ASSUME BInv, IInv', NEW r, NEW type, NEW i, NEW s, NEW n, NEW m,
           Promising(r, type, i, s, n, m), NEW q, q = Only(i, n)
    PROVE  /\ ReservedIsPromised' /\ TransitIsUnderway' /\ ReservesItem'
           /\ DoneFollows(r, type, q) /\ DoneStatus'
           /\ [j \in Items |-> At(s, Entry(0, m, 0, 0))] \in [Items -> [Stores -> Signed]]
           /\ \A j \in Items : Everywhere(At(s, Entry(0, m, 0, 0))) = 0
           /\ q \in [Items -> Nat]
  <1> DEFINE e0 == [j \in Items |-> Entry(0, m, 0, 0)]
             move == [j \in Items |-> At(s, Entry(0, m, 0, 0))]
  <1>1. /\ r \in Reservations /\ r \notin Issues /\ type # "ISSUE" /\ i \in Items /\ s \in Stores
        /\ n \in Nat /\ m \in Int /\ (n = 0 => m = 0)
        /\ Post(r, type, q, move)
    BY NullAssumption DEF Promising, Docs
  <1>2. \A j \in Items : q[j] = IF j = i THEN n ELSE 0
    BY DEF Only
  <1>3. q \in [Items -> Nat]
    BY <1>1 DEF Only
  <1>4. \A j \in Items : /\ e0[j] \in Signed /\ e0[j].reserved = m
                         /\ e0[j].inTransit = 0 /\ e0[j].onHand = 0
    BY <1>1 DEF Entry, Signed
  <1>5. /\ e0 \in [Items -> Signed] /\ move = [j \in Items |-> At(s, e0[j])]
        /\ \A j \in Items : move[j] = At(s, Entry(0, m, 0, 0))
    BY <1>4
  <1> HIDE DEF e0, move
  <1>6. /\ move \in [Items -> [Stores -> Signed]]
        /\ \A j \in Items, x \in Stores :
              /\ move[j][x].reserved = IF x = s THEN e0[j].reserved ELSE 0
              /\ move[j][x].inTransit = IF x = s THEN e0[j].inTransit ELSE 0
        /\ \A j \in Items : Everywhere(move[j]) = e0[j].onHand + e0[j].inTransit
    BY <1>1, <1>5, EntriesAt
  <1>7. \A j \in Items, x \in Stores :
           /\ bal[j][x] \in Counted
           /\ bal'[j][x].reserved = bal[j][x].reserved + IF j = i /\ x = s THEN m ELSE 0
           /\ bal'[j][x].inTransit = bal[j][x].inTransit
    BY <1>1, <1>3, <1>6, BalanceMoves, <1>2, <1>4 DEF BInv, Counted
  <1>8. ReservedIsPromised'
    <2> SUFFICES ASSUME NEW j \in Items, NEW x \in Stores
                 PROVE  bal'[j][x].reserved
                          = Sum([e \in {e \in Reservations : Open(e, j, x)'} |-> rsv'[e].q - rsv'[e].done],
                                {e \in Reservations : Open(e, j, x)'})
      BY DEF ReservedIsPromised, Open
    <2>1. Promise(r, j, x) \in Int
      BY <1>1, QtyAssumption DEF Promise, BInv, IInv, TypeOK, RsvType, Qty
    <2>2. Promise(r, j, x)' = Promise(r, j, x) + IF j = i /\ x = s THEN m ELSE 0
      BY DEF Promising
    <2>3. bal'[j][x].reserved = bal[j][x].reserved + (Promise(r, j, x)' - Promise(r, j, x))
      BY <1>1, <1>7, <2>1, <2>2
    <2>4. \A e \in Reservations : e # r => rsv'[e] = rsv[e]
      BY DEF Promising
    <2> QED BY <1>1, <2>3, <2>4, PromisesMove
  <1>9. TransitIsUnderway'
    BY <1>7, TransitStays DEF Promising, Carried, Underway
  <1>10. ReservesItem'
    BY <1>1 DEF Promising, ReservesItem, BInv
  <1>11. DoneFollows(r, type, q)
    BY QtyAssumption, <1>1 DEF BInv, IInv, TypeOK, RsvType, Qty, Promising, DoneFollows
  <1>12. DoneStatus'
    <2>1. DoneStatus
      BY DEF BInv, ReservationsBalance, DoneStatus
    <2> QED BY <1>1, <2>1 DEF Promising, DoneStatus
  <1>13. \A j \in Items : Everywhere(At(s, Entry(0, m, 0, 0))) = 0
    BY <1>4, <1>5, <1>6
  <1> QED BY <1>3, <1>6, <1>8, <1>9, <1>10, <1>11, <1>12, <1>13 DEF move

\* It keeps every sum.
LEMMA PromisingBalances ==
    ASSUME BInv, IInv', FinalStep, NEW r, NEW type, NEW i, NEW s, NEW n, NEW m,
           Promising(r, type, i, s, n, m)
    PROVE  BInv'
  <1> DEFINE q == Only(i, n)
             move == [j \in Items |-> At(s, Entry(0, m, 0, 0))]
  <1>1. /\ ReservedIsPromised' /\ TransitIsUnderway' /\ ReservesItem'
        /\ DoneFollows(r, type, q) /\ DoneStatus'
        /\ move \in [Items -> [Stores -> Signed]]
        /\ \A j \in Items : Everywhere(move[j]) = 0
        /\ q \in [Items -> Nat]
    BY PromisingKeeps
  <1>2. Post(r, type, q, move) /\ Fresh(r, type, q) /\ UNCHANGED <<doc, asked, counting, custody>>
    BY DEF Promising
  <1>3. /\ r \in Docs \cup Reservations /\ r \notin Docs /\ r \notin Issues /\ type \in TxTypes
        /\ type \notin {"ISSUE", "RETURN_FROM_EMPLOYEE"}
        /\ type \notin Incoming \cup Outgoing \cup {"STOCK_COUNT_ADJUSTMENT", "REVERSAL"}
    BY NullAssumption DEF Promising, TxTypes, Docs, Incoming, Outgoing
  <1>4. \A e \in Reservations : rsv[e].status # "NONE" => rsv'[e].status # "NONE"
    BY DEF Promising
  <1> HIDE DEF q, move
  <1>5. \A t \in ledger' \ ledger :
              AsIssued(t)' /\ AsReceived(t)' /\ AsReturned(t)' /\ AsReversed(t)'
    BY <1>2, PostNew DEF Promising, AsIssued, AsReceived, AsReturned, AsReversed
  <1>6. Adds(r, type, q)
    BY <1>1, <1>2, <1>3, PostAddsUp
  <1>7. HeldAsIssued' /\ CustodyBalances'
    BY <1>1, <1>2, <1>3, <1>6, CustodyStays
  <1>8. LinesGiven' /\ ServedStatus'
    BY <1>2 DEF BInv, LinesGiven, RequestsBalance, ServedStatus
  <1>9. AskedFollows(r, type, q)
    BY QtyAssumption, <1>2, <1>3 DEF BInv, IInv, TypeOK, AskedType, Lines, Qty, AskedFollows
  <1>10. \A j \in Items : Everywhere(move[j]) = Gain(r, type, q[j], Everywhere(move[j]))
    BY <1>1, <1>3, GainNone
  <1> QED BY <1>1, <1>2, <1>3, <1>4, <1>5, <1>7, <1>8, <1>9, <1>10, PostBalances

\* A new reservation promises what it reserves; a release gives back what is left.
LEMMA ReservationBalances ==
    ASSUME BInv, NEW r \in Reservations, Reserve(r) \/ Release(r)
    PROVE  BInv'
  <1>0. IInv' /\ FinalStep
    BY ReservationKeeps DEF BInv
  <1>1. RsvType /\ IInv /\ rsv[r].q \in Nat /\ rsv[r].done \in Nat /\ rsv[r].done <= rsv[r].q
    BY QtyAssumption DEF BInv, IInv, TypeOK, RsvType, Qty, WithinReserved
  <1>2. ASSUME NEW type \in {"RESERVATION", "RESERVATION_RELEASE"}, NEW q,
               type = "RESERVATION" => rsv[r].status = "NONE",
               type = "RESERVATION_RELEASE" => rsv[r].status = "ACTIVE"
        PROVE  Fresh(r, type, q)
    BY <1>1, <1>2 DEF Fresh, IInv, SourcesLeft, Left
  <1>3. CASE Reserve(r)
    <2>1. PICK i \in Items, s \in Stores, n \in Qty \ {0} :
             /\ rsv[r].status = "NONE"
             /\ rsv' = [rsv EXCEPT ![r] = [status |-> "ACTIVE", item |-> i, store |-> s,
                                           q |-> n, done |-> 0, lapsed |-> FALSE]]
             /\ Post(r, "RESERVATION", Only(i, n), [j \in Items |-> At(s, Entry(0, n, 0, 0))])
             /\ UNCHANGED <<archived, returnable, doc, asked, counting, custody>>
      BY <1>3 DEF Reserve
    <2>2. n \in Nat /\ n \in Int /\ n # 0
      BY QtyAssumption DEF Qty
    <2>3. /\ rsv'[r].status = "ACTIVE" /\ rsv'[r].item = i /\ rsv'[r].store = s
          /\ rsv'[r].q = n /\ rsv'[r].done = 0
          /\ \A e \in Reservations : e # r => rsv'[e] = rsv[e]
      BY <1>1, <2>1 DEF RsvType
    <2>4. Fresh(r, "RESERVATION", Only(i, n))
      BY <1>2, <2>1
    <2>5. \A j \in Items, x \in Stores :
             Promise(r, j, x)' = Promise(r, j, x) + IF j = i /\ x = s THEN n ELSE 0
      BY <2>1, <2>2, <2>3 DEF Promise, Open
    <2>6. Promising(r, "RESERVATION", i, s, n, n)
      BY <2>1, <2>2, <2>3, <2>4, <2>5 DEF Promising
    <2> QED BY <1>0, <2>6, PromisingBalances
  <1>4. CASE Release(r)
    <2> DEFINE left == rsv[r].q - rsv[r].done
               i == rsv[r].item
               s == rsv[r].store
    <2>1. PICK cancel \in BOOLEAN :
             /\ rsv[r].status = "ACTIVE"
             /\ rsv' = [rsv EXCEPT ![r].status = IF cancel THEN "CANCELLED"
                                                 ELSE IF rsv[r].lapsed THEN "EXPIRED" ELSE "RELEASED"]
             /\ Post(r, "RESERVATION_RELEASE", Only(i, left),
                     [j \in Items |-> At(s, Entry(0, -left, 0, 0))])
             /\ UNCHANGED <<archived, returnable, doc, asked, counting, custody>>
      BY <1>4 DEF Release
    <2>2. left \in Nat /\ -left \in Int /\ (left = 0 => -left = 0)
      BY <1>1
    <2>3. /\ rsv'[r].status \in {"CANCELLED", "EXPIRED", "RELEASED"}
          /\ rsv'[r].item = i /\ rsv'[r].store = s
          /\ rsv'[r].q = rsv[r].q /\ rsv'[r].done = rsv[r].done
          /\ \A e \in Reservations : e # r => rsv'[e] = rsv[e]
      BY <1>1, <2>1 DEF RsvType
    <2>4. Fresh(r, "RESERVATION_RELEASE", Only(i, left))
      BY <1>2, <2>1
    <2>5. \A j \in Items, x \in Stores :
             Promise(r, j, x)' = Promise(r, j, x) + IF j = i /\ x = s THEN -left ELSE 0
      BY <1>1, <2>1, <2>3 DEF Promise, Open
    <2>6. i \in Items /\ s \in Stores
      BY <2>1 DEF BInv, ReservesItem
    <2>7. rsv[r].done # rsv[r].q
      BY <2>1 DEF BInv, ReservationsBalance
    <2> DEFINE back == -left
    <2>8. Promising(r, "RESERVATION_RELEASE", i, s, left, back)
      <3>1. /\ Post(r, "RESERVATION_RELEASE", Only(i, left),
                    [j \in Items |-> At(s, Entry(0, back, 0, 0))])
            /\ UNCHANGED <<doc, asked, counting, custody>>
        BY <2>1
      <3>2. left \in Nat /\ back \in Int /\ (left = 0 => back = 0)
        BY <2>2
      <3>3. \A j \in Items, x \in Stores :
               Promise(r, j, x)' = Promise(r, j, x) + IF j = i /\ x = s THEN back ELSE 0
        BY <2>5
      <3>4. rsv[r].status # "NONE" /\ rsv[r].item = i /\ rsv'[r].done = rsv[r].done
        BY <2>1, <2>3
      <3>5. rsv'[r].status \notin {"NONE", "FULFILLED"} /\ rsv'[r].done # rsv'[r].q
        BY <2>3, <2>7
      <3>6. \A e \in Reservations : e # r => rsv'[e] = rsv[e]
        BY <2>3
      <3>7. rsv'[r].item = i /\ rsv'[r].store = s
        BY <2>3
      <3> HIDE DEF left, back, i, s
      <3> QED BY <2>4, <2>6, <3>1, <3>2, <3>3, <3>4, <3>5, <3>6, <3>7 DEF Promising
    <2> HIDE DEF left, back, i, s
    <2> QED BY <1>0, <2>8, PromisingBalances
  <1> QED BY <1>3, <1>4

\* The entries a reversal undoes: they move stock on hand only, at one store.
LEMMA ReversedEntries ==
    ASSUME BInv, NEW t \in ledger, Reverse(t)
    PROVE  /\ t.item \in Items /\ t.q \in Nat /\ t.move \in [Stores -> Signed]
           /\ t.source \in Issues \cup Receipts /\ doc[t.source].status = "POSTED"
           /\ \A s \in Stores : t.move[s].reserved = 0 /\ t.move[s].inTransit = 0
           /\ Everywhere(t.move)
                = (IF t.source \in Receipts THEN t.q ELSE 0) - (IF t.source \in Issues THEN t.q ELSE 0)
  <1>1. /\ t.item \in Items /\ t.q \in Nat /\ t.move \in [Stores -> Signed]
        /\ t.type \in {"ISSUE", "OTHER_RECEIPT"}
        /\ AsIssued(t) /\ AsReceived(t) /\ Left(t)
    BY DEF BInv, Recorded, IInv, TypeOK, LedgerType, SourcesLeft, Reverse, Reversible
  <1>2. t.source \in Issues \cup Receipts /\ doc[t.source].status = "POSTED"
    BY <1>1 DEF AsIssued, AsReceived, Left
  <1>3. CASE t.type = "ISSUE"
    <2>1. t.source \in Issues /\ t.source \notin Receipts
          /\ doc[t.source].head.reservation = NULL
      BY <1>1, <1>3, KindsAssumption DEF AsIssued, Reverse
    <2>2. PICK s \in Stores : t.move = At(s, IssueEntry(t.source, t.q))
      BY <1>1, <1>3 DEF AsIssued
    <2> DEFINE e == Entry(-t.q, 0, 0, 0)
    <2>3. /\ t.move = At(s, e) /\ e \in Signed /\ e.reserved = 0 /\ e.inTransit = 0
          /\ e.onHand = -t.q
      BY <1>1, <2>1, <2>2 DEF IssueEntry, Entry, Signed
    <2> HIDE DEF e
    <2>4. /\ \A x \in Stores : /\ At(s, e)[x].reserved = IF x = s THEN e.reserved ELSE 0
                               /\ At(s, e)[x].inTransit = IF x = s THEN e.inTransit ELSE 0
          /\ Everywhere(At(s, e)) = e.onHand + e.inTransit
      BY <2>3, AtFacts
    <2> QED BY <1>1, <1>2, <2>1, <2>3, <2>4
  <1>4. CASE t.type = "OTHER_RECEIPT"
    <2>1. t.source \in Receipts /\ t.source \notin Issues
      BY <1>1, <1>4, KindsAssumption DEF AsReceived
    <2>2. PICK s \in Stores : t.move = At(s, Entry(t.q, 0, 0, 0))
      BY <1>1, <1>4 DEF AsReceived
    <2> DEFINE e == Entry(t.q, 0, 0, 0)
    <2>3. /\ t.move = At(s, e) /\ e \in Signed /\ e.reserved = 0 /\ e.inTransit = 0
          /\ e.onHand = t.q
      BY <1>1, <2>2 DEF Entry, Signed
    <2> HIDE DEF e
    <2>4. /\ \A x \in Stores : /\ At(s, e)[x].reserved = IF x = s THEN e.reserved ELSE 0
                               /\ At(s, e)[x].inTransit = IF x = s THEN e.inTransit ELSE 0
          /\ Everywhere(At(s, e)) = e.onHand + e.inTransit
      BY <2>3, AtFacts
    <2> QED BY <1>1, <1>2, <2>1, <2>3, <2>4
  <1> QED BY <1>1, <1>3, <1>4

\* A reversal keeps every sum.
LEMMA ReverseBalances ==
    ASSUME BInv, NEW t \in ledger, Reverse(t)
    PROVE  BInv'
  <1> DEFINE q == Only(t.item, t.q)
             undo == [s \in Stores |-> Minus(t.move[s])]
             move == [i \in Items |-> undo]
  <1>0. IInv /\ IInv' /\ FinalStep
    BY ReverseKeeps DEF BInv
  <1>1. /\ t.item \in Items /\ t.q \in Nat /\ t.move \in [Stores -> Signed]
        /\ t.source \in Issues \cup Receipts /\ doc[t.source].status = "POSTED"
        /\ \A s \in Stores : t.move[s].reserved = 0 /\ t.move[s].inTransit = 0
        /\ Everywhere(t.move)
             = (IF t.source \in Receipts THEN t.q ELSE 0) - (IF t.source \in Issues THEN t.q ELSE 0)
    BY ReversedEntries
  <1>2. /\ t.source \in Docs /\ t.source \in Docs \cup Reservations
        /\ "REVERSAL" \in TxTypes /\ "REVERSAL" \notin {"ISSUE", "RETURN_FROM_EMPLOYEE"}
    BY <1>1 DEF Docs, TxTypes
  <1>3. q \in [Items -> Nat] /\ \A i \in Items : q[i] = IF i = t.item THEN t.q ELSE 0
    BY <1>1 DEF Only
  <1>4. Post(t.source, "REVERSAL", q, move)
        /\ UNCHANGED <<archived, returnable, doc, asked, counting, custody, rsv>>
    BY DEF Reverse
  <1>5. /\ undo \in [Stores -> Signed] /\ Everywhere(undo) = -Everywhere(t.move)
        /\ \A s \in Stores : undo[s].reserved = 0 /\ undo[s].inTransit = 0
    BY <1>1, EverywhereMinus DEF Minus, Entry
  <1> HIDE DEF undo
  <1>6. /\ move \in [Items -> [Stores -> Signed]] /\ \A i \in Items : move[i] = undo
    BY <1>5
  <1>7. Fresh(t.source, "REVERSAL", q)
    BY <1>0, <1>3 DEF Fresh, Reverse, Reversed, IInv, TypeOK, LedgerType
  <1> HIDE DEF q, move
  <1>8. \A i \in Items, s \in Stores :
           /\ bal'[i][s].reserved = bal[i][s].reserved
           /\ bal'[i][s].inTransit = bal[i][s].inTransit
    BY <1>0, <1>3, <1>4, <1>6, BalanceMoves, <1>5 DEF Counted
  <1>9. ReservedIsPromised'
    BY <1>4, <1>8, PromisesStay
  <1>10. TransitIsUnderway'
    BY <1>4, <1>0, <1>8, TransitStays DEF Carried, Underway
  <1>11. Adds(t.source, "REVERSAL", q)
    BY <1>2, <1>3, <1>4, <1>6, <1>7, PostAddsUp
  <1>12. HeldAsIssued' /\ CustodyBalances'
    BY <1>0, <1>2, <1>3, <1>4, <1>11, CustodyStays
  <1>13. LinesGiven' /\ ServedStatus' /\ ReservesItem' /\ DoneStatus'
    BY <1>4 DEF BInv, LinesGiven, RequestsBalance, ServedStatus, ReservesItem,
                ReservationsBalance, DoneStatus
  <1>14. AskedFollows(t.source, "REVERSAL", q) /\ DoneFollows(t.source, "REVERSAL", q)
    BY <1>0, QtyAssumption, <1>4 DEF IInv, TypeOK, AskedType, RsvType, Lines, Qty,
       AskedFollows, DoneFollows
  <1>15. \A u \in ledger' \ ledger :
              AsIssued(u)' /\ AsReceived(u)' /\ AsReturned(u)' /\ AsReversed(u)'
    BY <1>4, PostNew, <1>1 DEF AsIssued, AsReceived, AsReturned, AsReversed
  <1>16. \A i \in Items : q[i] > 0 =>
            Everywhere(move[i]) = Gain(t.source, "REVERSAL", q[i], Everywhere(move[i]))
    BY <1>1, <1>3, <1>6, GainBack, <1>5
  <1>17. /\ doc'[t.source].head = doc[t.source].head
         /\ \A r \in Reservations : rsv[r].status # "NONE" => rsv'[r].status # "NONE"
    BY <1>4
  <1> QED BY <1>0, <1>2, <1>3, <1>4, <1>6, <1>7, <1>9, <1>10, <1>12, <1>13, <1>14, <1>15,
             <1>16, <1>17, PostBalances

-----------------------------------------------------------------------------
(* The theorems *)

\* Everything is zero before the first posting.
LEMMA InitBalances == Init => BInv
  <1> SUFFICES ASSUME Init PROVE BInv
    OBVIOUS
  <1>1. IInv
    BY InitKeeps
  <1>2. FiniteLedger /\ LinesGiven /\ ReservesItem /\ Recorded /\ HeldAsIssued
    BY FS_EmptySet DEF Init, FiniteLedger, LinesGiven, ReservesItem, Recorded, HeldAsIssued, Docs
  <1>3. \A f : Sum(f, {}) = 0
    BY SumEmpty
  <1>4. Reconciled
    BY <1>3 DEF Reconciled, Init, Booked, Zero
  <1>5. ReservedIsPromised
    BY <1>3 DEF ReservedIsPromised, Open, Init, Zero, Entry
  <1>6. TransitIsUnderway
    BY <1>3 DEF TransitIsUnderway, Underway, Init, Zero, Entry, Docs
  <1>7. \A d, i, ty : Total(d, i, ty) = 0
    BY <1>3 DEF Init, Total, Quantity
  <1>8. Conserved
    <2> SUFFICES ASSUME NEW i \in Items
                 PROVE  Everywhere(bal[i]) = Quantity(OfType(i, Incoming)) - Quantity(OfType(i, Outgoing))
                               - Quantity(Undoing(i, Receipts)) + Quantity(Undoing(i, Issues))
                               + Corrected(i)
      BY DEF Conserved, Incoming, Outgoing, Corrected
    <2>1. /\ \A types : OfType(i, types) = {}
          /\ \A docs : Undoing(i, docs) = {}
      BY DEF Init, OfType, Undoing
    <2>2. Everywhere(bal[i]) = 0
      BY ZeroType, EverywhereZero DEF Init, Zero, Entry
    <2>3. \A types : Quantity(OfType(i, types)) = 0
      BY <1>3, <2>1 DEF Quantity
    <2>4. \A docs : Quantity(Undoing(i, docs)) = 0
      BY <1>3, <2>1 DEF Quantity
    <2>5. Corrected(i) = 0
      BY <1>3, <2>1 DEF Corrected
    <2> QED BY <2>2, <2>3, <2>4, <2>5
  <1>9. RequestsBalance
    BY <1>1, NullAssumption, <1>3 DEF IInv, WithinApproved, Init, Docs, RequestsBalance,
       Blank, NoLines
  <1>10. ReservationsBalance
    BY DEF Init, ReservationsBalance
  <1>11. CustodyBalances
    BY DEF Init, CustodyBalances, NoLines
  <1> QED BY <1>1, <1>2, <1>4, <1>5, <1>6, <1>8, <1>9, <1>10, <1>11 DEF BInv

\* Every step keeps the sums.
LEMMA NextBalances ==
    ASSUME BInv, [Next]_vars
    PROVE  BInv'
  <1>1. ASSUME NEW d \in Docs, Handle(d) PROVE BInv'
    BY <1>1, HandleBalances
  <1>2. ASSUME NEW d \in Docs, Move(d) PROVE BInv'
    BY <1>2, ReceiptBalances, IssueBalances, ReturnBalances, DispatchBalances, ReceiveBalances,
       AdjustmentBalances, CountBalances DEF Move
  <1>3. ASSUME NEW a \in Requests, NEW d \in Issues, NEW s \in Stores, RequestIssue(a, d, s)
        PROVE  BInv'
    BY <1>3, RequestIssueBalances
  <1>4. ASSUME NEW r \in Reservations, Reserve(r) \/ Release(r) PROVE BInv'
    BY <1>4, ReservationBalances
  <1>5. ASSUME NEW t \in ledger, Reverse(t) PROVE BInv'
    BY <1>5, ReverseBalances
  <1>6. ASSUME \/ \E x \in Archivable : Archive(x) \/ Restore(x)
               \/ \E i \in Items : ToggleReturnable(i)
               \/ \E r \in Reservations : Lapse(r)
               \/ UNCHANGED vars
        PROVE  BInv'
    BY <1>6, MasterBalances
  <1> QED BY <1>1, <1>2, <1>3, <1>4, <1>5, <1>6 DEF Next

\* Every balance is the sum of its ledger entries, in every state: what
\* reconciliation() looks for never occurs.
THEOREM AlwaysReconciled == Spec => []Reconciled
  <1>1. Init => BInv
    BY InitBalances
  <1>2. BInv /\ [Next]_vars => BInv'
    BY NextBalances
  <1>3. BInv => Reconciled
    BY DEF BInv
  <1> QED BY <1>1, <1>2, <1>3, PTL DEF Spec

\* The counters of requests, reservations and transfers agree with the ledger and
\* no stock is made or lost, however the operations interleave.
THEOREM MovesAlwaysBalance == Spec => []MovesBalance
  <1>1. Init => BInv
    BY InitBalances
  <1>2. BInv /\ [Next]_vars => BInv'
    BY NextBalances
  <1>3. BInv => MovesBalance
    BY DEF BInv, MovesBalance
  <1> QED BY <1>1, <1>2, <1>3, PTL DEF Spec

\* A custody row has back exactly what the returns of its issue brought.
THEOREM CustodyAlwaysBalances == Spec => []CustodyBalances
  <1>1. Init => BInv
    BY InitBalances
  <1>2. BInv /\ [Next]_vars => BInv'
    BY NextBalances
  <1>3. BInv => CustodyBalances
    BY DEF BInv
  <1> QED BY <1>1, <1>2, <1>3, PTL DEF Spec

-----------------------------------------------------------------------------
(***************************************************************************)
(* The order of movements.  reverse() compares created_at, which is the     *)
(* order of posting only if no posting commits while another one waits for  *)
(* the lock: that is the hypothesis MaxOverlap = 0 of the last theorem.     *)
(***************************************************************************)

\* The types that issues and receipts post.
KindOf(t) ==
    /\ t.source \in Issues => t.type \in {"ISSUE", "REVERSAL"}
    /\ t.source \in Receipts => t.type \in {"OTHER_RECEIPT", "REVERSAL"}
    /\ t.type = "REVERSAL" => t.source \in Issues \cup Receipts

\* Every transaction is stamped with its place in the order of posting.
InOrder == \A t \in ledger : KindOf(t) /\ t.at = t.number /\ t.number < clock

\* What a posting that waits for nobody stamps its transactions with.
LEMMA PostStamps ==
    ASSUME IInv, MaxOverlap = 0, NEW source, NEW type, NEW q, NEW move,
           Post(source, type, q, move)
    PROVE  /\ ledger \subseteq ledger' /\ clock \in Nat /\ clock' = clock + 1
           /\ \A t \in ledger' \ ledger :
                 /\ t.source = source /\ t.type = type /\ t.item \in Items /\ q[t.item] > 0
                 /\ t.at = clock /\ t.number = clock
  <1>1. clock \in Nat
    BY DEF IInv, TypeOK, BalType
  <1>2. \A at \in Stamps : at = clock
    BY <1>1 DEF Stamps
  <1> QED BY <1>1, <1>2 DEF Post

\* What a posting has to show for reversals to undo last movements only: it
\* posts a type of its kind, and a reversal is the one reverse() allowed.
LEMMA PostLast ==
    ASSUME IInv, IInv', InOrder, ReversesLast, MaxOverlap = 0,
           NEW source, NEW type, NEW q, NEW move, Post(source, type, q, move),
           source \in Issues => type \in {"ISSUE", "REVERSAL"},
           source \in Receipts => type \in {"OTHER_RECEIPT", "REVERSAL"},
           type = "REVERSAL" => /\ source \in Issues \cup Receipts
                                /\ \A t \in ledger : t.source = source /\ t.type # "REVERSAL"
                                      /\ t.item \in Items /\ q[t.item] > 0 => ~LaterMovement(t)
    PROVE  InOrder' /\ ReversesLast'
  BY PostStamps DEF IInv, TypeOK, LedgerType, InOrder, KindOf, ReversesLast, PostsOnce,
     LaterMovement

\* Documents post the types of their kind.
LEMMA MoveLast ==
    ASSUME IInv, IInv', InOrder, ReversesLast, MaxOverlap = 0, NEW d \in Docs, Move(d)
    PROVE  InOrder' /\ ReversesLast'
  <1>1. \E type, q, move :
           /\ Post(d, type, q, move) /\ type # "REVERSAL"
           /\ d \in Issues => type = "ISSUE"
           /\ d \in Receipts => type = "OTHER_RECEIPT"
    <2>1. CASE PostReceipt(d)
      BY <2>1, KindsAssumption DEF PostReceipt
    <2>2. CASE PostIssue(d)
      BY <2>2, KindsAssumption DEF PostIssue
    <2>3. CASE PostReturn(d)
      BY <2>3, KindsAssumption DEF PostReturn
    <2>4. CASE Dispatch(d)
      BY <2>4, KindsAssumption DEF Dispatch
    <2>5. CASE Receive(d)
      BY <2>5, KindsAssumption DEF Receive
    <2>6. CASE PostAdjustment(d)
      BY <2>6, KindsAssumption DEF IInv, TypeOK, DocType, Header, AllPurposes,
         PostAdjustment
    <2>7. CASE PostCount(d)
      BY <2>7, KindsAssumption DEF PostCount
    <2> QED BY <2>1, <2>2, <2>3, <2>4, <2>5, <2>6, <2>7 DEF Move
  <1>2. PICK type, q, move :
           /\ Post(d, type, q, move) /\ type # "REVERSAL"
           /\ d \in Issues => type = "ISSUE"
           /\ d \in Receipts => type = "OTHER_RECEIPT"
    BY <1>1
  <1> QED BY <1>2, PostLast

\* A reversal is the one its guard allowed.
LEMMA ReverseLast ==
    ASSUME BInv, IInv', InOrder, ReversesLast, MaxOverlap = 0, NEW t \in ledger, Reverse(t)
    PROVE  InOrder' /\ ReversesLast'
  <1> DEFINE q == Only(t.item, t.q)
             move == [i \in Items |-> [s \in Stores |-> Minus(t.move[s])]]
  <1>1. Post(t.source, "REVERSAL", q, move) /\ ~LaterMovement(t) /\ ~Reversed(t)
        /\ t.type \in {"ISSUE", "OTHER_RECEIPT"}
    BY DEF Reverse, Reversible
  <1>2. t.source \in Issues \cup Receipts
    BY ReversedEntries
  <1>3. ASSUME NEW u \in ledger, u.source = t.source, u.type # "REVERSAL",
               u.item \in Items, q[u.item] > 0
        PROVE  ~LaterMovement(u)
    BY <1>3, <1>1, <1>2, KindsAssumption DEF Only, InOrder, KindOf, BInv, IInv, PostsOnce
  <1>4. IInv
    BY DEF BInv
  <1> HIDE DEF q, move
  <1>5. /\ t.source \in Issues => "REVERSAL" \in {"ISSUE", "REVERSAL"}
        /\ t.source \in Receipts => "REVERSAL" \in {"OTHER_RECEIPT", "REVERSAL"}
    OBVIOUS
  <1> QED BY <1>1, <1>2, <1>3, <1>4, <1>5, PostLast

\* Every step keeps the order of movements.
LEMMA NextLast ==
    ASSUME BInv, InOrder, ReversesLast, MaxOverlap = 0, [Next]_vars
    PROVE  InOrder' /\ ReversesLast'
  <1>0. IInv /\ IInv'
    BY NextKeeps DEF BInv
  <1>1. ASSUME NEW d \in Docs, Move(d) PROVE InOrder' /\ ReversesLast'
    BY <1>0, <1>1, MoveLast
  <1>2. ASSUME NEW r \in Reservations, Reserve(r) \/ Release(r) PROVE InOrder' /\ ReversesLast'
    <2>1. \E type, q, move : Post(r, type, q, move) /\ type # "REVERSAL"
      <3>1. CASE Reserve(r)
        <4>1. \E q, move : Post(r, "RESERVATION", q, move)
          BY <3>1, Zenon DEF Reserve
        <4> QED BY <4>1
      <3>2. CASE Release(r)
        <4>1. \E q, move : Post(r, "RESERVATION_RELEASE", q, move)
          BY <3>2, Zenon DEF Release
        <4> QED BY <4>1
      <3> QED BY <1>2, <3>1, <3>2
    <2>2. r \notin Issues \cup Receipts
      BY NullAssumption DEF Docs
    <2> QED BY <1>0, <2>1, <2>2, PostLast
  <1>3. ASSUME NEW t \in ledger, Reverse(t) PROVE InOrder' /\ ReversesLast'
    BY <1>0, <1>3, ReverseLast
  <1>4. ASSUME UNCHANGED <<ledger, clock>> PROVE InOrder' /\ ReversesLast'
    BY <1>4 DEF InOrder, KindOf, ReversesLast
  <1>5. ASSUME NEW d \in Docs, Handle(d) PROVE UNCHANGED <<ledger, clock>>
    <2>1. DocumentSave(d) => UNCHANGED <<ledger, clock>>
      BY DEF DocumentSave, Save
    <2>2. ApproveRequest(d) \/ SubmitCount(d) => UNCHANGED <<ledger, clock>>
      BY DEF ApproveRequest, SubmitCount
    <2>3. Cancel(d) \/ Reject(d) \/ SubmitRequest(d) \/ Approve(d) \/ Start(d) \/ Restart(d)
            => UNCHANGED <<ledger, clock>>
      BY DEF Cancel, Reject, SubmitRequest, Approve, Start, Restart
    <2> QED BY <1>5, <2>1, <2>2, <2>3 DEF Handle
  <1>6. ASSUME NEW a \in Requests, NEW d \in Issues, NEW s \in Stores, RequestIssue(a, d, s)
        PROVE  UNCHANGED <<ledger, clock>>
    BY <1>6 DEF RequestIssue, Save
  <1>7. ASSUME \/ \E x \in Archivable : Archive(x) \/ Restore(x)
               \/ \E i \in Items : ToggleReturnable(i)
               \/ \E r \in Reservations : Lapse(r)
               \/ UNCHANGED vars
        PROVE  UNCHANGED <<ledger, clock>>
    BY <1>7 DEF Archive, Restore, ToggleReturnable, Lapse, vars
  <1> QED BY <1>1, <1>2, <1>3, <1>4, <1>5, <1>6, <1>7 DEF Next

\* Balances and custodies are what the ledger says and a reversal takes back the
\* last movement of its item, if no posting overtakes one that waits for the lock.
THEOREM BookAlwaysBalances ==
    ASSUME MaxOverlap = 0
    PROVE  Spec => []BookBalances
  <1> DEFINE LInv == BInv /\ InOrder /\ ReversesLast
  <1>1. Init => LInv
    BY InitBalances DEF Init, InOrder, ReversesLast
  <1>2. LInv /\ [Next]_vars => LInv'
    BY NextBalances, NextLast
  <1>3. LInv => BookBalances
    BY DEF BInv, BookBalances
  <1> QED BY <1>1, <1>2, <1>3, PTL DEF Spec
=============================================================================
