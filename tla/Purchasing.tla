----------------------------- MODULE Purchasing -----------------------------
(***************************************************************************)
(* Purchase orders and the receipt of their goods (services/procurement.py *)
(* and its endpoints), the expenses raised for them and paid in            *)
(* installments (endpoints/operational_expenses.py), and the business      *)
(* numbers that orders and every other document draw                       *)
(* (services/counters.py).  Suppliers, prices, attachments and notices are *)
(* left out; so is who may ask for what.                                   *)
(***************************************************************************)
EXTENDS RowStore, Sums

(***************************************************************************)
(* Orders and their lines.  A line's row id carries its item: an order has *)
(* one line of an item at most.                                            *)
(***************************************************************************)
Items == Numbers
Quantities == Days

PoStatuses == {"DRAFT", "WAITING_APPROVAL", "APPROVED", "PARTIALLY_RECEIVED", "RECEIVED"}

OrderRows == [there : {TRUE}, status : PoStatuses]

LineRows ==
    [there : {TRUE}, order : Table("orders"), ordered : Quantities, received : Nat]

\* The lines of a request: quantities by item.  A bound: of the last item, one, and
\* not of that alone.
Baskets ==
    {b \in UNION {[S -> Quantities] : S \in SUBSET Items} :
        \A i \in DOMAIN b : /\ b[i] > 1 => \E j \in Items : i < j
                           /\ \A j \in Items : j < i => j \in DOMAIN b}

ItemOf(line) == line[3]
LinesOf(o) == {l \in Live("lines") : rows[l].order = o}
LineOf(o, i) == {l \in LinesOf(o) : ItemOf(l) = i}

NewLine(i) ==
    LET spare == {l \in Spare("lines") : ItemOf(l) = i}
    IN CHOOSE l \in spare : \A x \in spare : l[2] <= x[2]

RoomFor(basket) == \A i \in DOMAIN basket : \E l \in Spare("lines") : ItemOf(l) = i

NewLines(o, basket) ==
    [l \in {NewLine(i) : i \in DOMAIN basket} |->
        [there |-> TRUE, order |-> o, ordered |-> basket[ItemOf(l)], received |-> 0]]

OrderCreate(s) ==
    \E basket \in Baskets, status \in {"DRAFT", "WAITING_APPROVAL"} :
        /\ Spare("orders") # {} /\ RoomFor(basket)
        /\ Stage(s, Over(Insert("orders", [status |-> status]),
                         NewLines(NewRow("orders"), basket)))

\* Mutant of OrderUpdate: goods that came are forgotten.
OrderUpdateAnyway(s) ==
    \E o \in Live("orders"), basket \in Baskets :
        RoomFor(basket) /\ Stage(s, Over(NewLines(o, basket), SetAll(LinesOf(o), Absent)))

\* An edit replaces the lines of an order nothing was received for, in any status.
OrderUpdate(s) ==
    \E o \in Live("orders"), basket \in Baskets :
        /\ \A l \in LinesOf(o) : rows[l].received = 0
        /\ RoomFor(basket)
        /\ Stage(s, Over(NewLines(o, basket), SetAll(LinesOf(o), Absent)))

OrderSubmit(s) ==
    \E o \in Live("orders") :
        rows[o].status = "DRAFT" /\ Stage(s, Set(o, [status |-> "WAITING_APPROVAL"]))

OrderApprove(s) ==
    \E o \in Live("orders") :
        rows[o].status = "WAITING_APPROVAL" /\ Stage(s, Set(o, [status |-> "APPROVED"]))

\* Mutant of ReceiveGoods: more may come than was ordered.
ReceiveGoodsUnchecked(s) ==
    \E o \in Live("orders"), basket \in Baskets :
        LET now(l) == rows[l].received
                      + (IF ItemOf(l) \in DOMAIN basket THEN basket[ItemOf(l)] ELSE 0)
        IN /\ rows[o].status \in {"APPROVED", "PARTIALLY_RECEIVED"}
           /\ Stage(s, Over(Set(o, [status |-> "PARTIALLY_RECEIVED"]),
                            [l \in LinesOf(o) |-> [received |-> now(l)]]))

ReceiveGoods(s) ==
    \E o \in Live("orders"), basket \in Baskets :
        LET now(l) == rows[l].received
                      + (IF ItemOf(l) \in DOMAIN basket THEN basket[ItemOf(l)] ELSE 0)
            status == IF \A l \in LinesOf(o) : now(l) = rows[l].ordered THEN "RECEIVED"
                      ELSE IF \E l \in LinesOf(o) : now(l) > 0 THEN "PARTIALLY_RECEIVED"
                      ELSE rows[o].status
        IN /\ rows[o].status \in {"APPROVED", "PARTIALLY_RECEIVED"}
           /\ \A l \in LinesOf(o) : now(l) <= rows[l].ordered
           /\ Stage(s, Over(Set(o, [status |-> status]),
                            [l \in LinesOf(o) |-> [received |-> now(l)]]))

(***************************************************************************)
(* Expenses.  One raised for an approved order rewrites its lines: those   *)
(* it names take its quantities, those nothing was received for are        *)
(* dropped if it does not.                                                 *)
(***************************************************************************)
ExpenseRows ==
    [there : {TRUE}, order : {NoRef} \cup Table("orders"), total : Quantities,
     status : {"SUBMITTED", "PARTIALLY_PAID", "COMPLETED"}]

PaymentRows == [there : {TRUE}, expense : Table("expenses"), amount : Quantities]

SyncLines(o, basket) ==
    LET named == {l \in LinesOf(o) : ItemOf(l) \in DOMAIN basket}
        added == {i \in DOMAIN basket : LineOf(o, i) = {}}
        dropped == {l \in LinesOf(o) \ named : rows[l].received = 0}
    IN IF basket = <<>> THEN <<>>
       ELSE Over([l \in named |-> [ordered |-> basket[ItemOf(l)]]],
                 Over(NewLines(o, [i \in added |-> basket[i]]), SetAll(dropped, Absent)))

\* A bound: the totals are tried at the desk for payments.
ExpenseCreate(s) ==
    \E o \in {NoRef} \cup Live("orders"), total \in Quantities,
       basket \in (IF desk = "orders" THEN Baskets ELSE {<<>>}) :
        /\ Spare("expenses") # {} /\ RoomFor(basket)
        /\ desk = "orders" => o # NoRef /\ total = Today
        /\ o # NoRef =>
              /\ rows[o].status = "APPROVED"
              /\ \A l \in LinesOf(o) :
                    ItemOf(l) \in DOMAIN basket => rows[l].received <= basket[ItemOf(l)]
        /\ Stage(s, Over(Insert("expenses", [order |-> o, total |-> total,
                                             status |-> "SUBMITTED"]),
                         IF o = NoRef THEN <<>> ELSE SyncLines(o, basket)))

ExpenseUpdate(s) ==
    \E x \in Live("expenses"), total \in Quantities :
        /\ rows[x].status = "SUBMITTED"
        /\ StageLocked(s, {x}, Set(x, [total |-> total]))

\* What is paid for x by the rows of a table.
PaidIn(table, x) ==
    LET of == {p \in DOMAIN table : p[1] = "payments" /\ table[p].there
                                    /\ table[p].expense = x}
    IN Sum([p \in of |-> table[p].amount], of)

Paid(x) == PaidIn(rows, x)

\* Mutant of CompleteExpense: the expense is read, not locked.
CompleteExpenseUnlocked(s) ==
    \E x \in Live("expenses"), amount \in Quantities :
        LET remaining == rows[x].total - Paid(x)
        IN /\ Spare("payments") # {}
           /\ amount <= remaining
           /\ Stage(s, Over(Insert("payments", [expense |-> x, amount |-> amount]),
                            Set(x, [status |-> IF amount = remaining THEN "COMPLETED"
                                               ELSE "PARTIALLY_PAID"])))

CompleteExpense(s) ==
    \E x \in Live("expenses"), amount \in Quantities :
        LET remaining == rows[x].total - Paid(x)
        IN /\ Spare("payments") # {}
           /\ amount <= remaining
           /\ StageLocked(s, {x},
                 Over(Insert("payments", [expense |-> x, amount |-> amount]),
                      Set(x, [status |-> IF amount = remaining THEN "COMPLETED"
                                         ELSE "PARTIALLY_PAID"])))

(***************************************************************************)
(* Business numbers: the counter is locked, incremented and its value      *)
(* given to a document that is inserted with it.  The first use of a       *)
(* counter finds nothing to lock and inserts it.                           *)
(***************************************************************************)
CounterRows == [there : {TRUE}, value : Nat]
NumberedRows == [there : {TRUE}, number : Nat]

\* Mutant of NextBusinessNumber: the counter is read, not locked.
NextBusinessNumberUnlocked(s) ==
    /\ Spare("documents") # {}
    /\ \/ \E c \in Live("counters") :
             Stage(s, Over(Set(c, [value |-> rows[c].value + 1]),
                           Insert("documents", [number |-> rows[c].value + 1])))
       \/ /\ Live("counters") = {} /\ Spare("counters") # {}
          /\ Stage(s, Over(Insert("counters", [value |-> 1]),
                           Insert("documents", [number |-> 1])))

NextBusinessNumber(s) ==
    /\ Spare("documents") # {}
    /\ \/ \E c \in Live("counters") :
             StageLocked(s, {c}, Over(Set(c, [value |-> rows[c].value + 1]),
                                      Insert("documents", [number |-> rows[c].value + 1])))
       \/ /\ Live("counters") = {}
          /\ Spare("counters") # {}
          /\ Stage(s, Over(Insert("counters", [value |-> 1]),
                           Insert("documents", [number |-> 1])))

-----------------------------------------------------------------------------

PurchaseTables ==
    [orders |-> {"orders", "lines", "expenses"}, payments |-> {"expenses", "payments"},
     numbers |-> {"counters", "documents"}]

\* A bound: one order and one expense for it, one expense to pay.
PurchaseIds ==
    {r \in PurchaseTables[desk] \X (1..4) \X ({0} \cup Items) :
        CASE r[1] \in {"orders", "expenses"} -> r[2] = 1 /\ r[3] = 0
          [] r[1] = "lines" -> r[2] <= 2 /\ r[3] # 0
          [] r[1] = "counters" -> r[2] <= 2 /\ r[3] = 0
          [] OTHER -> r[3] = 0}

PurchaseInit ==
    /\ desk \in DOMAIN PurchaseTables
    /\ rows = [r \in PurchaseIds |-> Absent]
    /\ StoreInit

PurchaseStep(s) ==
    \/ desk = "orders" /\ (\/ OrderCreate(s) \/ OrderUpdate(s) \/ OrderSubmit(s)
                           \/ OrderApprove(s) \/ ReceiveGoods(s) \/ ExpenseCreate(s))
    \/ desk = "payments" /\ (ExpenseCreate(s) \/ ExpenseUpdate(s) \/ CompleteExpense(s))
    \/ desk = "numbers" /\ NextBusinessNumber(s)

\* The primary key of a counter, and the trigger on expenses that are completed;
\* a number drawn twice would be refused too, and is left to the property.
PurchaseConstraints(after) ==
    /\ LET key(row) == "the counter" IN ~Clash(after, "counters", key)
    /\ \A x \in DOMAIN after :
          x[1] = "expenses" /\ after[x].there /\ after[x].status = "COMPLETED" =>
              PaidIn(after, x) >= after[x].total

PurchaseCommit(s) == Commit(s, PurchaseConstraints(After(s)))

PurchaseNext ==
    /\ desk \in DOMAIN PurchaseTables
    /\ \E s \in Sessions : PurchaseStep(s) \/ PurchaseCommit(s) \/ Abort(s)

PurchaseSpec == PurchaseInit /\ [][PurchaseNext]_storeVars

-----------------------------------------------------------------------------

PurchaseTypeOK ==
    desk \in DOMAIN PurchaseTables =>
        \A r \in DOMAIN rows :
            There(r) => rows[r] \in
                CASE r[1] = "orders" -> OrderRows [] r[1] = "lines" -> LineRows
                  [] r[1] = "expenses" -> ExpenseRows [] r[1] = "payments" -> PaymentRows
                  [] r[1] = "counters" -> CounterRows [] r[1] = "documents" -> NumberedRows

\* As long as no request committed on rows that had changed since it read them,
\* nothing is received beyond what is ordered, a partly received order has goods
\* that came and goods that are outstanding, and a received one has either all
\* of its goods or, having been edited when nothing was due, none
\* (update_purchase_order, receive_goods, create_expense).
ReceiptsAddUp ==
    desk = "orders" /\ ~torn =>
        \A o \in Live("orders") :
            LET came == {l \in LinesOf(o) : rows[l].received > 0}
                due == {l \in LinesOf(o) : rows[l].received < rows[l].ordered}
            IN /\ \A l \in LinesOf(o) : rows[l].received <= rows[l].ordered
               /\ rows[o].status = "PARTIALLY_RECEIVED" => came # {} /\ due # {}
               /\ rows[o].status = "RECEIVED" => came = {} \/ due = {}
               /\ came # {} => rows[o].status \in {"PARTIALLY_RECEIVED", "RECEIVED"}

\* However payments and edits of an expense run into each other, no more is paid
\* than it costs, and its status says what was paid (complete_expense,
\* update_expense).
PaymentsFit ==
    desk = "payments" =>
        \A x \in Live("expenses") :
            /\ Paid(x) <= rows[x].total
            /\ rows[x].status = IF Paid(x) = 0 THEN "SUBMITTED"
                                ELSE IF Paid(x) < rows[x].total THEN "PARTIALLY_PAID"
                                ELSE "COMPLETED"

\* No number is drawn twice, whoever draws at the same time, the first time too,
\* and the counter is at the last one (next_business_number).
NumbersDiffer ==
    desk = "numbers" =>
        /\ \A d, e \in Live("documents") : rows[d].number = rows[e].number => d = e
        /\ \A d \in Live("documents") :
              \E c \in Live("counters") : rows[d].number <= rows[c].value
=============================================================================
