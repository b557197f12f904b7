------------------------------ MODULE Vendors ------------------------------
(***************************************************************************)
(* The vendor master and the payees it is bridged to by name               *)
(* (services/vendors.py, endpoints/finance_vendors.py, the suppliers of    *)
(* services/inventory.py and endpoints/command_center.py).  A name stands  *)
(* for all its spellings.  Fuel suppliers follow the payees and are left   *)
(* out, as are accounts, telephone numbers and the copy of its payee's     *)
(* name an expense holds.                                                  *)
(***************************************************************************)
EXTENDS RowStore

NoNumber == 0

SupplierRows ==
    [there : {TRUE}, name : Names, number : Numbers \cup {NoNumber}, archived : BOOLEAN]

PayeeRows == [there : {TRUE}, name : Names]
Numbered(n) == {r \in Live("suppliers") : rows[r].number = n}
Named(table, name) == {r \in Live(table) : rows[r].name = name}

\* A bound: the number somebody gives by hand.
GivenNumbers == {NoNumber} \cup {n \in Numbers : \A m \in Numbers : n <= m}

\* The counter's next number that no vendor has.  The counter itself is Purchasing's,
\* and not kept here: it may be at any of them.
DrawnNumbers == {n \in Numbers : Numbered(n) = {}}

\* Whether number is no other vendor's.
NumberIsFree(number, self) ==
    number # NoNumber => Numbered(number) \subseteq self

\* The payees that are to have the name, or if there is none, one that is made for it.
EnsurePayee(name, takes) ==
    IF takes # {} THEN SetAll(takes, [name |-> name])
    ELSE IF Named("payees", name) # {} THEN <<>> ELSE Insert("payees", [name |-> name])

RoomForPayee(name, takes) == takes \cup Named("payees", name) = {} => Spare("payees") # {}

\* The vendor of this name and what it is bridged to, made or brought back.  number
\* is one given by hand; other holds what the same request writes elsewhere.
EnsureVendor(s, name, number, takes, other) ==
    LET known == Named("suppliers", name)
        kept == {rows[r].number : r \in known} \ {NoNumber}
        given == IF number # NoNumber THEN {number}
                 ELSE IF kept # {} THEN kept ELSE DrawnNumbers
    IN /\ NumberIsFree(number, known)
       /\ known = {} => Spare("suppliers") # {}
       /\ RoomForPayee(name, takes)
       /\ \E n \in given :
             Stage(s, Over(IF known = {}
                           THEN Insert("suppliers", [name |-> name, number |-> n,
                                                     archived |-> FALSE])
                           ELSE SetAll(known, [number |-> n, archived |-> FALSE]),
                           Over(EnsurePayee(name, takes), other)))

CreateVendor(s) ==
    \E name \in Names, number \in GivenNumbers :
        EnsureVendor(s, name, number, {}, <<>>)

\* A vendor saved without a number loses the one it had; a bound: none is given
\* another.  Renaming takes payees along, but looks for the new name among those not
\* archived only.
UpdateVendor(s) ==
    \E r \in Live("suppliers"), name \in Names : \E number \in {rows[r].number, NoNumber} :
        LET old == rows[r].name
            renamed == IF old = name THEN {} ELSE Named("payees", old)
        IN /\ ~rows[r].archived
           /\ \A x \in Named("suppliers", name) \ {r} : rows[x].archived
           /\ NumberIsFree(number, {r})
           /\ RoomForPayee(name, renamed)
           /\ StageLocked(s, {r} \cup renamed,
                 Over(Set(r, [name |-> name, number |-> number]),
                      EnsurePayee(name, renamed)))

\* A supplier of the inventory, renamed without its payees; a bound: it has
\* a number, and the payee of its new name is there.
RenameSupplier(s) ==
    \E r \in Live("suppliers"), name \in Names :
        /\ rows[r].number # NoNumber /\ Named("payees", name) # {}
        /\ StageLocked(s, {r}, Set(r, [name |-> name, archived |-> FALSE]))

\* InventoryService.archive, from the inventory or the command center.
ArchiveSupplier(s) ==
    \E r \in Live("suppliers"), restore \in BOOLEAN :
        StageLocked(s, {r}, Set(r, [archived |-> ~restore]))

\* An expense is paid to a payee that takes the name given, or to one of that name.
PayTo(s) ==
    \E name \in Names, payee \in {NoRef} \cup Live("payees") :
        EnsureVendor(s, name, NoNumber, {payee} \ {NoRef}, <<>>)

-----------------------------------------------------------------------------

VendorIds == {"suppliers", "payees"} \X Numbers

VendorInit ==
    /\ desk = "vendors"
    /\ rows = [r \in VendorIds |-> Absent]
    /\ StoreInit

VendorStep(s) ==
    \/ CreateVendor(s) \/ UpdateVendor(s) \/ RenameSupplier(s)
    \/ ArchiveSupplier(s) \/ PayTo(s)

\* Names and numbers of suppliers are unique.
SupplierConstraints(after) ==
    LET name(row) == row.name
        number(row) == row.number
        numberless == [r \in DOMAIN after |->
                          IF r[1] = "suppliers" /\ after[r].there /\ after[r].number = NoNumber
                          THEN Absent ELSE after[r]]
    IN ~Clash(after, "suppliers", name) /\ ~Clash(numberless, "suppliers", number)

VendorNext ==
    /\ desk = "vendors"
    /\ \E s \in Sessions :
          VendorStep(s) \/ Commit(s, SupplierConstraints(After(s))) \/ Abort(s)

VendorSpec == VendorInit /\ [][VendorNext]_storeVars

-----------------------------------------------------------------------------

VendorTypeOK ==
    desk = "vendors" =>
        \A r \in DOMAIN rows :
            There(r) => rows[r] \in (IF r[1] = "suppliers" THEN SupplierRows ELSE PayeeRows)
=============================================================================
