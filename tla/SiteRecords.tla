---------------------------- MODULE SiteRecords ----------------------------
(***************************************************************************)
(* Projects and their sites, what is recorded there: fuel, incidents, the  *)
(* logs of a machine and consumables used, and files of items and opening  *)
(* stock (services/projects.py, clients.py, locations.py, hse.py,          *)
(* field_consumables.py, inventory_imports.py, endpoints/field_portal.py,  *)
(* operational_logs.py).  Texts, amounts and who may do what are left out. *)
(***************************************************************************)
EXTENDS Vendors

(***************************************************************************)
(* Projects.  An update checks the dates it leaves against those it sets.  *)
(***************************************************************************)
ProjectRows == [there : {TRUE}, from : Dates, until : Dates, archived : BOOLEAN]

\* The client must be there.
ProjectCreate(s) ==
    \E from, until \in Dates :
        LET row == [from |-> from, until |-> until, archived |-> FALSE]
        IN /\ Live("clients") # {} /\ Spare("projects") # {}
           /\ InOrder(row)
           /\ Stage(s, Insert("projects", row))

\* Mutant of ProjectUpdate: the dates are compared only if both are sent.
ProjectUpdateAsSent(s) ==
    \E p \in Live("projects"), body \in [from : Dates] \cup [until : Dates] :
        Stage(s, Set(p, body))

ProjectUpdate(s) ==
    \E p \in Live("projects"), body \in [from : Dates] \cup [until : Dates] :
        InOrder(Over(body, rows[p])) /\ Stage(s, Set(p, body))

\* archive_record of the command center, on a record as its preview showed it.
ArchiveProject(s) ==
    \E p \in Live("projects") :
        ~rows[p].archived /\ Stage(s, Set(p, [archived |-> TRUE]))

ClientCreate(s) == Spare("clients") # {} /\ Stage(s, Insert("clients", <<>>))

ProjectNote(s) ==
    /\ Live("projects") # {} /\ Spare("notes") # {}
    /\ Stage(s, Insert("notes", <<>>))

ProjectStep(s) ==
    \/ ClientCreate(s) \/ ProjectCreate(s) \/ ProjectUpdate(s)
    \/ ArchiveProject(s) \/ ProjectNote(s)

(***************************************************************************)
(* Sites.  One is moved to another project, or closed, whatever is         *)
(* recorded there.                                                         *)
(***************************************************************************)
SiteRows == [there : {TRUE}, project : {NoRef} \cup Table("projects"), active : BOOLEAN]

SiteCreate(s) ==
    \E p \in {NoRef} \cup Live("projects") :
        /\ Spare("sites") # {}
        /\ Stage(s, Insert("sites", [project |-> p, active |-> TRUE]))

SiteUpdate(s) ==
    \E l \in Live("sites"),
       body \in [project : {NoRef} \cup Live("projects")] \cup [active : BOOLEAN] :
        Stage(s, Set(l, body))

\* require_site.
OpenSites(p) == {l \in Live("sites") : rows[l].project = p /\ rows[l].active}

(***************************************************************************)
(* Fuel.  A delivery makes sure of its supplier; an allocation draws from  *)
(* a delivery to its site, if it names one when it is made: an edit may    *)
(* name any.  Both can be edited for a day or two, and are here.           *)
(***************************************************************************)
DeliveryRows == [there : {TRUE}, project : Table("projects"), site : Table("sites")]

AllocationRows ==
    [there : {TRUE}, project : Table("projects"), site : Table("sites"),
     delivery : {NoRef} \cup Table("deliveries")]

FuelDelivery(s) ==
    \E p \in Live("projects"), name \in Names :
        \E l \in OpenSites(p) :
            /\ Spare("deliveries") # {}
            /\ EnsureVendor(s, name, NoNumber, {},
                            Insert("deliveries", [project |-> p, site |-> l]))

FuelAllocation(s) ==
    \E p \in Live("projects"), d \in {NoRef} \cup Live("deliveries") :
        \E l \in OpenSites(p) :
            /\ Spare("allocations") # {}
            /\ d # NoRef => rows[d].project = p /\ rows[d].site = l
            /\ Stage(s, Insert("allocations", [project |-> p, site |-> l, delivery |-> d]))

FuelAllocationUpdate(s) ==
    \E a \in Live("allocations"), d \in {NoRef} \cup Live("deliveries") :
        Stage(s, Set(a, [delivery |-> d]))

FuelStep(s) ==
    \/ SiteCreate(s) \/ SiteUpdate(s)
    \/ FuelDelivery(s) \/ FuelAllocation(s) \/ FuelAllocationUpdate(s)

(***************************************************************************)
(* Incidents and their corrective actions.                                 *)
(***************************************************************************)
IncidentStatuses == {"REPORTED", "CLOSED"}   \* or any other: none has a rule
IncidentRows ==
    [there : {TRUE}, project : Table("projects"), site : {NoRef} \cup Table("sites"),
     status : IncidentStatuses]

ActionRows ==
    [there : {TRUE}, incident : Table("incidents"), status : {"OPEN", "CLOSED"},
     closedAt : Dates]

NewAction(i) == Insert("actions", [incident |-> i, status |-> "OPEN", closedAt |-> NoDay])

CreateIncident(s) ==
    \E p \in Live("projects"), actions \in BOOLEAN :
        \E l \in {NoRef} \cup OpenSites(p) :
            /\ Spare("incidents") # {} /\ Spare("actions") # {}
            /\ Stage(s, Over(Insert("incidents", [project |-> p, site |-> l,
                                                  status |-> "REPORTED"]),
                             IF actions THEN NewAction(NewRow("incidents")) ELSE <<>>))

UpdateIncident(s) ==
    \E i \in Live("incidents"), status \in IncidentStatuses :
        Stage(s, Set(i, [status |-> status]))

AddActionToIncident(s) ==
    \E i \in Live("incidents") : Spare("actions") # {} /\ Stage(s, NewAction(i))

\* The day an action was first closed stays when it is opened again.
UpdateAction(s) ==
    \E a \in Live("actions"), status \in {"OPEN", "CLOSED"} :
        Stage(s, Set(a, IF status = "CLOSED" /\ rows[a].closedAt = NoDay
                        THEN [status |-> status, closedAt |-> Today]
                        ELSE [status |-> status]))

SafetyStep(s) ==
    \/ SiteCreate(s) \/ SiteUpdate(s) \/ CreateIncident(s) \/ UpdateIncident(s)
    \/ AddActionToIncident(s) \/ UpdateAction(s)

(***************************************************************************)
(* The logs of a machine: fuel, dips of its tank, inspections and meter    *)
(* readings.  Whoever writes one locks the machine, as retiring it does;   *)
(* an edit of a reading or an inspection follows no other rule.            *)
(***************************************************************************)
MachineRows == [there : {TRUE}, active : BOOLEAN]
LogRows == [there : {TRUE}, kind : {"FUEL", "DIP", "READING"}, value : Days]

\* Mutant of WritableAsset: the machine is read, not locked.
WritableAssetUnlocked(m) == {}

\* writable_asset: what is locked to write a log of m.
WritableAsset(m) == {m}

CreateLog(s) ==
    \E m \in Live("machines"), kind \in {"FUEL", "DIP"}, value \in Days :
        /\ rows[m].active /\ Spare("logs") # {}
        /\ StageLocked(s, WritableAsset(m), Insert("logs", [kind |-> kind, value |-> value]))

\* Dips are not edited.
EditLog(s) ==
    \E m \in Live("machines"), l \in Live("logs"), value \in Days :
        /\ rows[m].active /\ rows[l].kind # "DIP"
        /\ StageLocked(s, WritableAsset(m) \cup {l}, Set(l, [value |-> value]))

\* A bound: a machine without assignment or maintenance.
RetireMachine(s) ==
    \E m \in Live("machines") :
        rows[m].active /\ StageLocked(s, {m}, Set(m, [active |-> FALSE]))

LogStep(s) == CreateLog(s) \/ EditLog(s) \/ RetireMachine(s)

(***************************************************************************)
(* Consumables used in the field: an issue of the inventory, found again   *)
(* by the submission it was made for, under the lock of the inventory.     *)
(***************************************************************************)
IssueRows == [there : {TRUE}, submission : Names, status : {"DRAFT", "POSTED"}]

InventoryLock == {"usage"} \X Names

LogConsumption(s) ==
    \E submission \in Names, approval \in BOOLEAN :
        /\ Spare("issues") # {}
        /\ \A i \in Live("issues") : rows[i].submission # submission
        /\ StageLocked(s, InventoryLock,
              Insert("issues", [submission |-> submission,
                                status |-> IF approval THEN "DRAFT" ELSE "POSTED"]))

(***************************************************************************)
(* Imports of items and of opening stock: a file is tried out and kept     *)
(* with the errors it met, and applied when it is confirmed.  A bound: a   *)
(* file is one line.  The item of a line is told by its code.  The import  *)
(* that made a row is kept with it.                                        *)
(***************************************************************************)
ImportKinds == {"items", "receipts"}
ImportRows ==
    [there : {TRUE}, kind : ImportKinds, code : Names, errors : BOOLEAN,
     status : {"PREVIEW", "COMPLETED"}]
ImportedRows == [there : {TRUE}, code : Names, import : {NoRef} \cup Table("imports")]

MasterSave(s) ==
    \E code \in Names :
        /\ Spare("items") # {}
        /\ StageLocked(s, InventoryLock, Insert("items", [code |-> code, import |-> NoRef]))

\* apply_row fails: an item must be new, stock must be of an item.
RowFails(kind, code) == (kind = "items") <=> \E i \in Live("items") : rows[i].code = code

PreviewImport(s) ==
    \E kind \in ImportKinds, code \in Names :
        /\ Spare("imports") # {}
        /\ StageLocked(s, InventoryLock,
              Insert("imports", [kind |-> kind, code |-> code, status |-> "PREVIEW",
                                 errors |-> RowFails(kind, code)]))

\* A file that is confirmed already is left as it is, one with errors refused.
ConfirmImport(s) ==
    \E i \in Live("imports") :
        /\ rows[i].status = "PREVIEW" /\ ~rows[i].errors
        /\ ~RowFails(rows[i].kind, rows[i].code) /\ Spare(rows[i].kind) # {}
        /\ StageLocked(s, InventoryLock \cup {i},
              Over(Set(i, [status |-> "COMPLETED"]),
                   Insert(rows[i].kind, [code |-> rows[i].code, import |-> i])))

ImportStep(s) == MasterSave(s) \/ PreviewImport(s) \/ ConfirmImport(s)

-----------------------------------------------------------------------------

\* A bound: the rows of each table.
SiteTables ==
    [projects |-> {"clients", "projects", "notes"},
     grounds |-> {"projects", "sites", "deliveries", "allocations", "suppliers", "payees"},
     safety |-> {"projects", "sites", "incidents", "actions"},
     logs |-> {"machines", "logs"}, consumables |-> {"issues"},
     imports |-> {"imports", "items", "receipts"}]

SiteIds ==
    {r \in SiteTables[desk] \X Numbers :
        r[2] = 1 \/ r[1] \in {"issues", "logs", "imports", "items", "receipts"}
                 \/ (desk # "projects" /\ r[1] = "projects")}

\* The projects are there, and the machine, with a meter reading.
SiteFirst(r) ==
    CASE r[1] = "projects" /\ desk # "projects" ->
            [there |-> TRUE, from |-> NoDay, until |-> NoDay, archived |-> FALSE]
      [] r[1] = "machines" -> [there |-> TRUE, active |-> TRUE]
      [] r = <<"logs", 1>> -> [there |-> TRUE, kind |-> "READING", value |-> Today]
      [] OTHER -> Absent

SiteInit ==
    /\ desk \in DOMAIN SiteTables
    /\ rows = [r \in SiteIds |-> SiteFirst(r)]
    /\ StoreInit

SiteStep(s) ==
    CASE desk = "projects" -> ProjectStep(s) [] desk = "grounds" -> FuelStep(s)
      [] desk = "safety" -> SafetyStep(s) [] desk = "logs" -> LogStep(s)
      [] desk = "consumables" -> LogConsumption(s) [] desk = "imports" -> ImportStep(s)

\* The unique indexes, of the codes of items and of suppliers and payees.
SiteConstraints(after) ==
    LET code(row) == row.code
    IN ~Clash(after, "items", code) /\ SupplierConstraints(after)

SiteNext ==
    /\ desk \in DOMAIN SiteTables
    /\ \E s \in Sessions :
          SiteStep(s) \/ Commit(s, SiteConstraints(After(s))) \/ Abort(s)

SiteSpec == SiteInit /\ [][SiteNext]_storeVars

-----------------------------------------------------------------------------

SiteTableRows(r) ==
    CASE r[1] = "projects" -> ProjectRows [] r[1] = "sites" -> SiteRows
      [] r[1] = "deliveries" -> DeliveryRows [] r[1] = "allocations" -> AllocationRows
      [] r[1] = "suppliers" -> SupplierRows [] r[1] = "payees" -> PayeeRows
      [] r[1] = "incidents" -> IncidentRows [] r[1] = "actions" -> ActionRows
      [] r[1] = "machines" -> MachineRows [] r[1] = "logs" -> LogRows
      [] r[1] = "issues" -> IssueRows [] r[1] = "imports" -> ImportRows
      [] r[1] \in ImportKinds -> ImportedRows [] OTHER -> [there : {TRUE}]

SiteTypeOK ==
    desk \in DOMAIN SiteTables =>
        \A r \in DOMAIN rows : There(r) => rows[r] \in SiteTableRows(r)

\* As long as no request committed on rows that had changed since it read them, a
\* project does not end before it starts (update), and always, a closed action says
\* since when (update_action).
SitesAreSound ==
    desk \in DOMAIN SiteTables =>
        /\ ~torn => \A p \in Live("projects") : InOrder(rows[p])
        /\ \A a \in Live("actions") : rows[a].status = "CLOSED" => rows[a].closedAt # NoDay

\* A submission that is sent again, or twice at once, is issued once
\* (log_consumption), and a file that is confirmed again, or twice at once, is
\* applied once, and not before (confirm).
IssuedOnce ==
    /\ desk = "consumables" =>
           \A i, j \in Live("issues") : rows[i].submission = rows[j].submission => i = j
    /\ desk = "imports" =>
           \A i \in Live("imports") :
               Cardinality({r \in Live("items") \cup Live("receipts") : rows[r].import = i})
                   = (IF rows[i].status = "COMPLETED" THEN 1 ELSE 0)

\* Nothing is logged for a machine, or changed in its logs, once it is retired,
\* however the two run into each other (writable_asset, retire_asset).
RetiredIsSilent ==
    [][\A l \in Table("logs") :
          rows'[l] # rows[l] => \A m \in Live("machines") : rows'[m].active]_rows
=============================================================================
