--------------------------- MODULE AssetRegister ---------------------------
(***************************************************************************)
(* The records kept about a machine (services/equipment.py and, where the  *)
(* routes of endpoints/assets.py still reach it, services/assets.py):      *)
(* photos, owners, categories, components, defects, and the papers with    *)
(* two dates: insurance, registrations, inspections and documents.  What   *)
(* is added to a machine is added with the machine locked; what is changed *)
(* is changed with its own row locked.                                     *)
(***************************************************************************)
EXTENDS RowStore

\* A bound: one machine.
Machine == <<"machines", 1>>

ASSUME MachineAssumption == 1 \in Numbers

\* Mutant of AddRecord: the machine is read, not locked.
AddRecordUnlocked(s, name, row, others) ==
    Spare(name) # {} /\ Stage(s, Over(Insert(name, row), others))

\* add_record: the machine is locked, the row inserted.
AddRecord(s, name, row, others) ==
    /\ Spare(name) # {}
    /\ StageLocked(s, {Machine}, Over(Insert(name, row), others))

(***************************************************************************)
(* Photos, one of them primary.  The machine's copy of its URL is left     *)
(* out: an edit of the photo does not follow it.                           *)
(***************************************************************************)
PhotoRows == [there : {TRUE}, active : BOOLEAN, primary : BOOLEAN, kind : {"PHOTO", "VIDEO"}]

ClearPrimary == SetAll(Live("photos"), [primary |-> FALSE])

MediaAdd(s) ==
    \E primary \in BOOLEAN, kind \in {"PHOTO", "VIDEO"} :
        AddRecord(s, "photos", [active |-> TRUE, primary |-> primary, kind |-> kind],
                  IF primary THEN ClearPrimary ELSE <<>>)

\* The flag has a request of its own.
MediaUpdate(s) ==
    \E m \in Live("photos"), kind \in {"PHOTO", "VIDEO"} :
        StageLocked(s, {m}, Set(m, [kind |-> kind]))

\* The photo is read a moment before the machine is locked; here, with the lock.
PrimaryMedia(s) ==
    \E m \in Live("photos") :
        /\ rows[m].active /\ rows[m].kind = "PHOTO"
        /\ StageLocked(s, {Machine}, Over(Set(m, [primary |-> TRUE]), ClearPrimary))

ArchiveMedia(s) ==
    \E m \in Live("photos") :
        StageLocked(s, {Machine}, Set(m, [active |-> FALSE, primary |-> FALSE]))

MediaStep(s) == MediaAdd(s) \/ MediaUpdate(s) \/ PrimaryMedia(s) \/ ArchiveMedia(s)

(***************************************************************************)
(* Owners: a new one ends those that still own the machine.                *)
(***************************************************************************)
OwnerRows == [there : {TRUE}, from : Days, until : Dates]

OpenOwners == {o \in Live("owners") : rows[o].until = NoDay}

OwnershipAdd(s) ==
    \E body \in [from : Days, until : Dates] :
        /\ InOrder(body)
        /\ \A o \in OpenOwners : rows[o].from <= body.from
        /\ AddRecord(s, "owners", body, SetAll(OpenOwners, [until |-> body.from]))

(***************************************************************************)
(* Categories and components are trees.  An update walks up from the new   *)
(* parent; the rows above it are read, not locked.                         *)
(***************************************************************************)
Parents(name) == {NoRef} \cup Table(name)

CategoryRows == [there : {TRUE}, active : BOOLEAN, parent : Parents("categories")]

\* The rows met going up from r, r among them: those of every set that has r and,
\* with a row, its parent.
Above(r) ==
    {x \in Live(r[1]) :
        \A S \in SUBSET Live(r[1]) :
            r \in S /\ (\A y \in S : rows[y].parent \in S \cup {NoRef}) => x \in S}

CategoryCreate(s) ==
    \E p \in Parents("categories") :
        /\ Spare("categories") # {}
        /\ Known(p)
        /\ Stage(s, Insert("categories", [active |-> TRUE, parent |-> p]))

\* Mutant of CategoryUpdate: only the category itself is refused as its parent.
CategoryUpdateNotSelf(s) ==
    \E c \in Live("categories"), p \in Parents("categories") :
        Known(p) /\ c # p /\ StageLocked(s, {c}, Set(c, [parent |-> p]))

CategoryUpdate(s) ==
    \E c \in Live("categories"), p \in Parents("categories") :
        /\ Known(p)
        /\ c \notin Above(p)
        /\ \A x \in Above(p) : rows[x].parent = NoRef \/ x \notin Above(rows[x].parent)
        /\ StageLocked(s, {c}, Set(c, [parent |-> p]))

CategoryArchive(s) ==
    \E c \in Live("categories") : StageLocked(s, {c}, Set(c, [active |-> FALSE]))

CategoryStep(s) == CategoryCreate(s) \/ CategoryUpdate(s) \/ CategoryArchive(s)

(***************************************************************************)
(* Components.  One that was removed, replaced or scrapped is history to   *)
(* the requests of services/equipment.py; UpdateComponent is the request   *)
(* of services/assets.py that its route still serves.                      *)
(***************************************************************************)
Gone == {"REMOVED", "REPLACED", "SCRAPPED"}
ComponentStatuses == {"INSTALLED"} \cup Gone

ComponentRows ==
    [there : {TRUE}, active : BOOLEAN, status : ComponentStatuses,
     parent : Parents("components")]

Fitted(p) == [active |-> TRUE, status |-> "INSTALLED", parent |-> p]

\* A bound: a component is removed and replaced by the requests that do that.
ComponentChanges ==
    [parent : Parents("components")] \cup [status : {"INSTALLED", "SCRAPPED"}]

ComponentAdd(s) ==
    \E p \in Parents("components") :
        Known(p) /\ AddRecord(s, "components", Fitted(p), <<>>)

ComponentChange(s) ==
    \E c \in Live("components"), body \in ComponentChanges :
        /\ rows[c].status \notin Gone
        /\ "parent" \in DOMAIN body => Known(body.parent) /\ c \notin Above(body.parent)
        /\ StageLocked(s, {c}, Set(c, body))

ComponentRemove(s) ==
    \E c \in Live("components") :
        /\ rows[c].status \notin Gone
        /\ StageLocked(s, {c}, Set(c, [status |-> "REMOVED", active |-> FALSE]))

ComponentReplace(s) ==
    \E c \in Live("components"), p \in Parents("components") :
        /\ rows[c].status \notin Gone
        /\ Spare("components") # {}
        /\ Known(p)
        /\ StageLocked(s, {c}, Over(Set(c, [status |-> "REPLACED", active |-> FALSE]),
                                    Insert("components", Fitted(p))))

UpdateComponent(s) ==
    \E c \in Live("components"), body \in ComponentChanges :
        /\ "parent" \in DOMAIN body => Known(body.parent)
        /\ Stage(s, Set(c, body))

ComponentStep(s) ==
    \/ ComponentAdd(s) \/ ComponentChange(s) \/ ComponentRemove(s)
    \/ ComponentReplace(s) \/ UpdateComponent(s)

(***************************************************************************)
(* Defects, reported and resolved once; UpdateDefect is the request of     *)
(* services/assets.py.                                                     *)
(***************************************************************************)
DefectStatuses == {"OPEN", "ACKNOWLEDGED", "RESOLVED"}
DefectRows == [there : {TRUE}, status : DefectStatuses, severity : 1..2]

DefectReport(s) ==
    \E status \in DefectStatuses \ {"RESOLVED"}, n \in 1..2 :
        AddRecord(s, "defects", [status |-> status, severity |-> n], <<>>)

DefectChange(s) ==
    \E d \in Live("defects"),
       body \in [status : DefectStatuses \ {"RESOLVED"}] \cup [severity : 1..2] :
        rows[d].status # "RESOLVED" /\ StageLocked(s, {d}, Set(d, body))

ResolveDefect(s) ==
    \E d \in Live("defects") :
        rows[d].status # "RESOLVED" /\ StageLocked(s, {d}, Set(d, [status |-> "RESOLVED"]))

UpdateDefect(s) ==
    \E d \in Live("defects"), body \in [status : DefectStatuses] \cup [severity : 1..2] :
        Stage(s, Set(d, body))

DefectStep(s) == DefectReport(s) \/ DefectChange(s) \/ ResolveDefect(s) \/ UpdateDefect(s)

(***************************************************************************)
(* Insurance, registrations, inspections: added, and changed with the row  *)
(* locked.  A document is verified while it is active; an edit asks for    *)
(* another look at it.                                                     *)
(***************************************************************************)
Papers == {"policies", "documents"}
MachinePaperRows ==
    [there : {TRUE}, active : BOOLEAN, from : Dates, until : Dates,
     status : {"PENDING", "VERIFIED"}]

\* Mutant of PaperAdd: a paper is added without a verification status.
PaperAddBare(s, name) ==
    \E body \in [from : Dates, until : Dates] :
        InOrder(body) /\ AddRecord(s, name, Over([active |-> TRUE], body), <<>>)

PaperAdd(s, name) ==
    \E body \in [from : Dates, until : Dates] :
        /\ InOrder(body)
        /\ AddRecord(s, name, Over([active |-> TRUE, status |-> "PENDING"], body), <<>>)

PaperChange(s, name) ==
    \E p \in Live(name), body \in [from : Dates] \cup [until : Dates] :
        /\ InOrder(Over(body, rows[p]))
        /\ StageLocked(s, {p}, Set(p, Over([status |-> "PENDING"], body)))

RecordStep(s) == PaperAdd(s, "policies") \/ PaperChange(s, "policies")

AddDocument(s) ==
    \E body \in [from : Dates, until : Dates] :
        /\ Spare("documents") # {}
        /\ InOrder(body)
        /\ Stage(s, Insert("documents", Over([active |-> TRUE, status |-> "PENDING"], body)))

VerifyDocument(s) ==
    \E p \in Live("documents") :
        rows[p].active /\ StageLocked(s, {p}, Set(p, [status |-> "VERIFIED"]))

ArchiveDocument(s) ==
    \E p \in Live("documents") : StageLocked(s, {p}, Set(p, [active |-> FALSE]))

MachineDocumentStep(s) ==
    \/ AddDocument(s) \/ PaperChange(s, "documents")
    \/ VerifyDocument(s) \/ ArchiveDocument(s)

-----------------------------------------------------------------------------

RegisterTables ==
    [photos |-> {"machines", "photos"}, ownership |-> {"machines", "owners"},
     categories |-> {"categories"}, components |-> {"machines", "components"},
     defects |-> {"machines", "defects"}, policies |-> {"machines", "policies"},
     papers |-> {"documents"}]

\* A bound: defects and papers bear on no other row.
RegisterIds ==
    {r \in RegisterTables[desk] \X Numbers :
        r[1] \in {"machines", "defects", "policies", "documents"} => r[2] = 1}

RegisterInit ==
    /\ desk \in DOMAIN RegisterTables
    /\ rows = [r \in RegisterIds |->
                  IF r = Machine THEN [there |-> TRUE] ELSE Absent]
    /\ StoreInit

RegisterStep(s) ==
    \/ desk = "photos" /\ MediaStep(s)
    \/ desk = "ownership" /\ OwnershipAdd(s)
    \/ desk = "categories" /\ CategoryStep(s)
    \/ desk = "components" /\ ComponentStep(s)
    \/ desk = "defects" /\ DefectStep(s)
    \/ desk = "policies" /\ RecordStep(s)
    \/ desk = "papers" /\ MachineDocumentStep(s)

\* One primary photo that is active, and the CHECKs on dates.
RegisterConstraints(after) ==
    /\ ~\E p, q \in {x \in DOMAIN after : x[1] = "photos" /\ after[x].there} :
           p # q /\ after[p].primary /\ after[p].active /\ after[q].primary /\ after[q].active
    /\ \A r \in DOMAIN after :
           r[1] \in {"owners", "policies"} /\ after[r].there => InOrder(after[r])

RegisterCommit(s) == Commit(s, RegisterConstraints(After(s)))

RegisterNext ==
    /\ desk \in DOMAIN RegisterTables
    /\ \E s \in Sessions : RegisterStep(s) \/ RegisterCommit(s) \/ Abort(s)

-----------------------------------------------------------------------------

RegisterRows(r) ==
    CASE r[1] = "machines" -> [there : {TRUE}]
      [] r[1] = "photos" -> PhotoRows
      [] r[1] = "owners" -> OwnerRows
      [] r[1] = "categories" -> CategoryRows
      [] r[1] = "components" -> ComponentRows
      [] r[1] = "defects" -> DefectRows
      [] r[1] \in Papers -> MachinePaperRows

RegisterTypeOK ==
    desk \in DOMAIN RegisterTables =>
        \A r \in DOMAIN rows : There(r) => rows[r] \in RegisterRows(r)

\* Whatever requests run into each other, a machine has one owner at most whose
\* ownership is open, and one primary photo at most, which was not archived:
\* adding, choosing and archiving all wait for the machine (add_record,
\* primary_media).
OneOwnerOnePhoto ==
    desk \in DOMAIN RegisterTables =>
        /\ Cardinality(OpenOwners) <= 1
        /\ \A p, q \in Live("photos") :
               rows[p].primary => rows[p].active /\ (rows[q].primary => p = q)

\* As long as no request committed on rows that had changed since it read them,
\* no category is above itself (update_category).
CategoriesAreTrees ==
    desk = "categories" /\ ~torn =>
        \A c \in Live("categories") : rows[c].parent = NoRef \/ c \notin Above(rows[c].parent)

\* "Removed component history cannot be rewritten", "Resolved defect history
\* cannot be rewritten" (change_component, update_record).
HistoryIsFinal ==
    [][\A r \in DOMAIN rows :
          /\ r[1] \in {"components", "defects"} /\ There(r)
          /\ rows[r].status \in Gone \cup {"RESOLVED"}
          => rows'[r] = rows[r]]_storeVars
=============================================================================
