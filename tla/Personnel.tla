----------------------------- MODULE Personnel -----------------------------
(***************************************************************************)
(* The records kept about an employee: family members, emergency contacts, *)
(* resumes, documents, qualifications, training, licences and skills, and  *)
(* the departments and positions they belong to (services/workforce.py).   *)
(* An employee is archived, never deleted, so the look-up of the employee  *)
(* that opens every handler succeeds and is left out; so are the           *)
(* permissions, the audit trail and the columns nothing decides on.        *)
(***************************************************************************)
EXTENDS RowStore

\* Mutant of Exclusive: archived rows keep the flag.
ExclusiveActive(name, flag, e, m, body) ==
    LET others == {o \in Live(name) : o # m /\ rows[o].of = e /\ rows[o].active}
        wanted == flag \in DOMAIN body /\ body[flag]
    IN SetAll(IF wanted THEN others ELSE {}, [c \in {flag} |-> FALSE])

\* A flag only one row of the employee carries: if body sets it, it is cleared
\* on the others that are there.
Exclusive(name, flag, e, m, body) ==
    LET others == {o \in Live(name) : o # m /\ rows[o].of = e}
        wanted == flag \in DOMAIN body /\ body[flag]
    IN SetAll(IF wanted THEN others ELSE {}, [c \in {flag} |-> FALSE])

\* The row, if the reference is set, belongs to the same employee.
Owned(ref, e) == ref # NoRef => There(ref) /\ rows[ref].of = e

(***************************************************************************)
(* Family members.  The primary next of kin is exclusive: setting the flag *)
(* clears it on every other member, archived ones too.                     *)
(***************************************************************************)
FamilyRows ==
    [there : {TRUE}, of : Employees, active : BOOLEAN, dependent : BOOLEAN,
     kin : BOOLEAN, primary : BOOLEAN, from : Dates, until : Dates]

\* A bound: with several members the flags are tried, with one the dates and who
\* depends on the employee.
FamilyDates == IF desk = "family" THEN {NoDay} ELSE Dates

FamilyBodies ==
    [dependent : {FALSE}, kin : BOOLEAN, primary : BOOLEAN, from : FamilyDates,
     until : FamilyDates]

FamilyChanges ==
    [primary : BOOLEAN] \cup [kin : {FALSE}] \cup [from : FamilyDates]
    \cup [until : FamilyDates]

ExclusiveFlag(e, m, body) == Exclusive("family", "primary", e, m, body)

FamilyCreate(s) ==
    \E e \in Employees, body \in FamilyBodies :
        /\ Spare("family") # {}
        /\ InOrder(body)
        /\ Stage(s, Over(Insert("family", Over([of |-> e, active |-> TRUE], body)),
                         ExclusiveFlag(e, NewRow("family"), body)))

\* Mutant of FamilyChange: only the dates that are submitted are compared.
FamilyChangeAlone(s, m, body) ==
    /\ InOrder(Over(body, [from |-> NoDay, until |-> NoDay]))
    /\ Stage(s, Over(Set(m, body), ExclusiveFlag(rows[m].of, m, body)))

FamilyChange(s, m, body) ==
    /\ InOrder(Over(body, rows[m]))
    /\ Stage(s, Over(Set(m, body), ExclusiveFlag(rows[m].of, m, body)))

FamilyUpdate(s) ==
    \E m \in Live("family"), body \in FamilyChanges : FamilyChange(s, m, body)

FamilyArchive(s) ==
    \E m \in Live("family") : rows[m].active /\ Stage(s, Set(m, [active |-> FALSE]))

SetDependent(s) ==
    \E m \in Live("family") : FamilyChange(s, m, [dependent |-> TRUE])

SetNextOfKin(s) ==
    \E m \in Live("family") : Stage(s, Set(m, [kin |-> TRUE]))

FamilyStep(s) ==
    \/ FamilyCreate(s) \/ FamilyUpdate(s) \/ FamilyArchive(s) \/ SetNextOfKin(s)
    \/ desk = "dependency" /\ SetDependent(s)

(***************************************************************************)
(* Emergency contacts: one of them is primary.  An archived contact loses  *)
(* the flag, but may be given it again.                                    *)
(***************************************************************************)
ContactRows ==
    [there : {TRUE}, of : Employees, active : BOOLEAN, primary : BOOLEAN,
     member : {NoRef} \cup Table("family")]

ContactBodies == [primary : BOOLEAN, member : {NoRef} \cup Table("family")]

ContactChanges == [primary : BOOLEAN] \cup [member : {NoRef} \cup Table("family")]

ExclusivePrimary(e, m, body) == Exclusive("contacts", "primary", e, m, body)

ContactCreate(s) ==
    \E e \in Employees, body \in ContactBodies :
        /\ Spare("contacts") # {}
        /\ Owned(body.member, e)
        /\ Stage(s, Over(Insert("contacts", Over([of |-> e, active |-> TRUE], body)),
                         ExclusivePrimary(e, NewRow("contacts"), body)))

ContactUpdate(s) ==
    \E c \in Live("contacts"), body \in ContactChanges :
        /\ "member" \in DOMAIN body => Owned(body.member, rows[c].of)
        /\ Stage(s, Over(Set(c, body), ExclusivePrimary(rows[c].of, c, body)))

ContactSetPrimary(s) ==
    \E c \in Live("contacts") :
        Stage(s, Over(Set(c, [primary |-> TRUE]),
                      ExclusivePrimary(rows[c].of, c, [primary |-> TRUE])))

ContactArchive(s) ==
    \E c \in Live("contacts") :
        rows[c].active /\ Stage(s, Set(c, [active |-> FALSE, primary |-> FALSE]))

\* What an employee does with his own contacts (own_employee, owned_contact): he
\* is locked, and so is the contact; the first is primary, and one that is cannot
\* be removed.
OwnProfile(e) == {<<"employee", e>>}
OwnContacts(e) == {c \in Live("contacts") : rows[c].of = e /\ rows[c].active}

AddMyContact(s) ==
    \E e \in Employees :
        LET body == [primary |-> \A c \in OwnContacts(e) : ~rows[c].primary]
        IN /\ Spare("contacts") # {}
           /\ StageLocked(s, OwnProfile(e),
                 Over(Insert("contacts", Over([of |-> e, active |-> TRUE, member |-> NoRef], body)),
                      ExclusivePrimary(e, NewRow("contacts"), body)))

PrimaryMyContact(s) ==
    \E e \in Employees : \E c \in OwnContacts(e) :
        StageLocked(s, OwnProfile(e) \cup {c},
                    Over(Set(c, [primary |-> TRUE]),
                         ExclusivePrimary(e, c, [primary |-> TRUE])))

ArchiveMyContact(s) ==
    \E e \in Employees : \E c \in OwnContacts(e) :
        ~rows[c].primary /\ StageLocked(s, OwnProfile(e) \cup {c}, Set(c, [active |-> FALSE]))

ContactStep(s) ==
    \/ ContactCreate(s) \/ ContactUpdate(s) \/ ContactSetPrimary(s) \/ ContactArchive(s)
    \/ AddMyContact(s) \/ PrimaryMyContact(s) \/ ArchiveMyContact(s)

(***************************************************************************)
(* Resumes: each upload is the next version and becomes the current one.   *)
(* Title and notes, all that update changes, are left out.                 *)
(***************************************************************************)
ResumeRows ==
    [there : {TRUE}, of : Employees, active : BOOLEAN, current : BOOLEAN, version : Nat]

Latest(e) ==
    LET taken == {0} \cup {rows[r].version : r \in {x \in Live("resumes") : rows[x].of = e}}
    IN CHOOSE v \in taken : \A w \in taken : w <= v

OnlyCurrent(e, r) == Exclusive("resumes", "current", e, r, [current |-> TRUE])

ResumeAdd(s) ==
    \E e \in Employees :
        /\ Spare("resumes") # {}
        /\ Stage(s, Over(Insert("resumes", [of |-> e, active |-> TRUE, current |-> TRUE,
                                            version |-> Latest(e) + 1]),
                         OnlyCurrent(e, NewRow("resumes"))))

ResumeSetCurrent(s) ==
    \E r \in Live("resumes") :
        /\ rows[r].active
        /\ Stage(s, Over(Set(r, [current |-> TRUE]), OnlyCurrent(rows[r].of, r)))

ResumeArchive(s) ==
    \E r \in Live("resumes") :
        rows[r].active /\ Stage(s, Set(r, [active |-> FALSE, current |-> FALSE]))

\* What current() may answer with.
CurrentResumes(e) ==
    {r \in Live("resumes") : rows[r].of = e /\ rows[r].current /\ rows[r].active}

ResumeStep(s) == ResumeAdd(s) \/ ResumeSetCurrent(s) \/ ResumeArchive(s)

(***************************************************************************)
(* Documents.  A document that has expired is not verified, and an edit    *)
(* that leaves a verified one expired says so.  Uploading a file and       *)
(* adding a link make the same row.                                        *)
(***************************************************************************)
VerificationStatuses == {"PENDING", "VERIFIED", "REJECTED", "EXPIRED"}

DocumentRows ==
    [there : {TRUE}, of : Employees, active : BOOLEAN, from : Dates, until : Dates,
     status : VerificationStatuses]

Expired(row) == row.until # NoDay /\ row.until < Today

DocumentBodies == [from : Dates, until : Dates]
DocumentChanges == [from : Dates] \cup [until : Dates]

DocumentInsert(s, e, body) ==
    /\ Spare("documents") # {}
    /\ InOrder(body)
    /\ Stage(s, Insert("documents",
                       Over([of |-> e, active |-> TRUE, status |-> "PENDING"], body)))

DocumentAdd(s) ==
    \E e \in Employees, body \in DocumentBodies : DocumentInsert(s, e, body)

DocumentUpload(s) ==
    \E e \in Employees, body \in DocumentBodies : DocumentInsert(s, e, body)

DocumentUpdate(s) ==
    \E d \in Live("documents"), body \in DocumentChanges :
        LET edited == Over(body, rows[d])
            lapsed == Expired(edited) /\ edited.status = "VERIFIED"
        IN /\ InOrder(edited)
           /\ Stage(s, Set(d, IF lapsed THEN Over([status |-> "EXPIRED"], body) ELSE body))

DocumentVerify(s) ==
    \E d \in Live("documents") :
        ~Expired(rows[d]) /\ Stage(s, Set(d, [status |-> "VERIFIED"]))

DocumentReject(s) ==
    \E d \in Live("documents") : Stage(s, Set(d, [status |-> "REJECTED"]))

DocumentArchive(s) ==
    \E d \in Live("documents") :
        rows[d].active /\ Stage(s, Set(d, [active |-> FALSE]))

DocumentStep(s) ==
    \/ DocumentAdd(s) \/ DocumentUpload(s) \/ DocumentUpdate(s)
    \/ DocumentVerify(s) \/ DocumentReject(s) \/ DocumentArchive(s)

(***************************************************************************)
(* Qualifications, training records and licences: a pair of dates, and     *)
(* perhaps the document of the employee that proves them.                  *)
(***************************************************************************)
PaperRows ==
    [there : {TRUE}, of : Employees, active : BOOLEAN, from : Dates, until : Dates,
     doc : {NoRef} \cup Table("documents")]

PaperBodies == [from : Dates, until : Dates, doc : {NoRef} \cup Table("documents")]

PaperChanges ==
    [from : Dates] \cup [until : Dates] \cup [doc : {NoRef} \cup Table("documents")]

PaperCreate(s, name) ==
    \E e \in Employees, body \in PaperBodies :
        /\ Spare(name) # {}
        /\ InOrder(body)
        /\ Owned(body.doc, e)
        /\ Stage(s, Insert(name, Over([of |-> e, active |-> TRUE], body)))

PaperUpdate(s, name) ==
    \E p \in Live(name), body \in PaperChanges :
        /\ InOrder(Over(body, rows[p]))
        /\ "doc" \in DOMAIN body => Owned(body.doc, rows[p].of)
        /\ Stage(s, Set(p, body))

QualificationCreate(s) == PaperCreate(s, "qualifications")
QualificationUpdate(s) == PaperUpdate(s, "qualifications")
QualificationArchive(s) ==
    \E q \in Live("qualifications") :
        rows[q].active /\ Stage(s, Set(q, [active |-> FALSE]))
QualificationStep(s) ==
    QualificationCreate(s) \/ QualificationUpdate(s) \/ QualificationArchive(s)

TrainingCreate(s) == PaperCreate(s, "training")
TrainingUpdate(s) == PaperUpdate(s, "training")
TrainingStep(s) == TrainingCreate(s) \/ TrainingUpdate(s)

LicenceCreate(s) == PaperCreate(s, "licences")
LicenceUpdate(s) == PaperUpdate(s, "licences")
LicenceStep(s) == LicenceCreate(s) \/ LicenceUpdate(s)

(***************************************************************************)
(* Skills and the employees that have them.                                *)
(***************************************************************************)
SkillRows == [there : {TRUE}, name : Names, active : BOOLEAN]
SkillLinkRows ==
    [there : {TRUE}, of : Employees, skill : Table("skills"), level : 1..2]

SkillCreate(s) ==
    \E n \in Names :
        /\ Spare("skills") # {}
        /\ Stage(s, Insert("skills", [name |-> n, active |-> TRUE]))

SkillUpdate(s) ==
    \E k \in Live("skills"), body \in [name : Names] \cup [active : BOOLEAN] :
        Stage(s, Set(k, body))

SkillAssign(s) ==
    \E e \in Employees, k \in Live("skills") :
        /\ Spare("skill links") # {}
        /\ ~\E l \in Live("skill links") : rows[l].of = e /\ rows[l].skill = k
        /\ Stage(s, Insert("skill links", [of |-> e, skill |-> k, level |-> 1]))

SkillUpdateLink(s) ==
    \E l \in Live("skill links"), v \in 1..2 : Stage(s, Set(l, [level |-> v]))

SkillUnlink(s) ==
    \E l \in Live("skill links") : Stage(s, Set(l, Absent))

SkillStep(s) ==
    \/ SkillCreate(s) \/ SkillUpdate(s) \/ SkillAssign(s)
    \/ SkillUpdateLink(s) \/ SkillUnlink(s)

(***************************************************************************)
(* Departments and positions.  The only parent a department is refused is  *)
(* itself, and only once it exists.                                        *)
(***************************************************************************)
DepartmentRows ==
    [there : {TRUE}, name : Names, active : BOOLEAN, parent : {NoRef} \cup Table("departments")]
PositionRows ==
    [there : {TRUE}, name : Names, active : BOOLEAN, department : {NoRef} \cup Table("departments")]

CheckRefs(parent, self) == parent # self /\ Known(parent)

DepartmentCreate(s) ==
    \E n \in Names, p \in {NoRef} \cup Table("departments") :
        /\ Spare("departments") # {}
        /\ Known(p)
        /\ Stage(s, Insert("departments", [name |-> n, active |-> TRUE, parent |-> p]))

DepartmentUpdate(s) ==
    \E d \in Live("departments"),
       body \in [name : Names] \cup [parent : {NoRef} \cup Table("departments")] :
        /\ CheckRefs(Over(body, rows[d]).parent, d)
        /\ Stage(s, Set(d, body))

PositionCreate(s) ==
    \E n \in Names, d \in {NoRef} \cup Table("departments") :
        /\ Spare("positions") # {}
        /\ Known(d)
        /\ Stage(s, Insert("positions", [name |-> n, active |-> TRUE, department |-> d]))

PositionUpdate(s) ==
    \E q \in Live("positions"),
       body \in [name : Names] \cup [department : {NoRef} \cup Table("departments")] :
        /\ "department" \in DOMAIN body => Known(body.department)
        /\ Stage(s, Set(q, body))

StructureStep(s) ==
    DepartmentCreate(s) \/ DepartmentUpdate(s) \/ PositionCreate(s) \/ PositionUpdate(s)

(***************************************************************************)
(* A behaviour is about one desk, for the desks share no rows but the      *)
(* documents and family members that are referred to: at the desks that    *)
(* refer to them these are there from the start, each with its owner.      *)
(***************************************************************************)
PersonnelTables ==
    [family |-> {"family"}, dependency |-> {"family"}, contacts |-> {"contacts", "family"},
     resumes |-> {"resumes"}, documents |-> {"documents"},
     qualifications |-> {"qualifications", "documents"},
     training |-> {"training", "documents"}, licences |-> {"licences", "documents"},
     skills |-> {"skills", "skill links"}, structure |-> {"departments", "positions"}]

ReferredTo == [contacts |-> {"family"}, qualifications |-> {"documents"},
               training |-> {"documents"}, licences |-> {"documents"}]

\* A bound: rows that bear on no other row of their table are tried one at a time.
Single == [dependency |-> {"family"}, contacts |-> {"family"}, documents |-> {"documents"},
           qualifications |-> {"qualifications"}, training |-> {"training"},
           licences |-> {"licences"}]

PersonnelIds ==
    {r \in PersonnelTables[desk] \X Numbers :
        desk \in DOMAIN Single /\ r[1] \in Single[desk] => r[2] = 1}

FirstRow(e) ==
    [there |-> TRUE, of |-> e, active |-> TRUE, from |-> NoDay, until |-> NoDay]

PersonnelInit ==
    /\ desk \in DOMAIN PersonnelTables
    /\ \E owner \in [Numbers -> Employees] :
        rows = [r \in PersonnelIds |->
                   IF desk \in DOMAIN ReferredTo /\ r[1] \in ReferredTo[desk]
                   THEN Over(IF r[1] = "family"
                             THEN [dependent |-> FALSE, kin |-> FALSE, primary |-> FALSE]
                             ELSE [status |-> "PENDING"], FirstRow(owner[r[2]]))
                   ELSE Absent]
    /\ StoreInit

PersonnelStep(s) ==
    \/ desk \in {"family", "dependency"} /\ FamilyStep(s)
    \/ desk = "contacts" /\ ContactStep(s)
    \/ desk = "resumes" /\ ResumeStep(s)
    \/ desk = "documents" /\ DocumentStep(s)
    \/ desk = "qualifications" /\ QualificationStep(s)
    \/ desk = "training" /\ TrainingStep(s)
    \/ desk = "licences" /\ LicenceStep(s)
    \/ desk = "skills" /\ SkillStep(s)
    \/ desk = "structure" /\ StructureStep(s)

\* The unique indexes.
PersonnelIndexes(after) ==
    /\ LET key(row) == <<row.of, row.version>> IN ~Clash(after, "resumes", key)
    /\ LET key(row) == <<row.of, row.skill>> IN ~Clash(after, "skill links", key)
    /\ LET key(row) == row.name
       IN \A t \in {"skills", "departments", "positions"} : ~Clash(after, t, key)

PersonnelCommit(s) == Commit(s, PersonnelIndexes(After(s)))

PersonnelNext ==
    /\ desk \in DOMAIN PersonnelTables
    /\ \E s \in Sessions : PersonnelStep(s) \/ PersonnelCommit(s) \/ Abort(s)

-----------------------------------------------------------------------------

PersonnelRows ==
    [family |-> FamilyRows, contacts |-> ContactRows, resumes |-> ResumeRows,
     documents |-> DocumentRows, qualifications |-> PaperRows, training |-> PaperRows,
     licences |-> PaperRows, skills |-> SkillRows, departments |-> DepartmentRows,
     positions |-> PositionRows]

PersonnelTypeOK ==
    desk \in DOMAIN PersonnelTables => \A r \in DOMAIN rows :
        There(r) => rows[r] \in (IF r[1] = "skill links" THEN SkillLinkRows
                                                         ELSE PersonnelRows[r[1]])

AtMostOne(name, flag) ==
    \A r, q \in Live(name) :
        rows[r][flag] /\ rows[q][flag] /\ rows[r].of = rows[q].of => r = q

\* As long as no request has committed on rows that had changed since it read
\* them, whatever was called in whatever order: an employee has at most one
\* primary next of kin, one primary contact and one current resume, and that
\* resume is not archived; no pair of dates is reversed; no verified document
\* has expired; nothing cites a document or a relative of somebody else.
\* Several requests of several clerks, and an archived row brought back, could
\* break each of them (_exclusive_flag, _exclusive_primary, _only_current).
RecordsAreSound ==
    torn \/ desk \notin DOMAIN PersonnelTables \/
    /\ AtMostOne("family", "primary")
    /\ AtMostOne("contacts", "primary")
    /\ AtMostOne("resumes", "current")
    /\ \A r \in Live("resumes") : rows[r].current => rows[r].active
    /\ \A t \in {"family", "documents", "qualifications", "training", "licences"} :
           \A r \in Live(t) : InOrder(rows[r])
    /\ \A d \in Live("documents") :
           "status" \in DOMAIN rows[d] /\ rows[d].status = "VERIFIED" => ~Expired(rows[d])
    /\ \A c \in Live("contacts") : Owned(rows[c].member, rows[c].of)
    /\ \A t \in {"qualifications", "training", "licences"} :
           \A r \in Live(t) : Owned(rows[r].doc, rows[r].of)

Flag(name) == IF name = "resumes" THEN "current" ELSE "primary"

\* Two promotions that overlap may leave two rows flagged.  A later promotion
\* that overlaps with nothing leaves exactly one, whatever it found: the clerk
\* who sees two primary contacts picks one and is done.
PromotionSettles ==
    [][\A s \in Sessions, r \in DOMAIN rows :
        /\ desk \in DOMAIN PersonnelTables
        /\ open[s] # Idle /\ rows' # rows /\ open'[s] = Idle /\ open[s].fresh
        /\ r[1] \in {"family", "contacts", "resumes"}
        /\ r \in DOMAIN open[s].writes
        /\ Flag(r[1]) \in DOMAIN open[s].writes[r] /\ open[s].writes[r][Flag(r[1])]
        => \A q \in Table(r[1]) :
              rows'[q].there /\ q # r /\ rows'[q].of = rows'[r].of
              => ~rows'[q][Flag(r[1])]]_storeVars
=============================================================================
