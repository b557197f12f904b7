------------------------------ MODULE Drilling ------------------------------
(***************************************************************************)
(* Drill holes, shift reports and what an approved report charges to the   *)
(* contract of its project (services/drilling.py, services/commercial.py,  *)
(* services/project_sites.py, services/field_shifts.py).  One project; a   *)
(* report holds one interval at most, from the surface.  A report is the   *)
(* one of its rig, date and shift, by the unique index: these are its row  *)
(* id.  Roles, hours, crews and the notice to the supervisor, sent after   *)
(* the commit, are left out.                                               *)
(***************************************************************************)
EXTENDS RowStore

Sites == Names
Depths == Days         \* metres
NoDepth == 0

\* There is a deepest one: the columns have so many digits.
ASSUME DepthsAssumption == \E deepest \in Depths : \A d \in Depths : d <= deepest

(***************************************************************************)
(* Holes.  An edit reads the hole and its intervals without a lock.        *)
(***************************************************************************)
HoleStatuses == {"PLANNED", "IN_PROGRESS"}   \* closing a hole has no rule

HoleRows ==
    [there : {TRUE}, site : Sites, target : Depths \cup {NoDepth},
     final : Depths \cup {NoDepth}, status : HoleStatuses]

IntervalsOf(h) == {r \in Live("reports") : rows[r].hole = h}

\* A bound: a target is reached soon.
Targets == {NoDepth} \cup {d \in Depths : \A x \in Depths : d <= x}

HoleCreate(s) ==
    \E site \in Sites, target \in Targets :
        /\ Spare("holes") # {}
        /\ Stage(s, Insert("holes", [site |-> site, target |-> target, final |-> NoDepth,
                                     status |-> "PLANNED"]))

HoleUpdate(s) ==
    \E h \in Live("holes"),
       body \in [site : Sites] \cup [target : Targets] :
        /\ "site" \in DOMAIN body /\ body.site # rows[h].site => IntervalsOf(h) = {}
        /\ Stage(s, Set(h, body))

(***************************************************************************)
(* Shift reports.  Whoever saves an interval locks its hole, and every     *)
(* request on a report locks the report.                                   *)
(***************************************************************************)
ShiftReportStatuses == {"DRAFT", "SUBMITTED", "APPROVED", "RETURNED"}

ReportRows ==
    [there : {TRUE}, site : Sites, hole : {NoRef} \cup Table("holes"),
     to : Depths \cup {NoDepth}, status : ShiftReportStatuses, corrected : BOOLEAN]

\* A report without an interval, or with one.
Intervals == [hole : {NoRef}, to : {NoDepth}] \cup [hole : Table("holes"), to : Depths]

DeepestOf(S) == CHOOSE d \in S : \A x \in S : x <= d

\* validate_site_intervals for a report with these columns.
ValidInterval(body, self) ==
    body.hole # NoRef =>
        LET hole == rows[body.hole]
            others == {rows[r].to : r \in IntervalsOf(body.hole) \ self}
            previous == DeepestOf({0} \cup others
                                  \cup (IF self = {} THEN {hole.final} ELSE {}))
        IN /\ hole.there /\ hole.site = body.site
           /\ hole.target # NoDepth => previous < hole.target /\ body.to <= hole.target

\* Mutant of HoleLock: the hole is read, not locked.
HoleUnlocked(body) == {}

HoleLock(body) == {body.hole} \ {NoRef}

\* A bound: at the desk for billing the hole is the same, nothing moves, and only the
\* first report is about other metres than the others.
ReportBodies ==
    IF desk = "shifts"
    THEN {Over(i, [site |-> site, status |-> "DRAFT"]) : i \in Intervals, site \in Sites}
    ELSE [site : Sites, hole : Table("holes"), to : {DeepestOf(Depths)},
          status : {"DRAFT", "APPROVED"}]

ReportChanges(r) ==
    IF desk = "shifts" THEN [site : Sites] \cup Intervals
    ELSE IF r = <<"reports", 1>> THEN [to : Depths] ELSE {}

ShiftCreate(s) ==
    \E body \in ReportBodies :
        /\ Spare("reports") # {}
        /\ ValidInterval(body, {})
        /\ StageLocked(s, HoleLock(body),
                       Insert("reports", Over([corrected |-> FALSE], body)))

\* The columns of a report that is there, and what marks it.
SaveShift(s, r, body, mark) ==
    LET row == Over(body, rows[r])
    IN ValidInterval(row, {r})
       /\ StageLocked(s, {r} \cup HoleLock(row), Set(r, Over(mark, body)))

\* Mutant of ShiftUpdate: a correction leaves no trace.
ShiftUpdateUnmarked(s) ==
    \E r \in Live("reports") : \E body \in ReportChanges(r) : SaveShift(s, r, body, <<>>)

\* An approved report is changed with a reason.
ShiftUpdate(s) ==
    \E r \in Live("reports") : \E body \in ReportChanges(r), reason \in BOOLEAN :
        LET approved == rows[r].status = "APPROVED"
        IN /\ approved => reason
           /\ SaveShift(s, r, body, IF approved THEN [corrected |-> TRUE] ELSE <<>>)

\* edit_shift, of a supervisor in the field: not of an approved report.
FieldShiftUpdate(s) ==
    \E r \in Live("reports") : \E body \in ReportChanges(r) :
        rows[r].status # "APPROVED" /\ SaveShift(s, r, body, <<>>)

SetStatus(s, from, to) ==
    \E r \in Live("reports") :
        rows[r].status \in from /\ StageLocked(s, {r}, Set(r, [status |-> to]))

ShiftSubmit(s) == SetStatus(s, {"DRAFT", "RETURNED"}, "SUBMITTED")
\* Mutant of ShiftReturn: an approved report can be returned.
ShiftReturnApproved(s) == SetStatus(s, {"SUBMITTED", "APPROVED"}, "RETURNED")

ShiftReturn(s) == SetStatus(s, {"SUBMITTED"}, "RETURNED")

ShiftDelete(s) ==
    \E r \in Live("reports") :
        rows[r].status # "APPROVED" /\ StageLocked(s, {r}, Set(r, Absent))

(***************************************************************************)
(* Contracts, and the revenue an approval posts: the metres of the report, *)
(* and the fee for mobilization if the contract has not been charged yet.  *)
(* Hours are charged as metres are, and left out.                          *)
(***************************************************************************)
ContractStatuses == {"ACTIVE", "EXPIRED"}   \* or any that is not active

\* Of the rate cards, only whether there is one for mobilization is kept.
ClientContractRows == [there : {TRUE}, status : ContractStatuses, mobilization : BOOLEAN]

RevenueRows ==
    [there : {TRUE}, report : Table("reports"), contract : Table("contracts"),
     kind : {"METERAGE", "MOBILIZATION"}, metres : Depths \cup {NoDepth}]

Charges(kind) == {v \in Live("revenue") : rows[v].kind = kind}

ContractCreate(s) ==
    \E mobilization \in BOOLEAN :
        /\ Spare("contracts") # {}
        /\ Stage(s, Insert("contracts", [status |-> "ACTIVE", mobilization |-> mobilization]))

ContractUpdate(s) ==
    \E c \in Live("contracts"),
       body \in [status : ContractStatuses] \cup [mobilization : {FALSE}] :
        Stage(s, Set(c, body))

ContractDelete(s) == \E c \in Live("contracts") : Stage(s, Set(c, Absent))

AddRateCard(s) == \E c \in Live("contracts") : Stage(s, Set(c, [mobilization |-> TRUE]))

ActiveContracts == {c \in Live("contracts") : rows[c].status = "ACTIVE"}

\* A report and a kind have a place of their own.
Place(r, kind) == <<"revenue", 2 * r[2] + (IF kind = "METERAGE" THEN 0 ELSE 1)>>

\* The revenue rows a report gets, in the places of those it had and of spare ones.
PostRevenue(r) ==
    IF ActiveContracts = {} THEN <<>>
    ELSE LET c == CHOOSE c \in ActiveContracts : TRUE
             old == {v \in Live("revenue") : rows[v].report = r}
             line(kind, metres) ==
                [there |-> TRUE, report |-> r, contract |-> c,
                 kind |-> kind, metres |-> metres]
             charged == \E v \in Charges("MOBILIZATION") \ old : rows[v].contract = c
             lines == (IF rows[r].hole = NoRef THEN {} ELSE {line("METERAGE", rows[r].to)})
                      \cup (IF rows[c].mobilization /\ ~charged
                            THEN {line("MOBILIZATION", NoDepth)} ELSE {})
             place(l) == Place(r, l.kind)
         IN Over([v \in {place(l) : l \in lines} |-> CHOOSE l \in lines : place(l) = v],
                 SetAll(old, Absent))

\* The hole and the contract are read without a lock.
ShiftApprove(s) ==
    \E r \in Live("reports") :
        LET h == rows[r].hole
            deeper == IF rows[r].to > rows[h].final THEN [final |-> rows[r].to] ELSE <<>>
            started == IF rows[h].status = "PLANNED" THEN [status |-> "IN_PROGRESS"] ELSE <<>>
        IN /\ rows[r].status # "APPROVED"
           /\ StageLocked(s, {r},
                 Over(Set(r, [status |-> "APPROVED"]),
                      Over(IF h = NoRef THEN <<>> ELSE Set(h, Over(deeper, started)),
                           PostRevenue(r))))

\* A bound: a report is submitted and returned at the desk for billing.
ReportStep(s) ==
    \/ ShiftCreate(s) \/ ShiftUpdate(s) \/ FieldShiftUpdate(s)
    \/ ShiftDelete(s) \/ ShiftApprove(s)
    \/ desk = "billing" /\ (ShiftSubmit(s) \/ ShiftReturn(s))

ContractStep(s) ==
    ContractCreate(s) \/ ContractUpdate(s) \/ ContractDelete(s) \/ AddRateCard(s)

(***************************************************************************)
(* Programs: made, and changed, without a rule.                            *)
(***************************************************************************)
ProgramStatuses == {"PLANNING", "ACTIVE", "COMPLETED", "CANCELLED"}
ProgramRows == [there : {TRUE}, status : ProgramStatuses]

ProgramStep(s) ==
    \/ Spare("programs") # {} /\ Stage(s, Insert("programs", [status |-> "PLANNING"]))
    \/ \E p \in Live("programs"), status \in ProgramStatuses :
          Stage(s, Set(p, [status |-> status]))

-----------------------------------------------------------------------------

DrillingTables ==
    [shifts |-> {"holes", "reports"},
     billing |-> {"holes", "reports", "contracts", "revenue"}, programs |-> {"programs"}]

\* A bound: one hole, one contract, one program; as many reports as there are numbers.
DrillingNumbers(name) ==
    CASE name \in {"contracts", "programs", "holes"} -> {1}
      [] name = "reports" -> Numbers
      [] name = "revenue" -> {2 * n : n \in Numbers} \cup {2 * n + 1 : n \in Numbers}

DrillingIds == UNION {{name} \X DrillingNumbers(name) : name \in DrillingTables[desk]}

\* A bound: at the desk for billing the hole is there from the start, and drilled.
DrillingInit ==
    /\ desk \in DOMAIN DrillingTables
    /\ \E site \in Sites :
        rows = [r \in DrillingIds |->
                   IF desk = "billing" /\ r[1] = "holes"
                   THEN [there |-> TRUE, site |-> site, target |-> NoDepth,
                         final |-> DeepestOf(Depths), status |-> "IN_PROGRESS"]
                   ELSE Absent]
    /\ StoreInit

DrillingStep(s) ==
    \/ desk = "shifts" /\ (HoleCreate(s) \/ HoleUpdate(s) \/ ReportStep(s))
    \/ desk = "billing" /\ (ContractStep(s) \/ ReportStep(s))
    \/ desk = "programs" /\ ProgramStep(s)

\* Rate cards that are charged by are not replaced, nor is their contract or a
\* report that was charged deleted.
DrillingConstraints(after) ==
    \A v \in {x \in DOMAIN after : x[1] = "revenue" /\ after[x].there} :
        /\ after[after[v].report].there
        /\ after[after[v].contract].there
        /\ rows[after[v].contract].mobilization => after[after[v].contract].mobilization

DrillingCommit(s) == Commit(s, DrillingConstraints(After(s)))

DrillingNext ==
    /\ desk \in DOMAIN DrillingTables
    /\ \E s \in Sessions : DrillingStep(s) \/ DrillingCommit(s) \/ Abort(s)

DrillingSpec == DrillingInit /\ [][DrillingNext]_storeVars

-----------------------------------------------------------------------------

DrillingRows(r) ==
    CASE r[1] = "holes" -> HoleRows
      [] r[1] = "reports" -> ReportRows
      [] r[1] = "contracts" -> ClientContractRows
      [] r[1] = "revenue" -> RevenueRows
      [] r[1] = "programs" -> ProgramRows

DrillingTypeOK ==
    desk \in DOMAIN DrillingTables =>
        \A r \in DOMAIN rows : There(r) => rows[r] \in DrillingRows(r)

\* Whatever requests run into each other, a report is charged for its metres
\* once at most, only when it is approved, and for the metres it reports unless
\* it was corrected afterwards (approve_shift_report,
\* calculate_and_post_shift_revenue).
ChargedOnce ==
    desk = "billing" =>
        \A v \in Charges("METERAGE") :
            LET r == rows[v].report
            IN /\ There(r) /\ rows[r].status = "APPROVED"
               /\ rows[v].metres = rows[r].to \/ rows[r].corrected
               /\ \A w \in Charges("METERAGE") : rows[w].report = r => v = w

\* As long as no request committed on rows that had changed since it read them,
\* the interval of a report is at the site of its hole: a hole that has one is
\* not moved, a report that has one is not moved away from it
\* (update_drill_hole, validate_site_intervals); and the mobilization of a
\* contract is charged once.
DrillingIsSound ==
    desk \in DOMAIN DrillingTables /\ ~torn =>
        /\ \A r \in Live("reports") :
               rows[r].hole # NoRef =>
                   There(rows[r].hole) /\ rows[rows[r].hole].site = rows[r].site
        /\ \A v, w \in Charges("MOBILIZATION") : rows[v].contract = rows[w].contract => v = w

\* Whatever runs into it, an interval is never saved deeper than the target its
\* hole has at that moment: the look at the target and the save are under the
\* lock on the hole (validate_site_intervals).
NeverBeyondTarget ==
    [][\A r \in Table("reports") :
          /\ desk = "shifts" /\ rows'[r].there /\ rows'[r].hole # NoRef
          /\ There(r) => <<rows'[r].hole, rows'[r].to>> # <<rows[r].hole, rows[r].to>>
          => rows'[rows'[r].hole].target = NoDepth
             \/ rows'[r].to <= rows'[rows'[r].hole].target]_storeVars

\* An approved report stays approved and is not deleted, and an interval of it
\* changes only in a correction (update_shift_report, delete_shift_report).
ApprovalIsFinal ==
    [][\A r \in Table("reports") :
          There(r) /\ rows[r].status = "APPROVED" =>
              /\ rows'[r].there /\ rows'[r].status = "APPROVED"
              /\ <<rows'[r].hole, rows'[r].to>> # <<rows[r].hole, rows[r].to>>
                     => rows'[r].corrected]_storeVars

\* "Mobilization Flat Fee (Auto-posted once per active contract)"
\* (calculate_and_post_shift_revenue).
MobilizationOnce ==
    \A v, w \in Charges("MOBILIZATION") : rows[v].contract = rows[w].contract => v = w
=============================================================================
