----------------------------- MODULE Rostering -----------------------------
(***************************************************************************)
(* Where an employee works and when: assignments to projects and transfers *)
(* between them (services/employees.py), rotations, authorizations to use  *)
(* equipment, time logs (services/workforce.py) and monthly timesheets     *)
(* (endpoints/employees.py).                                               *)
(***************************************************************************)
EXTENDS RowStore

(***************************************************************************)
(* Assignments.  An employee has at most one active primary assignment; a  *)
(* transfer completes it and opens the next one.  Nothing is locked until  *)
(* the business number is drawn, and that is after the checks.             *)
(***************************************************************************)
AssignmentStatuses == {"PLANNED", "ACTIVE", "COMPLETED", "CANCELLED"}

StaffRows == [there : {TRUE}, active : BOOLEAN]

AssignmentRows ==
    [there : {TRUE}, of : Table("employees"), from : Days, until : Dates,
     primary : BOOLEAN, status : AssignmentStatuses]

\* A bound: the flags are tried at the desk for assignments, the dates at tenure; an
\* assignment is completed and cancelled by the requests that do that.
AssignmentBodies ==
    IF desk = "assignments"
    THEN [from : {Today}, until : {NoDay}, primary : BOOLEAN, status : {"PLANNED", "ACTIVE"}]
    ELSE [from : Days, until : Dates, primary : {TRUE}, status : {"ACTIVE"}]

AssignmentChanges ==
    IF desk = "assignments"
    THEN [primary : BOOLEAN] \cup [status : {"ACTIVE"}]
    ELSE [until : Dates] \cup [from : Days]

TransferDays == IF desk = "assignments" THEN {Today} ELSE Days

ActivePrimary(e) ==
    {a \in Live("assignments") :
        rows[a].of = e /\ rows[a].primary /\ rows[a].status = "ACTIVE"}

RejectPrimaryConflict(e, self) == ActivePrimary(e) \subseteq self

CheckAssignment(body, e, self) ==
    /\ InOrder(body)
    /\ body.status = "ACTIVE" /\ body.primary => RejectPrimaryConflict(e, self)

AssignmentCreate(s) ==
    \E e \in Live("employees"), body \in AssignmentBodies :
        /\ rows[e].active
        /\ Spare("assignments") # {}
        /\ CheckAssignment(body, e, {})
        /\ Stage(s, Insert("assignments", Over([of |-> e], body)))

AssignmentChange(s, a, body) ==
    /\ CheckAssignment(Over(body, rows[a]), rows[a].of, {a})
    /\ Stage(s, Set(a, body))

AssignmentUpdate(s) ==
    \E a \in Live("assignments"), body \in AssignmentChanges : AssignmentChange(s, a, body)

AssignmentComplete(s) ==
    \E a \in Live("assignments") :
        AssignmentChange(s, a, [status |-> "COMPLETED", until |-> Today])

AssignmentCancel(s) ==
    \E a \in Live("assignments") : AssignmentChange(s, a, [status |-> "CANCELLED"])

\* The active primary assignment, if there is one, ends the day the next one
\* begins; a second one is met by the check that follows and refuses the transfer.
Transfer(s) ==
    \E e \in Live("employees"), day \in TransferDays :
        LET current == ActivePrimary(e)
        IN /\ rows[e].active
           /\ Spare("assignments") # {}
           /\ Cardinality(current) <= 1
           /\ Stage(s, Over(Insert("assignments",
                                  [of |-> e, from |-> day, until |-> NoDay,
                                   primary |-> TRUE, status |-> "ACTIVE"]),
                            SetAll(current, [status |-> "COMPLETED", until |-> day])))

EmployeeArchive(s) ==
    \E e \in Live("employees") : rows[e].active /\ Stage(s, Set(e, [active |-> FALSE]))

EmployeeRestore(s) ==
    \E e \in Live("employees") : ~rows[e].active /\ Stage(s, Set(e, [active |-> TRUE]))

\* A bound: employees leave and come back at the desk for assignments.
AssignmentStep(s) ==
    \/ AssignmentCreate(s) \/ AssignmentUpdate(s) \/ AssignmentComplete(s)
    \/ AssignmentCancel(s) \/ Transfer(s)
    \/ desk = "assignments" /\ (EmployeeArchive(s) \/ EmployeeRestore(s))

(***************************************************************************)
(* Rotations: a pattern, and the days a cycle, its work and its leave      *)
(* begin and end.  A rotation is never changed.                            *)
(***************************************************************************)
PatternRows == [there : {TRUE}, name : Names, active : BOOLEAN]

RotationRows ==
    [there : {TRUE}, of : Employees, pattern : Table("patterns"),
     job : {NoRef} \cup Table("assignments"), work : Days, ends : Days, off : Days]

PatternCreate(s) ==
    \E n \in Names :
        /\ Spare("patterns") # {}
        /\ Stage(s, Insert("patterns", [name |-> n, active |-> TRUE]))

PatternUpdate(s) ==
    \E p \in Live("patterns"), body \in [name : Names] \cup [active : BOOLEAN] :
        Stage(s, Set(p, body))

Chronological(body) == body.work <= body.ends /\ body.ends <= body.off

RotationCreate(s) ==
    \E e \in Employees, p \in Live("patterns"),
       body \in [job : {NoRef} \cup Table("assignments"), work : Days, ends : Days, off : Days] :
        /\ Spare("rotations") # {}
        /\ body.job # NoRef => There(body.job) /\ rows[body.job].of = e
        /\ Chronological(body)
        /\ Stage(s, Insert("rotations", Over([of |-> e, pattern |-> p], body)))

\* What current() lists: the employees the work of a rotation has on site.
OnSite == {rows[r].of : r \in {x \in Live("rotations") :
                                  rows[x].work <= Today /\ Today <= rows[x].ends}}

RotationStep(s) == PatternCreate(s) \/ PatternUpdate(s) \/ RotationCreate(s)

(***************************************************************************)
(* Authorizations name a category or a machine when they are made.  An     *)
(* update is asked only for the dates; it may lift a revocation.           *)
(***************************************************************************)
AuthorizationRows ==
    [there : {TRUE}, of : Employees, category : BOOLEAN, asset : BOOLEAN, from : Dates,
     until : Dates, status : {"ACTIVE", "SUSPENDED", "EXPIRED", "REVOKED"}]

AuthorizationBodies ==
    [category : BOOLEAN, asset : BOOLEAN, from : Dates, until : Dates, status : {"ACTIVE"}]

AuthorizationChanges ==
    [category : BOOLEAN] \cup [asset : BOOLEAN] \cup [from : Dates] \cup [until : Dates]
    \cup [status : {"ACTIVE", "SUSPENDED"}]

AuthorizationCreate(s) ==
    \E e \in Employees, body \in AuthorizationBodies :
        /\ Spare("authorizations") # {}
        /\ body.category \/ body.asset
        /\ InOrder(body)
        /\ Stage(s, Insert("authorizations", Over([of |-> e], body)))

AuthorizationUpdate(s) ==
    \E a \in Live("authorizations"), body \in AuthorizationChanges :
        InOrder(Over(body, rows[a])) /\ Stage(s, Set(a, body))

AuthorizationRevoke(s) ==
    \E a \in Live("authorizations") : Stage(s, Set(a, [status |-> "REVOKED"]))

AuthorizationStep(s) ==
    AuthorizationCreate(s) \/ AuthorizationUpdate(s) \/ AuthorizationRevoke(s)

(***************************************************************************)
(* Time logs and timesheets.  A time log is written once.  A timesheet is  *)
(* the report of an employee for a month, a row for each day worked under  *)
(* it; another report for the same month replaces the days.  The delete    *)
(* removes the days that are committed when it runs.                       *)
(***************************************************************************)
TimeLogRows ==
    [there : {TRUE}, of : Employees, start : Dates, end : Dates,
     status : {"PENDING", "COMPLETED"}]

TimeLogCreate(s) ==
    \E e \in Employees, body \in [start : Dates, end : Dates] :
        /\ Spare("time logs") # {}
        /\ body.end # NoDay => body.start # NoDay /\ body.start < body.end
        /\ Stage(s, Insert("time logs",
                           Over([of |-> e, status |-> IF body.end = NoDay THEN "PENDING"
                                                      ELSE "COMPLETED"], body)))

SheetRows == [there : {TRUE}, of : Table("employees"), report : Names]
SheetDayRows ==
    [there : {TRUE}, sheet : Table("timesheets"), day : Days, report : Names]

DaysOf(t) == {d \in Live("sheet days") : rows[d].sheet = t}

\* The days of the report as new rows, one after another.
NewDays(t, worked, report) ==
    LET spare == Spare("sheet days")
        place(r) == Cardinality({x \in spare : x[2] < r[2]}) + 1
        nth(d) == Cardinality({x \in worked : x <= d})
        used == {r \in spare : place(r) <= Cardinality(worked)}
        day(r) == CHOOSE d \in worked : nth(d) = place(r)
    IN [r \in used |-> [there |-> TRUE, sheet |-> t, day |-> day(r), report |-> report]]

SheetsOf(e) == {t \in Live("timesheets") : rows[t].of = e}

SaveTimesheet(s) ==
    \E e \in Live("employees"), worked \in SUBSET Days, report \in Names :
        LET sheet == CHOOSE t \in SheetsOf(e) : TRUE
            t == IF SheetsOf(e) = {} THEN NewRow("timesheets") ELSE sheet
            header == IF SheetsOf(e) = {} THEN Insert("timesheets", [of |-> e, report |-> report])
                                          ELSE Set(t, [report |-> report])
            erased == IF SheetsOf(e) = {} THEN {} ELSE DaysOf(t)
        IN /\ SheetsOf(e) = {} => Spare("timesheets") # {}
           /\ Cardinality(Spare("sheet days")) >= Cardinality(worked)
           /\ Stage(s, Over(Over(header, NewDays(t, worked, report)), SetAll(erased, Absent)))

(***************************************************************************)
(* One desk to a behaviour.  Employees are there from the start.           *)
(***************************************************************************)
RosterTables ==
    [assignments |-> {"employees", "assignments"}, tenure |-> {"employees", "assignments"},
     rotations |-> {"patterns", "rotations", "assignments"},
     authorizations |-> {"authorizations"},
     timesheets |-> {"employees", "timesheets", "sheet days"},
     timelogs |-> {"time logs"}]

\* A bound: these bear on no other row of their table.
RosterIds ==
    {r \in RosterTables[desk] \X Numbers :
        r[1] \in {"employees", "authorizations", "rotations", "time logs"}
            => r[2] = 1}

RosterFirst(r, owner) ==
    IF r[1] = "employees" THEN [there |-> TRUE, active |-> TRUE]
    ELSE [there |-> TRUE, of |-> owner[r[2]], from |-> Today, until |-> NoDay,
          primary |-> FALSE, status |-> "ACTIVE"]

RosterInit ==
    /\ desk \in DOMAIN RosterTables
    /\ \E owner \in [Numbers -> Employees] :
        rows = [r \in RosterIds |->
                   IF r[1] = "employees" \/ (desk = "rotations" /\ r[1] = "assignments")
                   THEN RosterFirst(r, owner) ELSE Absent]
    /\ StoreInit

RosterStep(s) ==
    \/ desk \in {"assignments", "tenure"} /\ AssignmentStep(s)
    \/ desk = "rotations" /\ RotationStep(s)
    \/ desk = "authorizations" /\ AuthorizationStep(s)
    \/ desk = "timesheets" /\ SaveTimesheet(s)
    \/ desk = "timelogs" /\ TimeLogCreate(s)

\* The unique indexes.
RosterIndexes(after) ==
    /\ LET key(row) == row.name IN ~Clash(after, "patterns", key)
    /\ LET key(row) == row.of IN ~Clash(after, "timesheets", key)
    /\ LET key(row) == <<row.sheet, row.day>> IN ~Clash(after, "sheet days", key)

RosterCommit(s) == Commit(s, RosterIndexes(After(s)))

RosterNext ==
    /\ desk \in DOMAIN RosterTables
    /\ \E s \in Sessions : RosterStep(s) \/ RosterCommit(s) \/ Abort(s)

-----------------------------------------------------------------------------

RosterRows(r) ==
    CASE r[1] = "employees" -> StaffRows
      [] r[1] = "assignments" -> IF desk # "rotations" THEN AssignmentRows ELSE {rows[r]}
      [] r[1] = "patterns" -> PatternRows
      [] r[1] = "rotations" -> RotationRows
      [] r[1] = "authorizations" -> AuthorizationRows
      [] r[1] = "time logs" -> TimeLogRows
      [] r[1] = "timesheets" -> SheetRows
      [] r[1] = "sheet days" -> SheetDayRows

RosterTypeOK ==
    desk \in DOMAIN RosterTables =>
        \A r \in DOMAIN rows : There(r) => rows[r] \in RosterRows(r)

\* As long as no request committed on rows that had changed since it read them:
\* an employee works on one active primary assignment at most, however
\* assignments are made, changed, completed and transferred between; and the
\* days of a timesheet are all of the report it was last saved from
\* (_reject_primary_conflict, transfer, _save_employee_timesheet).
RosterIsSound ==
    desk \in DOMAIN RosterTables /\ ~torn =>
        /\ "employees" \in RosterTables[desk] /\ desk # "timesheets" =>
               \A e \in Table("employees") : Cardinality(ActivePrimary(e)) <= 1
        /\ \A d \in Live("sheet days") :
               There(rows[d].sheet) /\ rows[d].report = rows[rows[d].sheet].report

\* An employee whose active primary assignments came from a race can be put
\* right: a request that opens one, overlapped by nothing, leaves only that one
\* (create_assignment, transfer).
OpensOnlyOne ==
    [][\A s \in Sessions, a \in Table("assignments") :
        /\ desk \in {"assignments", "tenure"}
        /\ open[s] # Idle /\ open[s].fresh /\ open'[s] = Idle
        /\ ~There(a) /\ rows'[a].there
        /\ rows'[a].primary /\ rows'[a].status = "ACTIVE"
        => \A b \in Table("assignments") \ {a} :
              ~(rows'[b].there /\ rows'[b].of = rows'[a].of
                /\ rows'[b].primary /\ rows'[b].status = "ACTIVE")]_storeVars

\* "Assignment end date cannot precede start date" (_check_assignment_refs).
AssignmentDatesInOrder ==
    desk = "tenure" /\ ~torn => \A a \in Live("assignments") : InOrder(rows[a])
=============================================================================
