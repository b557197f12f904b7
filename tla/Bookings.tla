------------------------------ MODULE Bookings ------------------------------
(***************************************************************************)
(* Periods booked on an employee: leave requests (services/workforce.py,   *)
(* LeaveRequestService) and salaries (endpoints/hr.py).  Both lock the     *)
(* employee before they look for a period that overlaps.                   *)
(***************************************************************************)
EXTENDS RowStore

\* A period without an end runs on.
Overlap(a, b) ==
    /\ a.from <= b.until \/ b.until = NoDay
    /\ b.from <= a.until \/ a.until = NoDay

(***************************************************************************)
(* Leave requests.  Self-service bookings end in the same create; one with *)
(* a letter stores the file first and deletes it if the booking fails.     *)
(***************************************************************************)
LeaveStatuses == {"PENDING", "APPROVED", "REJECTED"}

LeaveRows ==
    [there : {TRUE}, of : Table("employees"), from : Days, until : Days, status : LeaveStatuses]

LeaveBodies == {b \in [from : Days, until : Days] : b.from <= b.until}

Booked(name, e) == {r \in Live(name) : rows[r].of = e /\ rows[r].status # "REJECTED"}

\* Mutant of LeaveCreate: the employee is read, not locked.
LeaveCreateUnlocked(s) ==
    \E e \in Live("employees"), body \in LeaveBodies :
        /\ Spare("leave") # {}
        /\ \A r \in Booked("leave", e) : ~Overlap(rows[r], body)
        /\ Stage(s, Insert("leave", Over([of |-> e, status |-> "PENDING"], body)))

LeaveCreate(s) ==
    \E e \in Live("employees"), body \in LeaveBodies :
        /\ Spare("leave") # {}
        /\ \A r \in Booked("leave", e) : ~Overlap(rows[r], body)
        /\ StageLocked(s, {e}, Insert("leave", Over([of |-> e, status |-> "PENDING"], body)))

LeaveDecide(s) ==
    \E r \in Live("leave"), status \in {"APPROVED", "REJECTED"} :
        /\ rows[r].status = "PENDING"
        /\ StageLocked(s, {r}, Set(r, [status |-> status]))

LeaveStep(s) == LeaveCreate(s) \/ LeaveDecide(s)

(***************************************************************************)
(* Salaries.  Ending one looks at the row once more when the employee is   *)
(* locked.                                                                 *)
(***************************************************************************)
SalaryRows ==
    [there : {TRUE}, of : Table("employees"), from : Days, until : Dates,
     status : {"PAID"}]

SalaryBodies == {b \in [from : Days, until : Dates] : InOrder(b)}

AddSalary(s) ==
    \E e \in Live("employees"), body \in SalaryBodies :
        /\ Spare("salaries") # {}
        /\ \A r \in Booked("salaries", e) : ~Overlap(rows[r], body)
        /\ StageLocked(s, {e}, Insert("salaries", Over([of |-> e, status |-> "PAID"], body)))

EndSalary(s) ==
    \E r \in Live("salaries"), day \in Days :
        /\ rows[r].until = NoDay
        /\ rows[r].from <= day
        /\ StageLocked(s, {rows[r].of}, Set(r, [until |-> day]))

SalaryStep(s) == AddSalary(s) \/ EndSalary(s)

-----------------------------------------------------------------------------

BookingDesks == {"leave", "salaries"}

BookingInit ==
    /\ desk \in BookingDesks
    /\ rows = [r \in {"employees", desk} \X Numbers |->
                  IF r[1] = "employees" THEN [there |-> TRUE] ELSE Absent]
    /\ StoreInit

BookingStep(s) ==
    \/ desk = "leave" /\ LeaveStep(s)
    \/ desk = "salaries" /\ SalaryStep(s)

BookingNext ==
    /\ desk \in BookingDesks
    /\ \E s \in Sessions : BookingStep(s) \/ Commit(s, TRUE) \/ Abort(s)

BookingSpec == BookingInit /\ [][BookingNext]_storeVars

-----------------------------------------------------------------------------

BookingTypeOK ==
    desk \in BookingDesks =>
        \A r \in Table(desk) :
            There(r) => rows[r] \in (IF desk = "leave" THEN LeaveRows ELSE SalaryRows)

\* Whoever books, decides and ends what at the same time, the leave of an
\* employee that is not rejected never overlaps, nor do salaries: the lock on
\* the employee covers the look and the insert (LeaveRequestService.create,
\* add_salary).
NeverOverlap ==
    desk \in BookingDesks =>
        \A r, q \in Live(desk) :
            /\ r # q /\ rows[r].of = rows[q].of
            /\ rows[r].status # "REJECTED" /\ rows[q].status # "REJECTED"
            => ~Overlap(rows[r], rows[q])
=============================================================================
