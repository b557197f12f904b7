---------------------------- MODULE OfficeProofs ----------------------------
(***************************************************************************)
(* Theorems of the desks of the office: what a handler that looks under a  *)
(* lock and commits later promises, whoever else is at the desk and        *)
(* however many sessions, rows, names and days there are.                  *)
(***************************************************************************)
EXTENDS MCOffice, RowStoreProofs

-----------------------------------------------------------------------------
(* Bookings. *)

BookRows == IF desk = "leave" THEN LeaveRows ELSE SalaryRows

\* A row that books its period for the employee.
Claims(row, e) == row.of = e /\ row.status # "REJECTED"

\* What a session that books, decides or ends has staged, and what holds of the
\* rows until it commits, because it holds a lock.
Booking(s, r) ==
    /\ r \in Table(desk) /\ ~There(r)
    /\ open[s].writes[r] \in BookRows
    /\ open[s].writes[r].of \in open[s].locks
    /\ \A q \in Live(desk) : Claims(rows[q], open[s].writes[r].of)
                                => ~Overlap(rows[q], open[s].writes[r])
    /\ \A t \in Sessions \ {s} : r \notin DOMAIN open[t].writes

Deciding(s, r) ==
    /\ desk = "leave" /\ r \in Live("leave") /\ r \in open[s].locks
    /\ rows[r].status = "PENDING"
    /\ \E status \in {"APPROVED", "REJECTED"} : open[s].writes[r] = [status |-> status]

Ending(s, r) ==
    /\ desk = "salaries" /\ r \in Live("salaries") /\ rows[r].of \in open[s].locks
    /\ rows[r].until = NoDay
    /\ \E day \in Days : open[s].writes[r] = [until |-> day]

BookingPending(s) ==
    \/ DOMAIN open[s].writes = {}
    \/ \E r \in DOMAIN rows :
          /\ DOMAIN open[s].writes = {r}
          /\ Booking(s, r) \/ Deciding(s, r) \/ Ending(s, r)

BookingIds == {"employees", desk} \X Numbers

BookingInv ==
    /\ Shape
    /\ desk \in BookingDesks
    /\ DOMAIN rows = BookingIds
    /\ BookingTypeOK
    /\ NeverOverlap
    /\ \A s \in Sessions : BookingPending(s)

\* Of the rows of a booking desk.
LEMMA BookRowsAre ==
    ASSUME NEW row \in BookRows, desk \in BookingDesks
    PROVE  /\ row = [c \in DOMAIN row |-> row[c]]
           /\ DOMAIN row = {"there", "of", "from", "until", "status"}
           /\ row.there = TRUE /\ row.of \in Table("employees")
           /\ row.from \in Nat /\ row.until \in Nat
           /\ row.status \in LeaveStatuses \cup {"PAID"}
<1>1. Days \subseteq Nat /\ Dates \subseteq Nat
  BY RowStoreAssumption DEF Dates, NoDay, RowStoreAssumption
<1>2. CASE desk = "leave"
  BY <1>2, <1>1 DEF BookRows, LeaveRows
<1>3. CASE desk = "salaries"
  BY <1>3, <1>1 DEF BookRows, SalaryRows
<1> QED BY <1>2, <1>3 DEF BookingDesks

\* Numbers of bookings are numbers.
LEMMA BookingNumbers ==
    ASSUME DOMAIN rows = BookingIds
    PROVE  \A name : \A r \in Table(name) : r[2] \in Nat
  BY RowStoreAssumption DEF BookingIds, Table, RowStoreAssumption

\* What the rows of a desk keep of one another: the same bookings of the same
\* employee, none of them longer.
Shrunk(new, old) ==
    /\ new.of = old.of /\ new.from = old.from
    /\ new.until = old.until \/ old.until = NoDay
    /\ old.status = "REJECTED" => new.status = "REJECTED"

\* A row that is written over and not extended leaves no overlap.
LEMMA ShrunkKeeps ==
    ASSUME BookingInv, DOMAIN rows' = DOMAIN rows, desk' = desk, NEW r \in Live(desk),
           rows'[r] \in BookRows, Shrunk(rows'[r], rows[r]),
           \A q \in DOMAIN rows \ {r} : rows'[q] = rows[q]
    PROVE  BookingTypeOK' /\ NeverOverlap'
<1>1. Live(desk)' = Live(desk) /\ Table(desk)' = Table(desk)
      /\ Table("employees")' = Table("employees")
  BY BookRowsAre DEF BookingInv, Live, There, Table
<1>2. BookRows' = BookRows
  BY <1>1 DEF BookRows, LeaveRows, SalaryRows
<1>3. \A q \in Live(desk) : rows[q] \in BookRows /\ rows'[q] \in BookRows
                              /\ Shrunk(rows'[q], rows[q])
  BY DEF BookingInv, BookingTypeOK, BookRows, Live, Shrunk, Table
<1>4. BookingTypeOK'
  BY <1>1, <1>2, <1>3 DEF BookingTypeOK, BookRows, Live, BookingInv
<1>5. ASSUME NEW q \in Live(desk), NEW p \in Live(desk), q # p, rows'[q].of = rows'[p].of,
             rows'[q].status # "REJECTED", rows'[p].status # "REJECTED"
      PROVE  ~Overlap(rows'[q], rows'[p])
  BY <1>3, <1>5, BookRowsAre DEF BookingInv, NeverOverlap, Shrunk, Overlap, NoDay
<1> QED BY <1>1, <1>4, <1>5 DEF NeverOverlap

\* Empty tables, and nobody has begun.
LEMMA BookingStarts == BookingInit => BookingInv
  BY InitShape DEF BookingInit, BookingIds, There, Live, Table, Absent, BookingDesks,
     BookingTypeOK, NeverOverlap, BookingInv, BookingPending

\* Another session's handler disturbs nothing that is staged: it takes no row
\* that somebody is about to insert.
LEMMA BookingStaged ==
    ASSUME BookingInv, NEW s \in Sessions, Shape', OthersStay(s), UNCHANGED <<desk, rows>>,
           BookingPending(s)',
           \A t \in Sessions \ {s} :
               \A r \in DOMAIN open[t].writes : ~There(r) => r \notin DOMAIN open'[s].writes
    PROVE  BookingInv'
<1>1. ASSUME NEW t \in Sessions, t # s
      PROVE  BookingPending(t)'
  <2>1. CASE DOMAIN open[t].writes = {}
    BY <1>1, <2>1 DEF OthersStay, BookingPending
  <2>2. CASE DOMAIN open[t].writes # {}
    <3>1. PICK r \in DOMAIN rows : /\ DOMAIN open[t].writes = {r}
                                   /\ Booking(t, r) \/ Deciding(t, r) \/ Ending(t, r)
      BY <2>2 DEF BookingInv, BookingPending
    <3>2. open'[t].writes = open[t].writes /\ open'[t].locks = open[t].locks
      BY <1>1 DEF OthersStay
    <3>3. CASE Booking(t, r)
      BY <3>1, <3>3, <3>2 DEF Booking, OthersStay, There, Table, BookRows, LeaveRows,
         SalaryRows, Booked, Live, BookingPending
    <3>4. CASE Deciding(t, r)
      BY <3>2, <3>4, <3>1 DEF Deciding, There, Table, Live, BookingPending
    <3>5. CASE Ending(t, r)
      BY <3>2, <3>5, <3>1 DEF Ending, There, Table, Live, BookingPending
    <3> QED BY <3>1, <3>3, <3>4, <3>5
  <2> QED BY <2>1, <2>2
<1>2. BookingTypeOK' /\ NeverOverlap'
  BY DEF BookingInv, BookingTypeOK, NeverOverlap, LeaveRows, SalaryRows, Live, Table, There
<1> QED BY <1>1, <1>2 DEF BookingInv, BookingIds

\* The row a booking inserts.
LEMMA NewBooking ==
    ASSUME NEW e, NEW status, NEW body, body = [from |-> body.from, until |-> body.until]
    PROVE  Over([there |-> TRUE], Over([of |-> e, status |-> status], body))
             = [there |-> TRUE, of |-> e, status |-> status,
                from |-> body.from, until |-> body.until]
<1> DEFINE cols == Over([of |-> e, status |-> status], body)
<1>1. cols = [of |-> e, status |-> status, from |-> body.from, until |-> body.until]
  <2>1. DOMAIN cols = {"of", "status", "from", "until"}
    BY DEF Over
  <2>2. /\ cols = [c \in DOMAIN cols |-> cols[c]]
        /\ cols.of = e /\ cols.status = status
        /\ cols.from = body.from /\ cols.until = body.until
    BY DEF Over
  <2> HIDE DEF cols
  <2> QED BY <2>1, <2>2
<1> HIDE DEF cols
<1> DEFINE row == Over([there |-> TRUE], cols)
<1>2. DOMAIN row = {"there", "of", "status", "from", "until"}
  BY <1>1 DEF Over
<1>3. /\ row = [c \in DOMAIN row |-> row[c]]
      /\ row.there = TRUE /\ row.of = e /\ row.status = status
      /\ row.from = body.from /\ row.until = body.until
  BY <1>1 DEF Over
<1>4. row = [there |-> TRUE, of |-> e, status |-> status,
             from |-> body.from, until |-> body.until]
  <2> HIDE DEF row
  <2> QED BY <1>2, <1>3
<1> QED BY <1>4 DEF cols

\* Whoever books has looked, under the lock of the employee, and inserts a row of
\* the desk that overlaps none.
LEMMA BookingStages ==
    ASSUME BookingInv, NEW s \in Sessions, NEW name, desk = name, NEW e, NEW cols,
           Spare(name) # {}, StageLocked(s, {e}, Insert(name, cols)),
           Over([there |-> TRUE], cols) \in BookRows,
           Over([there |-> TRUE], cols).of = e,
           \A q \in Booked(name, e) : ~Overlap(rows[q], Over([there |-> TRUE], cols))
    PROVE  BookingInv'
<1> DEFINE row == Over([there |-> TRUE], cols)
<1>1. Shape /\ DOMAIN rows = BookingIds
  BY DEF BookingInv
<1>2. PICK r :
      /\ r \in Table(name) /\ ~There(r)
      /\ \A t \in Sessions : r \notin DOMAIN open[t].writes
      /\ DOMAIN open'[s].writes = {r} /\ open'[s].writes[r] = row
      /\ open'[s].locks = {e}
      /\ Shape' /\ OthersStay(s) /\ UNCHANGED <<desk, rows, torn>>
  BY <1>1, BookingNumbers, StageInsert
<1> HIDE DEF row
<1>3. row \in BookRows /\ row.of = e /\ \A q \in Booked(name, e) : ~Overlap(rows[q], row)
  BY DEF row
<1>4. \A t \in Sessions \ {s} : r \notin DOMAIN open'[t].writes
  BY <1>2 DEF OthersStay
<1>5. /\ BookRows' = BookRows /\ There(r)' = There(r)
      /\ Table(desk)' = Table(name) /\ Live(desk)' = Live(name)
  BY <1>2 DEF Table, LeaveRows, SalaryRows, BookRows, Live, There
<1>6. r \in DOMAIN rows
  BY <1>2 DEF Table
<1>7. Booking(s, r)'
  BY <1>2, <1>3, <1>4, <1>5 DEF Booked, Claims, Booking, Overlap
<1>8. BookingPending(s)'
  BY <1>2, <1>6, <1>7 DEF BookingPending
<1> QED BY <1>2, <1>8, BookingStaged

\* A request for leave holds the employee and saw no overlap (LeaveRequestService.create).
LEMMA LeaveCreateKeeps ==
    ASSUME BookingInv, NEW s \in Sessions, desk = "leave", LeaveCreate(s)
    PROVE  BookingInv'
<1>1. PICK e \in Live("employees"), body \in LeaveBodies :
          /\ Spare("leave") # {}
          /\ \A r \in Booked("leave", e) : ~Overlap(rows[r], body)
          /\ StageLocked(s, {e}, Insert("leave", Over([of |-> e, status |-> "PENDING"], body)))
  BY DEF LeaveCreate
<1> DEFINE cols == Over([of |-> e, status |-> "PENDING"], body)
           row == Over([there |-> TRUE], cols)
<1>2. /\ body = [from |-> body.from, until |-> body.until]
      /\ body.from \in Days /\ body.until \in Days
  BY DEF LeaveBodies
<1>3. row = [there |-> TRUE, of |-> e, status |-> "PENDING",
             from |-> body.from, until |-> body.until]
  BY <1>2, NewBooking
<1>4. row \in BookRows /\ row.of = e
  <2> HIDE DEF row
  <2>1. row \in LeaveRows /\ row.of = e
    BY <1>2, <1>3 DEF LeaveRows, LeaveStatuses, Live
  <2> QED BY <2>1 DEF BookRows
<1>5. \A q \in Booked("leave", e) : ~Overlap(rows[q], row)
  <2> HIDE DEF row
  <2> QED BY <1>1, <1>3 DEF Overlap
<1>6. Spare("leave") # {} /\ StageLocked(s, {e}, Insert("leave", cols))
  BY <1>1
<1> HIDE DEF cols
<1> QED BY <1>4, <1>5, <1>6, BookingStages

\* A salary that is added holds the employee and saw no overlap (add_salary).
LEMMA AddSalaryKeeps ==
    ASSUME BookingInv, NEW s \in Sessions, desk = "salaries", AddSalary(s)
    PROVE  BookingInv'
<1>1. PICK e \in Live("employees"), body \in SalaryBodies :
          /\ Spare("salaries") # {}
          /\ \A r \in Booked("salaries", e) : ~Overlap(rows[r], body)
          /\ StageLocked(s, {e}, Insert("salaries", Over([of |-> e, status |-> "PAID"], body)))
  BY DEF AddSalary
<1> DEFINE cols == Over([of |-> e, status |-> "PAID"], body)
           row == Over([there |-> TRUE], cols)
<1>2. /\ body = [from |-> body.from, until |-> body.until]
      /\ body.from \in Days /\ body.until \in Dates
  BY DEF SalaryBodies
<1>3. row = [there |-> TRUE, of |-> e, status |-> "PAID",
             from |-> body.from, until |-> body.until]
  BY <1>2, NewBooking
<1>4. row \in BookRows /\ row.of = e
  <2> HIDE DEF row
  <2>1. row \in SalaryRows /\ row.of = e
    BY <1>2, <1>3 DEF SalaryRows, Live
  <2> QED BY <2>1 DEF BookRows
<1>5. \A q \in Booked("salaries", e) : ~Overlap(rows[q], row)
  <2> HIDE DEF row
  <2> QED BY <1>1, <1>3 DEF Overlap
<1>6. Spare("salaries") # {} /\ StageLocked(s, {e}, Insert("salaries", cols))
  BY <1>1
<1> HIDE DEF cols
<1> QED BY <1>4, <1>5, <1>6, BookingStages

\* A decision changes a status only, of a leave that was pending (LeaveRequestService.update).
LEMMA LeaveDecideKeeps ==
    ASSUME BookingInv, NEW s \in Sessions, desk = "leave", LeaveDecide(s)
    PROVE  BookingInv'
<1>1. PICK r \in Live("leave"), status \in {"APPROVED", "REJECTED"} :
          /\ rows[r].status = "PENDING"
          /\ StageLocked(s, {r}, Set(r, [status |-> status]))
  BY DEF LeaveDecide
<1> DEFINE cols == [status |-> status]
<1>2. Shape /\ r \in DOMAIN rows /\ There(r)
  BY DEF BookingInv, Live, Table
<1>3. Differ(r, cols)
  BY <1>1, <1>2 DEF Differ
<1> DEFINE locked == {r}
<1>7. StageLocked(s, locked, Set(r, cols))
  BY <1>1
<1>4. /\ DOMAIN open'[s].writes = {r} /\ open'[s].writes[r] = cols
      /\ open'[s].locks = locked
      /\ Shape' /\ OthersStay(s) /\ UNCHANGED <<desk, rows, torn>>
  <2> HIDE DEF cols, locked
  <2> QED BY <1>2, <1>3, <1>7, StageSet
<1>5. Deciding(s, r)'
  BY <1>1, <1>4 DEF Deciding, Live, Table, There
<1>6. BookingPending(s)'
  BY <1>2, <1>4, <1>5 DEF BookingPending
<1> QED BY <1>2, <1>4, <1>6, BookingStaged

\* A salary that ends only becomes shorter (end_salary).
LEMMA EndSalaryKeeps ==
    ASSUME BookingInv, NEW s \in Sessions, desk = "salaries", EndSalary(s)
    PROVE  BookingInv'
<1>1. PICK r \in Live("salaries"), day \in Days :
          /\ rows[r].until = NoDay
          /\ StageLocked(s, {rows[r].of}, Set(r, [until |-> day]))
  BY DEF EndSalary
<1> DEFINE cols == [until |-> day]
<1>2. Shape /\ r \in DOMAIN rows /\ There(r)
  BY DEF BookingInv, Live, Table
<1>3. Differ(r, cols)
  BY <1>1, <1>2, RowStoreAssumption DEF RowStoreAssumption, NoDay, Differ
<1> DEFINE locked == {rows[r].of}
<1>7. StageLocked(s, locked, Set(r, cols))
  BY <1>1
<1>4. /\ DOMAIN open'[s].writes = {r} /\ open'[s].writes[r] = cols
      /\ open'[s].locks = locked
      /\ Shape' /\ OthersStay(s) /\ UNCHANGED <<desk, rows, torn>>
  <2> HIDE DEF cols, locked
  <2> QED BY <1>2, <1>3, <1>7, StageSet
<1>5. Ending(s, r)'
  BY <1>1, <1>4 DEF Ending, Live, Table, There
<1>6. BookingPending(s)'
  BY <1>2, <1>4, <1>5 DEF BookingPending
<1> QED BY <1>2, <1>4, <1>6, BookingStaged

\* What a decision and an end leave of the row.
LEMMA DecidedRow ==
    ASSUME NEW old \in LeaveRows, NEW status \in {"APPROVED", "REJECTED"}
    PROVE  /\ Written(old, [status |-> status]) \in LeaveRows
           /\ Written(old, [status |-> status]).of = old.of
           /\ Written(old, [status |-> status]).from = old.from
           /\ Written(old, [status |-> status]).until = old.until
<1> DEFINE new == Over([status |-> status], old)
<1>1. new = [old EXCEPT !.status = status]
  BY DEF Over, LeaveRows
<1>2. new \in LeaveRows /\ new.of = old.of /\ new.from = old.from
      /\ new.until = old.until /\ new.there = TRUE
  <2> HIDE DEF new
  <2> QED BY <1>1 DEF LeaveRows, LeaveStatuses
<1>3. Written(old, [status |-> status]) = new
  BY <1>2 DEF Written
<1> HIDE DEF new
<1> QED BY <1>2, <1>3

\* What the end of a salary leaves of its row.
LEMMA EndedRow ==
    ASSUME NEW old \in SalaryRows, NEW day \in Days
    PROVE  /\ Written(old, [until |-> day]) \in SalaryRows
           /\ Written(old, [until |-> day]).of = old.of
           /\ Written(old, [until |-> day]).from = old.from
           /\ Written(old, [until |-> day]).status = old.status
<1> DEFINE new == Over([until |-> day], old)
<1>1. new = [old EXCEPT !.until = day]
  BY DEF Over, SalaryRows
<1>2. new \in SalaryRows /\ new.of = old.of /\ new.from = old.from
      /\ new.status = old.status /\ new.there = TRUE
  <2> HIDE DEF new
  <2> QED BY <1>1 DEF SalaryRows, Dates
<1>3. Written(old, [until |-> day]) = new
  BY <1>2 DEF Written
<1> HIDE DEF new
<1> QED BY <1>2, <1>3

\* A booking that lands: it overlaps none, and nobody else was allowed to book
\* for that employee.
LEMMA BookingLands ==
    ASSUME BookingInv, NEW s \in Sessions, NEW r \in DOMAIN rows, Commit(s, TRUE),
           DOMAIN open[s].writes = {r}, Booking(s, r)
    PROVE  /\ rows'[r] = open[s].writes[r]
           /\ BookingTypeOK' /\ NeverOverlap'
<1> DEFINE row == open[s].writes[r]
<1>1. Shape /\ desk \in BookingDesks /\ DOMAIN rows = BookingIds
      /\ BookingTypeOK /\ NeverOverlap
  BY DEF BookingInv
<1>2. /\ DOMAIN rows' = DOMAIN rows /\ desk' = desk
      /\ rows'[r] = Written(rows[r], row)
      /\ \A q \in DOMAIN rows \ {r} : rows'[q] = rows[q]
  BY <1>1, CommitShape
<1>3. row \in BookRows /\ r \in Table(desk) /\ ~There(r)
  BY DEF Booking
<1> HIDE DEF row
<1>4. row = [c \in DOMAIN row |-> row[c]] /\ row.there = TRUE /\ "there" \in DOMAIN row
  BY <1>1, <1>3, BookRowsAre
<1>5. rows[r] = Absent
  BY <1>1, <1>3 DEF Shape, There
<1>6. rows'[r] = row
  BY <1>2, <1>4, <1>5, NewRowDirty
<1>7. /\ Table(desk)' = Table(desk) /\ Live(desk)' = Live(desk) \cup {r}
      /\ \A q \in Live(desk) : rows'[q] = rows[q]
  BY <1>2, <1>3, <1>4, <1>6 DEF Table, Live, There
<1>8. BookRows' = BookRows
  BY <1>2 DEF BookRows, LeaveRows, SalaryRows, Table
<1>9. BookingTypeOK'
  BY <1>1, <1>3, <1>6, <1>7, <1>8 DEF BookingTypeOK, BookRows, Live
<1>10. \A q \in Live(desk) : rows[q].of = row.of /\ rows[q].status # "REJECTED"
                                => ~Overlap(rows[q], row)
  BY DEF Booking, Claims, row
<1>11. ASSUME NEW p \in Live(desk)', NEW q \in Live(desk)', p # q, rows'[p].of = rows'[q].of,
              rows'[p].status # "REJECTED", rows'[q].status # "REJECTED"
       PROVE  ~Overlap(rows'[p], rows'[q])
  BY <1>6, <1>7, <1>10, <1>11, <1>1 DEF Overlap, NeverOverlap
<1>12. NeverOverlap'
  BY <1>2, <1>11 DEF NeverOverlap
<1> QED BY <1>6, <1>9, <1>12 DEF row

\* A decision that lands, on a leave that is still pending because it is locked.
LEMMA DecisionLands ==
    ASSUME BookingInv, NEW s \in Sessions, NEW r \in DOMAIN rows, Commit(s, TRUE),
           DOMAIN open[s].writes = {r}, Deciding(s, r)
    PROVE  /\ rows'[r] \in BookRows /\ Shrunk(rows'[r], rows[r])
           /\ BookingTypeOK' /\ NeverOverlap'
<1>1. Shape /\ desk = "leave" /\ r \in Live(desk) /\ rows[r].status = "PENDING"
  BY DEF BookingInv, Deciding
<1>2. PICK status \in {"APPROVED", "REJECTED"} : open[s].writes[r] = [status |-> status]
  BY DEF Deciding
<1>3. /\ DOMAIN rows' = DOMAIN rows /\ desk' = desk
      /\ rows'[r] = Written(rows[r], [status |-> status])
      /\ \A q \in DOMAIN rows \ {r} : rows'[q] = rows[q]
  BY <1>1, <1>2, CommitShape
<1>4. rows[r] \in LeaveRows
  BY <1>1 DEF BookingInv, BookingTypeOK, Live
<1>5. rows'[r] \in BookRows /\ Shrunk(rows'[r], rows[r])
  BY <1>1, <1>3, <1>4, DecidedRow DEF Shrunk, BookRows
<1> QED BY <1>1, <1>3, <1>5, ShrunkKeeps

\* An end that lands, on a salary that still runs on.
LEMMA EndLands ==
    ASSUME BookingInv, NEW s \in Sessions, NEW r \in DOMAIN rows, Commit(s, TRUE),
           DOMAIN open[s].writes = {r}, Ending(s, r)
    PROVE  /\ rows'[r] \in BookRows /\ Shrunk(rows'[r], rows[r])
           /\ BookingTypeOK' /\ NeverOverlap'
<1>1. Shape /\ desk = "salaries" /\ r \in Live(desk) /\ rows[r].until = NoDay
  BY DEF BookingInv, Ending
<1>2. PICK day \in Days : open[s].writes[r] = [until |-> day]
  BY DEF Ending
<1>3. /\ DOMAIN rows' = DOMAIN rows /\ desk' = desk
      /\ rows'[r] = Written(rows[r], [until |-> day])
      /\ \A q \in DOMAIN rows \ {r} : rows'[q] = rows[q]
  <2>1. /\ DOMAIN rows' = DOMAIN rows /\ desk' = desk
        /\ rows'[r] = Written(rows[r], open[s].writes[r])
        /\ \A q \in DOMAIN rows \ {r} : rows'[q] = rows[q]
    BY <1>1, CommitShape
  <2> QED BY <1>2, <2>1
<1>4. rows[r] \in SalaryRows
  BY <1>1 DEF BookingInv, BookingTypeOK, BookRows, Live
<1>5. rows'[r] \in BookRows /\ Shrunk(rows'[r], rows[r])
  BY <1>3, <1>4, EndedRow, <1>1 DEF Shrunk, BookRows
<1> QED BY <1>1, <1>3, <1>5, ShrunkKeeps

\* What the others have staged stands: the committing session holds none of
\* their locks.
LEMMA OthersStand ==
    ASSUME BookingInv, NEW s \in Sessions, NEW r \in DOMAIN rows, Commit(s, TRUE),
           DOMAIN open[s].writes = {r}, Booking(s, r) \/ Deciding(s, r) \/ Ending(s, r),
           NEW t \in Sessions \ {s}
    PROVE  BookingPending(t)'
<1>1. Shape /\ desk \in BookingDesks
  BY DEF BookingInv
<1>2. /\ DOMAIN rows' = DOMAIN rows /\ desk' = desk /\ Shape'
      /\ \A q \in DOMAIN rows \ {r} : rows'[q] = rows[q]
      /\ open'[t].writes = open[t].writes /\ open'[t].locks = open[t].locks
      /\ r \notin open[t].locks /\ DOMAIN open'[s].writes = {}
      /\ \A u \in Sessions \ {s} : DOMAIN open'[u].writes = DOMAIN open[u].writes
  BY <1>1, CommitShape DEF OthersStay
<1>3. /\ Table(desk)' = Table(desk) /\ BookRows' = BookRows
      /\ Table("leave")' = Table("leave") /\ Table("salaries")' = Table("salaries")
  BY <1>2 DEF Table, BookRows, LeaveRows, SalaryRows
<1>4. CASE DOMAIN open[t].writes = {}
  BY <1>2, <1>4 DEF BookingPending
<1>5. CASE DOMAIN open[t].writes # {}
  <2>1. PICK x \in DOMAIN rows : /\ DOMAIN open[t].writes = {x}
                                 /\ Booking(t, x) \/ Deciding(t, x) \/ Ending(t, x)
    BY <1>5 DEF BookingInv, BookingPending
  <2>2. CASE Booking(t, x)
    <3> DEFINE row == open[t].writes[x]
    <3>1. /\ row \in BookRows /\ row.of \in open[t].locks
          /\ x \in Table(desk) /\ ~There(x)
          /\ \A u \in Sessions \ {t} : x \notin DOMAIN open[u].writes
          /\ \A q \in Live(desk) : Claims(rows[q], row.of) => ~Overlap(rows[q], row)
      BY <2>2 DEF Booking
    <3>2. x # r /\ rows'[x] = rows[x]
      BY <1>2, <3>1
    <3>3. \A u \in Sessions \ {t} : x \notin DOMAIN open'[u].writes
      BY <1>2, <3>1
    <3>4. ASSUME NEW q \in Table(desk), rows'[q].there, rows'[q].of = row.of,
                 rows'[q].status # "REJECTED"
          PROVE  ~Overlap(rows'[q], row)
      <4>1. CASE q # r
        BY <1>2, <3>1, <3>4, <4>1 DEF Live, There, Table, Claims
      <4>2. CASE q = r /\ Booking(s, r)
        <5>1. open[s].writes[r].of \in open[s].locks /\ rows'[r] = open[s].writes[r]
          BY <4>2, BookingLands DEF Booking
        <5>2. open[s].writes[r].of \in open[t].locks
          BY <3>1, <3>4, <4>2, <5>1
        <5> QED BY <1>1, <5>1, <5>2 DEF Shape
      <4>3. CASE q = r /\ Deciding(s, r)
        <5>1. /\ Shrunk(rows'[r], rows[r]) /\ rows'[r] \in BookRows
              /\ r \in Live(desk) /\ rows[r].status = "PENDING"
          BY <4>3, DecisionLands DEF Deciding
        <5>2. ~Overlap(rows[r], row)
          BY <3>1, <3>4, <4>3, <5>1 DEF Claims, Shrunk
        <5>3. /\ rows[r] \in BookRows
          BY <5>1 DEF BookingInv, BookingTypeOK, BookRows, Live
        <5>4. /\ rows[r].from \in Nat /\ rows[r].until \in Nat
              /\ rows'[r].until \in Nat
          BY <1>1, <5>1, <5>3, BookRowsAre
        <5>5. row.from \in Nat /\ row.until \in Nat
          BY <1>1, <3>1, BookRowsAre
        <5> HIDE DEF row
        <5> QED BY <4>3, <5>1, <5>2, <5>4, <5>5 DEF Shrunk, Overlap, NoDay
      <4>4. CASE q = r /\ Ending(s, r)
        <5>1. Shrunk(rows'[r], rows[r]) /\ rows[r].of \in open[s].locks
          BY <4>4, EndLands DEF Ending
        <5>2. rows[r].of \in open[t].locks
          BY <3>1, <3>4, <4>4, <5>1 DEF Shrunk
        <5> QED BY <1>1, <5>1, <5>2 DEF Shape
      <4> QED BY <4>1, <4>2, <4>3, <4>4
    <3>5. Booking(t, x)'
      BY <1>2, <1>3, <3>1, <3>2, <3>4, <3>3 DEF There, Live, Claims, Booking, Overlap
    <3> QED BY <1>2, <2>1, <3>5 DEF BookingPending
  <2>3. CASE Deciding(t, x)
    BY <1>2, <2>3, <1>3, <2>1 DEF Deciding, Live, There, BookingPending
  <2>4. CASE Ending(t, x)
    BY <1>1, <2>4, <1>2, <1>3, <2>1 DEF Ending, Shape, Booking, Deciding, Live, There,
       Table, BookingPending
  <2> QED BY <2>1, <2>2, <2>3, <2>4
<1> QED BY <1>4, <1>5

\* Every step keeps the invariant: whoever looks and whoever lands.
LEMMA BookingSteps == BookingInv /\ [BookingNext]_storeVars => BookingInv'
<1> SUFFICES ASSUME BookingInv, [BookingNext]_storeVars PROVE BookingInv'
  OBVIOUS
<1>1. Shape
  BY DEF BookingInv
<1>2. ASSUME NEW s \in Sessions, BookingStep(s)
      PROVE  BookingInv'
  BY <1>2, LeaveCreateKeeps, LeaveDecideKeeps, AddSalaryKeeps, EndSalaryKeeps
  DEF BookingStep, LeaveStep, SalaryStep
<1>3. ASSUME NEW s \in Sessions, Commit(s, TRUE)
      PROVE  BookingInv'
  <2>1. /\ Shape' /\ OthersStay(s) /\ DOMAIN rows' = DOMAIN rows /\ desk' = desk
        /\ DOMAIN open'[s].writes = {}
        /\ \A q \in DOMAIN rows : q \notin DOMAIN open[s].writes => rows'[q] = rows[q]
    BY <1>1, <1>3, CommitShape
  <2>2. BookingPending(s)'
    BY <2>1 DEF BookingPending
  <2>3. CASE DOMAIN open[s].writes = {}
    BY <1>1, <2>1, <2>3, <2>2, BookingStaged DEF Shape
  <2>4. CASE DOMAIN open[s].writes # {}
    BY <2>4, <1>3, BookingLands, DecisionLands, EndLands, OthersStand, <2>1, <2>2 DEF
       BookingInv, BookingPending, BookingIds
  <2> QED BY <2>3, <2>4
<1>4. ASSUME NEW s \in Sessions, Abort(s)
      PROVE  BookingInv'
  BY <1>1, <1>4, AbortShape, BookingStaged DEF BookingPending
<1>5. CASE UNCHANGED storeVars
  <2>1. Shape'
    BY <1>1, <1>5, StutterShape
  <2>2. open' = open /\ rows' = rows /\ desk' = desk
    BY <1>5 DEF storeVars
  <2>3. BookingTypeOK' /\ NeverOverlap' /\ DOMAIN rows' = BookingIds'
    BY <2>2 DEF BookingInv, BookingTypeOK, NeverOverlap, Live, Table, There,
       LeaveRows, SalaryRows, BookingIds
  <2>4. ASSUME NEW s \in Sessions
        PROVE  BookingPending(s)'
    <3>1. Table("employees")' = Table("employees")
      BY <2>2 DEF Table
    <3>2. LeaveRows' = LeaveRows /\ SalaryRows' = SalaryRows
      BY <3>1 DEF LeaveRows, SalaryRows
    <3>3. BookRows' = BookRows
      BY <2>2, <3>2 DEF BookRows
    <3>4. BookingPending(s)
      BY DEF BookingInv
    <3> QED BY <2>2, <3>3, <3>4 DEF BookingPending, Booking, Deciding, Ending, Live, Table,
            There, Claims, Overlap
  <2> QED BY <2>1, <2>2, <2>3, <2>4 DEF BookingInv
<1> QED BY <1>2, <1>3, <1>4, <1>5 DEF BookingNext

-----------------------------------------------------------------------------
(* Logins. *)

\* A session marks tokens dead, adds one at most, and changes users as it likes.
\* A token it adds begins a chain of its own, or continues the chain of a live
\* token that it holds and marks dead.
Killed(s, x) == x \in Live("tokens") /\ open[s].writes[x] = [live |-> FALSE]

Added(s, x) ==
    /\ x \in Table("tokens") /\ ~There(x)
    /\ open[s].writes[x] \in TokenRows
    /\ \A t \in Sessions \ {s} : x \notin DOMAIN open[t].writes
    /\ \/ open[s].writes[x].chain = x[2]
       \/ \E old \in DOMAIN open[s].writes \cap open[s].locks :
             /\ Killed(s, old) /\ rows[old].live
             /\ rows[old].chain = open[s].writes[x].chain

TokenPending(s) ==
    /\ \A x \in DOMAIN open[s].writes : x \in Table("logins") \/ Killed(s, x) \/ Added(s, x)
    /\ \A x, y \in DOMAIN open[s].writes \cap Table("tokens") :
          ~There(x) /\ ~There(y) => x = y

\* Every chain is the number of a token that is there.
TokensNumbered ==
    \A t \in Live("tokens") : \E first \in Live("tokens") : first[2] = rows[t].chain

TokenInv ==
    /\ Shape
    /\ DOMAIN rows = AccountIds
    /\ \A t \in Live("tokens") : rows[t] \in TokenRows
    /\ TokensNumbered
    /\ OneTokenPerLogin
    /\ \A s \in Sessions : TokenPending(s)

\* The rows of a desk of accounts are told apart by their numbers.
LEMMA AccountNumbers ==
    ASSUME DOMAIN rows = AccountIds
    PROVE  /\ \A name : \A r \in Table(name) : r[2] \in Nat
           /\ \A name : \A r, q \in Table(name) : r[2] = q[2] => r = q
  BY DEF AccountIds, Table

\* The tables stay, and what a session has not staged of the tokens stays.
LEMMA TokenStaged ==
    ASSUME TokenInv, NEW s \in Sessions, Shape', OthersStay(s), UNCHANGED <<desk, rows>>,
           TokenPending(s)',
           \A t \in Sessions \ {s} :
               \A r \in DOMAIN open[t].writes : ~There(r) => r \notin DOMAIN open'[s].writes
    PROVE  TokenInv'
<1>1. /\ Table("tokens")' = Table("tokens") /\ Table("logins")' = Table("logins")
      /\ Live("tokens")' = Live("tokens") /\ AccountIds' = AccountIds
  BY DEF Table, Live, There, AccountIds
<1>2. TokenRows' = TokenRows
  BY <1>1 DEF TokenRows
<1>3. ASSUME NEW t \in Sessions, t # s
      PROVE  TokenPending(t)'
  BY <1>3, <1>1, <1>2 DEF OthersStay, TokenInv, Killed, Added, There, TokenPending
<1>4. TokensNumbered' /\ OneTokenPerLogin' /\ \A t \in Live("tokens")' : rows'[t] \in TokenRows'
  BY <1>1, <1>2 DEF TokenInv, TokensNumbered, OneTokenPerLogin
<1>5. \A t \in Sessions : TokenPending(t)'
  BY <1>3
<1> QED BY <1>1, <1>4, <1>5 DEF TokenInv

\* The row a sign-in or a refresh inserts.
LEMMA NewToken ==
    ASSUME NEW user, NEW chain
    PROVE  Over([there |-> TRUE], [user |-> user, chain |-> chain, live |-> TRUE])
             = [there |-> TRUE, user |-> user, chain |-> chain, live |-> TRUE]
<1> DEFINE row == Over([there |-> TRUE], [user |-> user, chain |-> chain, live |-> TRUE])
<1>1. DOMAIN row = {"there", "user", "chain", "live"}
  BY DEF Over
<1>2. /\ row = [c \in DOMAIN row |-> row[c]]
      /\ row.there = TRUE /\ row.user = user /\ row.chain = chain /\ row.live = TRUE
  BY DEF Over
<1> HIDE DEF row
<1>3. row = [there |-> TRUE, user |-> user, chain |-> chain, live |-> TRUE]
  BY <1>1, <1>2
<1> QED BY <1>3 DEF row

\* Signing in adds a token of a new chain.
LEMMA LoginKeeps ==
    ASSUME TokenInv, NEW s \in Sessions, Login(s)
    PROVE  TokenInv'
<1>1. PICK u, cols :
          /\ u \in Live("logins") /\ Spare("tokens") # {}
          /\ cols = [user |-> u, chain |-> NewRow("tokens")[2], live |-> TRUE]
          /\ StageLocked(s, {}, Insert("tokens", cols))
  BY DEF Login, Stage
<1>2. Shape /\ \A r \in Table("tokens") : r[2] \in Nat
  BY AccountNumbers DEF TokenInv
<1> DEFINE row == Over([there |-> TRUE], cols)
<1>3. PICK x :
      /\ x = NewRow("tokens")
      /\ x \in Table("tokens") /\ ~There(x)
      /\ \A t \in Sessions : x \notin DOMAIN open[t].writes
      /\ DOMAIN open'[s].writes = {x} /\ open'[s].writes[x] = row
      /\ Shape' /\ OthersStay(s) /\ UNCHANGED <<desk, rows, torn>>
  BY <1>1, <1>2, StageInsert
<1>4. row = [there |-> TRUE, user |-> u, chain |-> x[2], live |-> TRUE]
  BY <1>1, <1>3 DEF Over
<1>5. row \in TokenRows /\ row.chain = x[2]
  <2> HIDE DEF row
  <2> QED BY <1>1, <1>2, <1>3, <1>4 DEF TokenRows, Live
<1> HIDE DEF row
<1>6. Table("tokens")' = Table("tokens") /\ TokenRows' = TokenRows /\ There(x)' = There(x)
  BY <1>3 DEF Table, TokenRows, There
<1>7. Added(s, x)'
  BY <1>3, <1>5, <1>6 DEF OthersStay, Added
<1>8. TokenPending(s)'
  BY <1>3, <1>7 DEF TokenPending
<1> QED BY <1>3, <1>8, TokenStaged

\* Only the user is written, or the token the session signs out.
LEMMA OneWritten ==
    ASSUME TokenInv, NEW s \in Sessions, NEW locked, NEW r, NEW cols,
           StageLocked(s, locked, Set(r, cols)),
           \/ r \in Live("logins")
           \/ r \in Live("tokens") /\ rows[r].live /\ cols = [live |-> FALSE]
    PROVE  TokenInv'
<1>1. Shape /\ r \in DOMAIN rows /\ There(r)
  BY DEF TokenInv, Live, Table
<1>2. DOMAIN Set(r, cols) = {r} /\ Set(r, cols)[r] = cols
  BY DEF Set
<1>3. /\ Shape' /\ OthersStay(s) /\ UNCHANGED <<desk, rows, torn>>
      /\ DOMAIN open'[s].writes \subseteq {r}
      /\ \A x \in DOMAIN open'[s].writes : open'[s].writes[x] = Dirty(x, Set(r, cols)[x])
  BY <1>1, <1>2, StageShape
<1>4. Table("logins")' = Table("logins") /\ Live("tokens")' = Live("tokens")
  BY <1>3 DEF Table, Live, There
<1>5. ASSUME NEW x \in DOMAIN open'[s].writes
      PROVE  x \in Table("logins")' \/ Killed(s, x)'
  <2>1. CASE r \in Live("logins")
    BY <1>3, <1>4, <2>1 DEF Live
  <2>2. CASE r \in Live("tokens") /\ rows[r].live /\ cols = [live |-> FALSE]
    BY <2>2, <1>2, <1>3, <1>4, <1>5 DEF Dirty, Killed
  <2> QED BY <2>1, <2>2
<1>6. TokenPending(s)'
  BY <1>1, <1>3, <1>5 DEF TokenPending, There
<1> QED BY <1>1, <1>3, <1>6, TokenStaged

\* A reset marks every token it sees of the user.
LEMMA InvalidateKeeps ==
    ASSUME TokenInv, NEW s \in Sessions, InvalidateAccount(s)
    PROVE  TokenInv'
<1>1. PICK u \in Live("logins") :
          StageLocked(s, {u},
              Over(Set(u, [setup |-> TRUE]),
                   SetAll({t \in Live("tokens") : rows[t].user = u /\ rows[t].live},
                          [live |-> FALSE])))
  BY DEF InvalidateAccount
<1> DEFINE theirs == {t \in Live("tokens") : rows[t].user = u /\ rows[t].live}
           writes == Over(Set(u, [setup |-> TRUE]), SetAll(theirs, [live |-> FALSE]))
<1>2. /\ Shape /\ u \in DOMAIN rows /\ There(u) /\ theirs \subseteq DOMAIN rows
      /\ \A t \in theirs : There(t) /\ rows[t].live /\ t \in Live("tokens")
      /\ u \in Table("logins")
  BY DEF TokenInv, Live, Table
<1>3. /\ DOMAIN writes = {u} \cup theirs
      /\ \A t \in theirs \ {u} : writes[t] = [live |-> FALSE]
  BY DEF Over, Set, SetAll
<1>4. StageLocked(s, {u}, writes)
  BY <1>1
<1> HIDE DEF writes, theirs
<1>5. /\ Shape' /\ OthersStay(s) /\ UNCHANGED <<desk, rows, torn>>
      /\ DOMAIN open'[s].writes \subseteq {u} \cup theirs
      /\ \A x \in DOMAIN open'[s].writes : open'[s].writes[x] = Dirty(x, writes[x])
  BY <1>2, <1>3, <1>4, StageShape
<1>6. Table("logins")' = Table("logins") /\ Live("tokens")' = Live("tokens")
  BY <1>5 DEF Table, Live, There
<1>7. ASSUME NEW x \in DOMAIN open'[s].writes
      PROVE  /\ x \in Table("logins")' \/ Killed(s, x)'
             /\ There(x)
  <2>1. CASE x = u
    BY <1>2, <1>6, <2>1
  <2>2. CASE x \in theirs \ {u}
    <3>1. Dirty(x, [live |-> FALSE]) = [live |-> FALSE]
      BY <1>2, <2>2 DEF Dirty
    <3> QED BY <1>2, <1>3, <1>5, <1>6, <1>7, <2>2, <3>1 DEF Killed
  <2> QED BY <1>5, <1>7, <2>1, <2>2
<1>8. TokenPending(s)'
  BY <1>5, <1>7 DEF TokenPending, There
<1> QED BY <1>5, <1>7, <1>8, TokenStaged

\* A refresh trades the token it holds for the next of the chain.
LEMMA RefreshKeeps ==
    ASSUME TokenInv, NEW s \in Sessions, Refresh(s)
    PROVE  TokenInv'
<1>1. PICK t \in Live("tokens") :
          /\ rows[t].live
          /\ Spare("tokens") # {}
          /\ StageLocked(s, {t}, Over(Set(t, [live |-> FALSE]),
                                      Insert("tokens", [user |-> rows[t].user,
                                                        chain |-> rows[t].chain,
                                                        live |-> TRUE])))
  BY DEF Refresh
<1> DEFINE cols == [user |-> rows[t].user, chain |-> rows[t].chain, live |-> TRUE]
           writes == Over(Set(t, [live |-> FALSE]), Insert("tokens", cols))
<1>2. Shape /\ \A r \in Table("tokens") : r[2] \in Nat
  BY AccountNumbers DEF TokenInv
<1>3. PICK x : /\ x = NewRow("tokens") /\ x \in Table("tokens") /\ ~There(x)
               /\ \A u \in Sessions : x \notin DOMAIN open[u].writes
  BY <1>1, <1>2, NewRowIsSpare
<1>4. /\ t \in DOMAIN rows /\ There(t) /\ t \in Table("tokens") /\ t # x
      /\ x \in DOMAIN rows /\ rows[t] \in TokenRows /\ rows[x] = Absent
  BY <1>2, <1>3 DEF TokenInv, Shape, Live, Table, There
<1>5. PICK row : row = [there |-> TRUE, user |-> rows[t].user, chain |-> rows[t].chain,
                        live |-> TRUE]
  OBVIOUS
<1>6. Over([there |-> TRUE], cols) = row
  BY <1>5, NewToken
<1>7. Insert("tokens", cols) = Set(x, row)
  BY <1>3, <1>6 DEF Insert
<1>8. /\ DOMAIN writes = {t, x}
      /\ writes[t] = [live |-> FALSE] /\ writes[x] = row
  BY <1>4, <1>7 DEF Over, Set
<1> DEFINE locked == {t}
<1>9. StageLocked(s, locked, writes)
  BY <1>1
<1>10. row \in TokenRows /\ row.chain = rows[t].chain
  BY <1>4, <1>5 DEF TokenRows
<1>11. Dirty(x, row) = row /\ DOMAIN row # {}
  BY <1>4, <1>5, NewRowDirty
<1>12. Dirty(t, [live |-> FALSE]) = [live |-> FALSE]
  BY <1>1 DEF Dirty
<1> HIDE DEF cols, writes, locked
<1>13. /\ Shape' /\ OthersStay(s) /\ UNCHANGED <<desk, rows, torn>>
       /\ open'[s].locks = locked
       /\ DOMAIN open'[s].writes
            = {r \in DOMAIN writes : DOMAIN Dirty(r, writes[r]) # {}}
       /\ \A r \in DOMAIN open'[s].writes : open'[s].writes[r] = Dirty(r, writes[r])
  BY <1>4, <1>8, <1>2, <1>9, StageShape
<1>14. /\ DOMAIN open'[s].writes = {t, x}
       /\ open'[s].writes[t] = [live |-> FALSE]
       /\ open'[s].writes[x] = row
  <2>1. /\ Dirty(t, writes[t]) = [live |-> FALSE]
        /\ Dirty(x, writes[x]) = row
    BY <1>8, <1>11, <1>12
  <2>2. DOMAIN Dirty(t, writes[t]) # {} /\ DOMAIN Dirty(x, writes[x]) # {}
    BY <1>11, <2>1
  <2>3. DOMAIN open'[s].writes = {t, x}
    BY <1>8, <1>13, <2>2
  <2> QED BY <1>13, <2>1, <2>3
<1>15. /\ Table("tokens")' = Table("tokens") /\ Live("tokens")' = Live("tokens")
       /\ TokenRows' = TokenRows /\ There(x)' = There(x) /\ There(t)' = There(t)
  BY <1>13 DEF Table, Live, There, TokenRows
<1>16. Killed(s, t)'
  BY <1>1, <1>14, <1>15 DEF Killed
<1>17. Added(s, x)'
  BY <1>3, <1>10, <1>14, <1>15, <1>13, <1>1, <1>16 DEF OthersStay, locked, Added
<1>18. TokenPending(s)'
  BY <1>4, <1>14, <1>15, <1>16, <1>17 DEF TokenPending
<1>19. \A u \in Sessions \ {s} :
          \A r \in DOMAIN open[u].writes : ~There(r) => r \notin DOMAIN open'[s].writes
  BY <1>3, <1>4, <1>14
<1> QED BY <1>13, <1>18, <1>19, TokenStaged

\* What is left of a token that is marked dead.
LEMMA KilledToken ==
    ASSUME NEW old \in TokenRows
    PROVE  /\ Written(old, [live |-> FALSE]) \in TokenRows
           /\ Written(old, [live |-> FALSE]).there = TRUE
           /\ Written(old, [live |-> FALSE]).chain = old.chain
           /\ Written(old, [live |-> FALSE]).live = FALSE
<1> DEFINE dead == Over([live |-> FALSE], old)
<1>1. /\ dead = [c \in DOMAIN dead |-> dead[c]]
      /\ DOMAIN dead = {"live"} \cup DOMAIN old
      /\ dead.live = FALSE
      /\ \A c \in DOMAIN old \ {"live"} : dead[c] = old[c]
  BY DEF Over
<1>2. dead \in TokenRows /\ dead.there = TRUE /\ dead.chain = old.chain /\ dead.live = FALSE
  <2> HIDE DEF dead
  <2>1. /\ DOMAIN old = {"there", "user", "chain", "live"}
        /\ old.there = TRUE /\ old.user \in Table("logins") /\ old.chain \in Nat
    BY DEF TokenRows
  <2>2. /\ DOMAIN dead = {"there", "user", "chain", "live"}
        /\ dead.there = old.there /\ dead.user = old.user /\ dead.chain = old.chain
    BY <1>1, <2>1
  <2>3. dead = [there |-> TRUE, user |-> old.user, chain |-> old.chain, live |-> FALSE]
    BY <1>1, <2>1, <2>2
  <2> QED BY <2>1, <2>3 DEF TokenRows
<1>3. Written(old, [live |-> FALSE]) = dead
  BY <1>2 DEF Written
<1> HIDE DEF dead
<1> QED BY <1>2, <1>3

\* What lands of the tokens: those that are there keep their chain and are not
\* brought back, and one at most is new.
LEMMA TokensLand ==
    ASSUME TokenInv, NEW s \in Sessions, NEW accepted, Commit(s, accepted)
    PROVE  /\ Table("tokens")' = Table("tokens") /\ Table("logins")' = Table("logins")
           /\ \A x \in Live("tokens") :
                 /\ There(x)' /\ rows'[x] \in TokenRows /\ rows'[x].chain = rows[x].chain
                 /\ x \notin DOMAIN open[s].writes => rows'[x] = rows[x]
                 /\ rows'[x].live => rows[x].live /\ x \notin DOMAIN open[s].writes
           /\ \A x \in Table("tokens") :
                 ~There(x) => \/ ~There(x)' /\ x \notin DOMAIN open[s].writes
                              \/ /\ x \in DOMAIN open[s].writes /\ Added(s, x)
                                 /\ rows'[x] = open[s].writes[x] /\ There(x)'
<1>1. /\ Shape /\ TokenPending(s) /\ \A t \in Live("tokens") : rows[t] \in TokenRows
  BY DEF TokenInv
<1>2. /\ DOMAIN rows' = DOMAIN rows
      /\ \A r \in DOMAIN rows :
            /\ r \in DOMAIN open[s].writes
                 => rows'[r] = Written(rows[r], open[s].writes[r])
            /\ r \notin DOMAIN open[s].writes => rows'[r] = rows[r]
  BY <1>1, CommitShape
<1>3. Table("tokens")' = Table("tokens") /\ Table("logins")' = Table("logins")
  BY <1>2 DEF Table
<1>4. ASSUME NEW x \in Live("tokens")
      PROVE  /\ There(x)' /\ rows'[x] \in TokenRows /\ rows'[x].chain = rows[x].chain
             /\ x \notin DOMAIN open[s].writes => rows'[x] = rows[x]
             /\ rows'[x].live => rows[x].live /\ x \notin DOMAIN open[s].writes
  <2>1. rows[x] \in TokenRows /\ x \in DOMAIN rows /\ There(x) /\ x[1] = "tokens"
    BY <1>1 DEF Live, Table
  <2>2. CASE x \notin DOMAIN open[s].writes
    BY <1>2, <2>1, <2>2 DEF There
  <2>3. CASE x \in DOMAIN open[s].writes
    <3>1. open[s].writes[x] = [live |-> FALSE]
      BY <1>1, <2>1, <2>3 DEF TokenPending, Killed, Added, Table
    <3>2. rows'[x] = Written(rows[x], [live |-> FALSE])
      BY <1>2, <2>1, <2>3, <3>1
    <3> QED BY <2>1, <2>3, <3>2, KilledToken DEF There
  <2> QED BY <2>2, <2>3
<1>5. ASSUME NEW x \in Table("tokens"), ~There(x)
      PROVE  \/ ~There(x)' /\ x \notin DOMAIN open[s].writes
             \/ /\ x \in DOMAIN open[s].writes /\ Added(s, x)
                /\ rows'[x] = open[s].writes[x] /\ There(x)'
  <2>1. x \in DOMAIN rows /\ x[1] = "tokens" /\ rows[x] = Absent
    BY <1>1, <1>5 DEF Shape, Table, There
  <2>2. CASE x \notin DOMAIN open[s].writes
    BY <1>2, <1>5, <2>1, <2>2 DEF There
  <2>3. CASE x \in DOMAIN open[s].writes
    <3>1. Added(s, x)
      BY <1>1, <1>5, <2>1, <2>3 DEF TokenPending, Killed, Live, Table
    <3>2. open[s].writes[x] \in TokenRows
      BY <3>1 DEF Added
    <3> DEFINE row == open[s].writes[x]
    <3>3. row = [c \in DOMAIN row |-> row[c]] /\ row.there = TRUE /\ "there" \in DOMAIN row
      BY <3>2 DEF TokenRows
    <3>4. rows'[x] = Written(Absent, row)
      BY <1>2, <2>1, <2>3
    <3> HIDE DEF row
    <3>5. rows'[x] = row
      BY <2>1, <3>3, <3>4, NewRowDirty
    <3> QED BY <2>3, <3>1, <3>3, <3>5 DEF row, There
  <2> QED BY <2>2, <2>3
<1> QED BY <1>3, <1>4, <1>5

\* A commit keeps the invariant: who continues a chain holds the token it kills.
LEMMA TokenCommitKeeps ==
    ASSUME TokenInv, NEW s \in Sessions, NEW accepted, Commit(s, accepted)
    PROVE  TokenInv'
<1> DEFINE W == DOMAIN open[s].writes
<1>1. /\ Shape /\ TokenPending(s) /\ DOMAIN rows = AccountIds
      /\ TokensNumbered /\ OneTokenPerLogin
      /\ \A t \in Live("tokens") : rows[t] \in TokenRows
  BY DEF TokenInv
<1>2. /\ Shape' /\ OthersStay(s) /\ DOMAIN rows' = DOMAIN rows /\ desk' = desk
      /\ DOMAIN open'[s].writes = {}
      /\ \A t \in Sessions \ {s} : W \cap open[t].locks = {}
  BY <1>1, CommitShape
<1>3. /\ Table("tokens")' = Table("tokens") /\ Table("logins")' = Table("logins")
      /\ \A x \in Live("tokens") :
            /\ There(x)' /\ rows'[x] \in TokenRows /\ rows'[x].chain = rows[x].chain
            /\ x \notin W => rows'[x] = rows[x]
            /\ rows'[x].live => rows[x].live /\ x \notin W
      /\ \A x \in Table("tokens") :
            ~There(x) => \/ ~There(x)' /\ x \notin W
                         \/ x \in W /\ Added(s, x) /\ rows'[x] = open[s].writes[x] /\ There(x)'
  BY TokensLand
<1> HIDE DEF W
<1>4. TokenRows' = TokenRows /\ AccountIds' = AccountIds
  BY <1>2, <1>3 DEF TokenRows, AccountIds
<1>5. Live("tokens") \subseteq Live("tokens")' /\ Live("tokens")' \subseteq Table("tokens")
  BY <1>3 DEF Live
<1>6. ASSUME NEW x \in Live("tokens")', x \notin Live("tokens")
      PROVE  /\ x \in Table("tokens") /\ ~There(x)
             /\ x \in W /\ Added(s, x) /\ rows'[x] = open[s].writes[x]
  BY <1>3, <1>5, <1>6 DEF Live
<1>7. \A x \in Live("tokens")' : rows'[x] \in TokenRows
  BY <1>3, <1>6 DEF Added
<1>8. ASSUME NEW x \in Live("tokens")', x \notin Live("tokens"), rows'[x].chain # x[2]
      PROVE  \E old \in Live("tokens") : /\ old \in W /\ rows[old].live
                                         /\ rows[old].chain = rows'[x].chain
  BY <1>6, <1>8 DEF Added, Killed, W
<1>9. ASSUME NEW x \in Live("tokens")'
      PROVE  \E first \in Live("tokens")' : first[2] = rows'[x].chain
  BY <1>1, <1>3, <1>5, <1>8 DEF TokensNumbered
<1>10. ASSUME NEW x \in Live("tokens")', NEW y \in Live("tokens"), x \notin Live("tokens"),
              rows'[y].live, rows'[x].chain = rows'[y].chain
       PROVE  FALSE
  BY <1>3, <1>10, <1>1, <1>6, AccountNumbers, <1>8 DEF TokensNumbered, Live,
     OneTokenPerLogin
<1>11. OneTokenPerLogin'
  BY <1>3, <1>1, <1>10, <1>6 DEF OneTokenPerLogin, TokenPending, W
<1>12. ASSUME NEW t \in Sessions, t # s
       PROVE  TokenPending(t)'
  BY <1>2, <1>12, <1>5, <1>3, <1>4 DEF OthersStay, TokenInv, Killed, Added, W, TokenPending,
     Live
<1>13. TokenPending(s)'
  BY <1>2 DEF TokenPending
<1>14. TokensNumbered'
  BY <1>9 DEF TokensNumbered
<1>15. /\ DOMAIN rows' = AccountIds'
       /\ \A t \in Live("tokens")' : rows'[t] \in TokenRows'
       /\ \A t \in Sessions : TokenPending(t)'
  BY <1>1, <1>2, <1>4, <1>7, <1>12, <1>13
<1> QED BY <1>2, <1>11, <1>14, <1>15 DEF TokenInv

\* At the other desks there are no tokens.
AccountInv ==
    /\ desk = "logins" => TokenInv
    /\ desk # "logins" => Table("tokens") = {}

\* At the beginning no request is under way and no login has two live tokens.
LEMMA AccountStarts == AccountInit => AccountInv
  BY InitShape DEF AccountInit, There, Live, Table, Absent, TokensNumbered,
     OneTokenPerLogin, TokenPending, TokenInv, AccountInv, AccountTables, AccountIds

\* A handler of another desk changes no row.
LEMMA OtherAccountSteps ==
    ASSUME NEW s \in Sessions, AccountStep(s) \/ PortalStep(s)
    PROVE  UNCHANGED <<desk, rows>>
<1>1. CASE EmployeeCreate(s)
  BY <1>1 DEF EmployeeCreate, StageLocked
<1>2. CASE EmployeeUpdate(s)
  BY <1>2 DEF EmployeeUpdate, Stage, StageLocked
<1>3. CASE LinkExisting(s)
  BY <1>3 DEF LinkExisting, StageLocked
<1>4. CASE ChangeEmail(s)
  <2>1. \E locked, writes : StageLocked(s, locked, writes)
    BY <1>4 DEF ChangeEmail
  <2> QED BY <2>1 DEF StageLocked
<1>5. CASE UserCreate(s)
  BY <1>5 DEF UserCreate, Stage, StageLocked
<1>6. CASE UserActivate(s)
  BY <1>6 DEF UserActivate, Stage, StageLocked
<1>7. CASE PortalCreate(s)
  BY <1>7 DEF PortalCreate, Stage, StageLocked
<1>8. CASE PortalUpdate(s)
  BY <1>8 DEF PortalUpdate, Stage, StageLocked
<1> QED BY <1>1, <1>2, <1>3, <1>4, <1>5, <1>6, <1>7, <1>8 DEF AccountStep, PortalStep

\* Each handler of a login keeps what the commit of a token needs (login, refresh, logout).
LEMMA LoginStepKeeps ==
    ASSUME TokenInv, NEW s \in Sessions, LoginStep(s)
    PROVE  TokenInv'
  BY OneWritten, LoginKeeps, RefreshKeeps, InvalidateKeeps DEF Logout, CompleteReset,
     Deactivate, Stage, LoginStep

\* So does every step of the desks of accounts.
LEMMA AccountSteps == AccountInv /\ [AccountsNext]_storeVars => AccountInv'
<1> SUFFICES ASSUME AccountInv, [AccountsNext]_storeVars PROVE AccountInv'
  OBVIOUS
<1>1. CASE desk = "logins"
  <2>1. TokenInv /\ Shape
    BY <1>1 DEF AccountInv, TokenInv
  <2>2. ASSUME NEW s \in Sessions, LoginStep(s)
        PROVE  TokenInv'
    BY <2>1, <2>2, LoginStepKeeps
  <2>3. ASSUME NEW s \in Sessions, AccountsCommit(s)
        PROVE  TokenInv'
    BY <2>1, <2>3, TokenCommitKeeps DEF AccountsCommit
  <2>4. ASSUME NEW s \in Sessions, Abort(s)
        PROVE  TokenInv'
    BY <2>1, <2>4, AbortShape, TokenStaged DEF TokenPending
  <2>5. ASSUME UNCHANGED storeVars
        PROVE  TokenInv'
    <3>1. Shape' /\ open' = open /\ rows' = rows /\ desk' = desk
      BY <2>1, <2>5, StutterShape DEF storeVars
    <3>2. Table("tokens")' = Table("tokens") /\ Table("logins")' = Table("logins")
          /\ Live("tokens")' = Live("tokens") /\ AccountIds' = AccountIds
      BY <3>1 DEF Table, Live, There, AccountIds
    <3>3. TokenRows' = TokenRows
      BY <3>2 DEF TokenRows
    <3>4. TokensNumbered' /\ OneTokenPerLogin'
      BY <2>1, <3>1, <3>2 DEF TokenInv, TokensNumbered, OneTokenPerLogin
    <3>5. ASSUME NEW s \in Sessions PROVE TokenPending(s)'
      BY <2>1, <3>1, <3>2, <3>3 DEF TokenInv, Killed, There, Added, TokenPending
    <3>6. \A t \in Live("tokens")' : rows'[t] \in TokenRows'
      BY <2>1, <3>1, <3>2, <3>3 DEF TokenInv
    <3>7. DOMAIN rows' = AccountIds'
      BY <2>1, <3>1, <3>2 DEF TokenInv
    <3> QED BY <3>1, <3>4, <3>5, <3>6, <3>7 DEF TokenInv
  <2>6. TokenInv'
    BY <1>1, <2>2, <2>3, <2>4, <2>5 DEF AccountsNext, AccountsStep
  <2>7. desk' = desk
    <3>1. ASSUME NEW s \in Sessions, LoginStep(s)
          PROVE  desk' = desk
      BY <3>1, Zenon DEF LoginStep, Login, Refresh, Logout, InvalidateAccount, CompleteReset,
         Deactivate, Stage, StageLocked
    <3>2. ASSUME NEW s \in Sessions, AccountsCommit(s) \/ Abort(s)
          PROVE  desk' = desk
      BY <3>2 DEF AccountsCommit, Commit, Abort
    <3> QED BY <1>1, <3>1, <3>2 DEF AccountsNext, AccountsStep, storeVars
  <2> QED BY <1>1, <2>6, <2>7 DEF AccountInv
<1>2. CASE desk # "logins"
  BY <1>2, OtherAccountSteps DEF AccountsStep, AccountStep, AccountsCommit, Commit, After,
     Abort, storeVars, AccountsNext, AccountInv, Table
<1> QED BY <1>1, <1>2

-----------------------------------------------------------------------------
(* Workbooks. *)

\* Nobody has edited a file out of the workbook.
Together == \A x \in Live("versions") : rows[x].member

\* A session that saves holds the workbook, and its base is still the latest version.
SavesVersion(s, r) ==
    /\ Inserts(s, r) /\ open[s].locks = BookLock
    /\ open[s].writes[r].saves # "upload" =>
           BookLock # {} /\ (Together => open[s].writes[r].base = LatestVersion(rows))

\* One that deletes holds it too; one that edits tags takes a file out.
MarksVersion(s, r) ==
    /\ There(r)
    /\ \/ open[s].writes[r] = [active |-> FALSE] /\ open[s].locks = BookLock
       \/ open[s].writes[r] = [member |-> FALSE]

\* One that changes a shared copy holds it, goes one revision up and keeps the copy.
SharesOn(s, r) ==
    \/ Inserts(s, r) /\ "workbook" \in DOMAIN open[s].writes[r]
    \/ /\ There(r) /\ r \in open[s].locks /\ "there" \notin DOMAIN open[s].writes[r]
       /\ "workbook" \in DOMAIN open[s].writes[r] =>
              /\ Written(rows[r], open[s].writes[r]).revision = rows[r].revision + 1
              /\ Written(rows[r], open[s].writes[r]).history = Earlier(rows[r])

Filing(s) ==
    \A r \in DOMAIN open[s].writes :
        IF desk = "versions" THEN SavesVersion(s, r) \/ MarksVersion(s, r) ELSE SharesOn(s, r)

BookIds == {desk} \X (1..(IF desk = "versions" THEN 3 ELSE 1))

BooksInv ==
    /\ Shape /\ Told(rows)
    /\ desk \in WorkbookDesks /\ DOMAIN rows = BookIds
    /\ desk = "shares" => \A r \in Live("shares") : "workbook" \in DOMAIN rows[r]
    /\ \A s \in Sessions : Filing(s)

\* A desk of workbooks has one table, whose rows are numbered.
LEMMA BookNumbers ==
    ASSUME DOMAIN rows = BookIds
    PROVE  /\ \A name : \A r \in Table(name) : r[2] \in Nat
           /\ \A r \in DOMAIN rows : r \in Table(desk)
  BY DEF BookIds, Table

\* At the beginning no version is there and no request is under way.
LEMMA BooksStart == WorkbookInit => BooksInv
  BY InitShape DEF WorkbookInit, BookIds, There, Absent, BooksInv, Told, Filing, Live, Table

\* A row over which columns are laid that do not say that it is gone.
LEMMA StillThere ==
    ASSUME NEW old, "there" \in DOMAIN old, old.there,
           NEW cols, "there" \notin DOMAIN cols
    PROVE  /\ Written(old, cols).there
           /\ DOMAIN Written(old, cols) = DOMAIN old \cup DOMAIN cols
           /\ \A c \in DOMAIN cols : Written(old, cols)[c] = cols[c]
           /\ \A c \in DOMAIN old \ DOMAIN cols : Written(old, cols)[c] = old[c]
  BY DEF Over, Written

\* Columns none of which need sending leave the row as it is.
LEMMA DirtyWritten ==
    ASSUME NEW r, "there" \in DOMAIN rows[r], There(r),
           NEW cols, "there" \notin DOMAIN cols
    PROVE  /\ "there" \notin DOMAIN Dirty(r, cols) /\ DOMAIN Dirty(r, cols) \subseteq DOMAIN cols
           /\ \A c \in DOMAIN cols : Written(rows[r], Dirty(r, cols))[c] = cols[c]
<1>1. PICK old, dirty : old = rows[r] /\ dirty = Dirty(r, cols)
  OBVIOUS
<1>2. /\ DOMAIN dirty = {c \in DOMAIN cols : c \notin DOMAIN old \/ old[c] # cols[c]}
      /\ \A c \in DOMAIN dirty : dirty[c] = cols[c]
  BY <1>1 DEF Dirty
<1>3. "there" \in DOMAIN old /\ old.there /\ "there" \notin DOMAIN dirty
  BY <1>1, <1>2 DEF There
<1>4. /\ \A c \in DOMAIN dirty : Written(old, dirty)[c] = dirty[c]
      /\ \A c \in DOMAIN old \ DOMAIN dirty : Written(old, dirty)[c] = old[c]
  BY ONLY <1>3, StillThere
<1> QED BY <1>1, <1>2, <1>3, <1>4

\* A save or an upload inserts a version that nobody has taken, under the lock of the
\* workbook (save_workbook, documents.upload).
LEMMA NewVersion ==
    ASSUME BooksInv, desk = "versions", NEW s \in Sessions, NEW who, NEW base, NEW saves,
           Spare("versions") # {}, StageLocked(s, BookLock, Version(who, base, saves)),
           saves # "upload" => BookLock # {} /\ base = LatestVersion(rows)
    PROVE  /\ Shape' /\ OthersStay(s) /\ UNCHANGED <<desk, rows, torn>> /\ TakesSpare(s)
           /\ Filing(s)'
<1>1. Shape /\ \A r \in Table("versions") : r[2] \in Nat
  BY BookNumbers DEF BooksInv
<1>2. PICK cols, locked :
          /\ locked = BookLock
          /\ cols = [owner |-> who, base |-> base, saves |-> saves, active |-> TRUE,
                     member |-> TRUE]
          /\ StageLocked(s, locked, Insert("versions", cols))
  BY DEF Version
<1>3. PICK r : TakesRow(s, "versions", r)
  BY <1>1, NewRowTaken
<1>4. /\ Shape' /\ OthersStay(s) /\ UNCHANGED <<desk, rows, torn>> /\ TakesSpare(s)
      /\ open'[s].locks = locked /\ DOMAIN open'[s].writes = {r} /\ Inserts(s, r)'
      /\ open'[s].writes[r] = Over([there |-> TRUE], cols)
  BY <1>1, <1>2, <1>3, StageNew
<1>5. open'[s].writes[r].saves = saves /\ open'[s].writes[r].base = base
  BY <1>2, <1>4 DEF Over
<1>6. SavesVersion(s, r)'
  BY <1>2, <1>4, <1>5 DEF SavesVersion, LatestVersion, Members, Table, BookLock
<1>7. Filing(s)'
  BY <1>4, <1>6 DEF Filing
<1> QED BY <1>4, <1>7

\* What a handler of versions stages.
LEMMA VersionStages ==
    ASSUME BooksInv, desk = "versions", NEW s \in Sessions, VersionStep(s)
    PROVE  /\ Shape' /\ OthersStay(s) /\ UNCHANGED <<desk, rows, torn>> /\ TakesSpare(s)
           /\ Filing(s)'
<1>1. Shape
  BY DEF BooksInv
<1>2. CASE SaveWorkbook(s)
  <2>1. PICK who \in Users, base \in Bases, op \in Operations :
            /\ Spare("versions") # {} /\ SeenLatest(base)
            /\ StageLocked(s, BookLock, Version(who, base, op))
    BY <1>2 DEF SaveWorkbook
  <2>2. BookLock # {} /\ base = LatestVersion(rows)
    BY <2>1 DEF SeenLatest, Operations, BookLock
  <2> QED BY <2>1, <2>2, NewVersion
<1>3. CASE UploadWorkbook(s)
  BY <1>3, NewVersion DEF UploadWorkbook
<1>4. ASSUME NEW locked, NEW writes, NEW cols, StageLocked(s, locked, writes),
             \A r \in DOMAIN writes : r \in DOMAIN rows /\ There(r) /\ writes[r] = cols,
             \/ cols = [active |-> FALSE] /\ locked = BookLock
             \/ cols = [member |-> FALSE]
      PROVE  /\ Shape' /\ OthersStay(s) /\ UNCHANGED <<desk, rows, torn>> /\ TakesSpare(s)
             /\ Filing(s)'
  <2>1. /\ Shape' /\ OthersStay(s) /\ UNCHANGED <<desk, rows, torn>> /\ TakesSpare(s)
        /\ open'[s].locks = locked /\ DOMAIN open'[s].writes \subseteq DOMAIN writes
    BY <1>1, <1>4, StageThere
  <2>2. /\ DOMAIN open'[s].writes
             = {r \in DOMAIN writes : DOMAIN Dirty(r, writes[r]) # {}}
        /\ \A r \in DOMAIN open'[s].writes : open'[s].writes[r] = Dirty(r, writes[r])
    BY <1>4, <1>1, StageShape
  <2>3. ASSUME NEW r \in DOMAIN open'[s].writes
        PROVE  open'[s].writes[r] = cols
    BY <1>4, <2>2 DEF Dirty
  <2>4. \A r \in DOMAIN open'[s].writes : MarksVersion(s, r)'
    BY <1>4, <2>1, <2>3 DEF MarksVersion, There, BookLock
  <2>5. Filing(s)'
    BY <2>1, <2>4 DEF Filing
  <2> QED BY <2>1, <2>5
<1>5. CASE DeleteWorkbook(s)
  <2>1. PICK all, locked, writes, cols :
            /\ all = {r \in Members(rows) : rows[r].active} /\ cols = [active |-> FALSE]
            /\ locked = BookLock /\ writes = SetAll(all, cols)
            /\ StageLocked(s, locked, writes)
    BY <1>5 DEF DeleteWorkbook
  <2>2. \A r \in DOMAIN writes : r \in DOMAIN rows /\ There(r) /\ writes[r] = cols
    BY <2>1 DEF SetAll, Members, Table, There
  <2> QED BY <1>4, <2>1, <2>2
<1>6. CASE EditTags(s)
  BY <1>6, <1>4 DEF EditTags, Stage, Set, Live, Table
<1> QED BY <1>2, <1>3, <1>5, <1>6 DEF VersionStep

\* What a handler of shared copies stages (workbook_shares.update, under the lock on
\* the copy).
LEMMA ShareStages ==
    ASSUME BooksInv, desk = "shares", NEW s \in Sessions, ShareStep(s)
    PROVE  /\ Shape' /\ OthersStay(s) /\ UNCHANGED <<desk, rows, torn>> /\ TakesSpare(s)
           /\ Filing(s)'
<1>1. Shape /\ Told(rows) /\ \A r \in Table("shares") : r[2] \in Nat
  BY BookNumbers DEF BooksInv
<1>2. CASE CreateShare(s)
  <2>1. PICK locked, cols :
            /\ Spare("shares") # {} /\ "workbook" \in DOMAIN cols
            /\ StageLocked(s, locked, Insert("shares", cols))
    BY <1>2 DEF CreateShare, Stage
  <2>2. PICK r : TakesRow(s, "shares", r)
    BY <1>1, <2>1, NewRowTaken
  <2>3. /\ Shape' /\ OthersStay(s) /\ UNCHANGED <<desk, rows, torn>> /\ TakesSpare(s)
        /\ DOMAIN open'[s].writes = {r} /\ Inserts(s, r)'
        /\ open'[s].writes[r] = Over([there |-> TRUE], cols)
    BY <1>1, <2>1, <2>2, StageNew
  <2>4. SharesOn(s, r)'
    BY <2>1, <2>3 DEF SharesOn, Over
  <2>5. Filing(s)'
    BY <2>3, <2>4 DEF Filing
  <2> QED BY <2>3, <2>5
<1>3. ASSUME NEW r \in Live("shares"), NEW cols, "there" \notin DOMAIN cols,
             StageLocked(s, {r}, Set(r, cols)),
             "workbook" \in DOMAIN cols =>
                 /\ {"revision", "history"} \subseteq DOMAIN cols
                 /\ cols.revision = rows[r].revision + 1 /\ cols.history = Earlier(rows[r])
      PROVE  /\ Shape' /\ OthersStay(s) /\ UNCHANGED <<desk, rows, torn>> /\ TakesSpare(s)
             /\ Filing(s)'
  BY <1>3, <1>1, StageThere, StageShape, DirtyWritten DEF Set, Live, Table, Told, SharesOn,
     There, Filing
<1>4. CASE UpdateShare(s)
  BY <1>4, <1>3 DEF UpdateShare
<1>5. CASE RevokeShare(s)
  BY <1>5, <1>3 DEF RevokeShare
<1> QED BY <1>2, <1>4, <1>5 DEF ShareStep

\* What a session has staged stands as long as no version is added, and the workbook
\* left together, while it holds the lock.
LEMMA FilingKept ==
    ASSUME NEW t \in Sessions, Kept(t), desk' = desk, Filing(t),
           DOMAIN open[t].writes \subseteq DOMAIN rows,
           \A r \in DOMAIN rows : There(r) => There(r)',
           desk = "versions" /\ BookLock # {} /\ open[t].locks = BookLock /\ Together'
               => rows' = rows
    PROVE  Filing(t)'
<1>1. /\ DOMAIN rows' = DOMAIN rows
      /\ open'[t].writes = open[t].writes /\ open'[t].locks = open[t].locks
  BY DEF Kept
<1>2. ASSUME NEW r \in DOMAIN open[t].writes, Inserts(t, r)
      PROVE  Inserts(t, r)'
  BY <1>2, <1>1 DEF Inserts, Kept
<1>3. ASSUME desk = "versions", NEW r \in DOMAIN open[t].writes, SavesVersion(t, r)
      PROVE  SavesVersion(t, r)'
  BY <1>1, <1>2, <1>3 DEF SavesVersion, Together, LatestVersion, Members, Table, Live,
     There, BookLock
<1>4. ASSUME NEW r \in DOMAIN open[t].writes, MarksVersion(t, r)
      PROVE  MarksVersion(t, r)'
  BY <1>4, <1>1 DEF MarksVersion, BookLock
<1>5. ASSUME NEW r \in DOMAIN open[t].writes, SharesOn(t, r)
      PROVE  SharesOn(t, r)'
  BY <1>1, <1>2, <1>5 DEF SharesOn, Inserts, Fresh, Kept, There
<1> QED BY <1>1, <1>3, <1>4, <1>5 DEF Filing

\* A row of these desks that is written is inserted, or there and stays.
LEMMA FilingWrites ==
    ASSUME BooksInv, NEW s \in Sessions, NEW accepted, Commit(s, accepted),
           NEW r \in DOMAIN open[s].writes
    PROVE  \/ /\ Inserts(s, r) /\ rows'[r] = open[s].writes[r] /\ ~There(r)
              /\ desk = "versions" => SavesVersion(s, r)
              /\ desk = "shares" => "workbook" \in DOMAIN open[s].writes[r]
           \/ /\ There(r) /\ rows'[r].there
              /\ rows'[r] = Written(rows[r], open[s].writes[r])
              /\ DOMAIN rows'[r] = DOMAIN rows[r] \cup DOMAIN open[s].writes[r]
              /\ \A c \in DOMAIN open[s].writes[r] : rows'[r][c] = open[s].writes[r][c]
              /\ \A c \in DOMAIN rows[r] \ DOMAIN open[s].writes[r] : rows'[r][c] = rows[r][c]
              /\ desk = "versions" => MarksVersion(s, r)
              /\ desk = "shares" => SharesOn(s, r) /\ ~Inserts(s, r)
<1>1. /\ Shape /\ Told(rows) /\ Filing(s) /\ r \in DOMAIN rows /\ desk \in {"versions", "shares"}
      /\ rows'[r] = Written(rows[r], open[s].writes[r])
  BY CommitShape DEF BooksInv, WorkbookDesks, Shape
<1>2. CASE Inserts(s, r)
  BY <1>1, <1>2, InsertLands DEF Inserts, Fresh, Filing, MarksVersion, SharesOn
<1>3. CASE ~Inserts(s, r)
  <2>1. There(r) /\ "there" \notin DOMAIN open[s].writes[r]
    BY <1>1, <1>3 DEF Filing, SavesVersion, MarksVersion, SharesOn
  <2>2. PICK old, cols : old = rows[r] /\ cols = open[s].writes[r]
    OBVIOUS
  <2>3. "there" \in DOMAIN old /\ old.there /\ "there" \notin DOMAIN cols
    BY <1>1, <2>1, <2>2 DEF Told, There
  <2>4. /\ Written(old, cols).there
        /\ DOMAIN Written(old, cols) = DOMAIN old \cup DOMAIN cols
        /\ \A c \in DOMAIN cols : Written(old, cols)[c] = cols[c]
        /\ \A c \in DOMAIN old \ DOMAIN cols : Written(old, cols)[c] = old[c]
    BY ONLY <2>3, StillThere
  <2>5. /\ desk = "versions" => MarksVersion(s, r)
        /\ desk = "shares" => SharesOn(s, r) /\ ~Inserts(s, r)
    BY <1>1, <1>3 DEF Filing, SavesVersion
  <2> QED BY <1>1, <2>1, <2>2, <2>4, <2>5
<1> QED BY <1>2, <1>3

\* NothingOverwritten, of a step.
NoneOverwritten ==
    /\ \A r \in Table("versions") :
           /\ ~rows[r].there /\ rows'[r].there /\ rows'[r].saves # "upload"
           /\ \A x \in Live("versions") : rows[x].member
           => rows'[r].base = LatestVersion(rows)
    /\ \A r \in Live("shares") :
           rows'[r].workbook # rows[r].workbook =>
               /\ rows'[r].revision = rows[r].revision + 1
               /\ rows'[r].history = Earlier(rows[r])

\* A commit saves on the version that was seen, and the others still hold theirs.
LEMMA BooksCommit ==
    ASSUME BooksInv, NEW s \in Sessions, NEW accepted, Commit(s, accepted)
    PROVE  BooksInv' /\ NoneOverwritten
<1>1. /\ Shape /\ Told(rows) /\ desk \in {"versions", "shares"}
      /\ \A r \in DOMAIN rows : r \in Table(desk)
  BY BookNumbers DEF BooksInv, WorkbookDesks
<1>2. /\ Shape' /\ OthersStay(s) /\ DOMAIN rows' = DOMAIN rows /\ desk' = desk
      /\ \A r \in DOMAIN rows : r \notin DOMAIN open[s].writes => rows'[r] = rows[r]
      /\ DOMAIN open'[s].writes = {}
  BY <1>1, CommitShape
<1>3. \A r \in DOMAIN rows : There(r) => There(r)'
  BY <1>2, FilingWrites DEF There
<1>4. Told(rows)'
  <2>1. ASSUME NEW r \in DOMAIN rows, r \in DOMAIN open[s].writes
        PROVE  "there" \in DOMAIN rows'[r]
    <3>1. Inserts(s, r) => "there" \in DOMAIN open[s].writes[r]
      BY DEF Inserts
    <3> QED BY <1>1, <2>1, <3>1, FilingWrites DEF Told
  <2> QED BY <1>1, <1>2, <2>1 DEF Told
<1>5. ASSUME desk = "shares", NEW r \in Live("shares")'
      PROVE  "workbook" \in DOMAIN rows'[r]
  BY <1>2, <1>5, FilingWrites DEF Live, Table, There, BooksInv
<1>6. ASSUME NEW t \in Sessions \ {s}
      PROVE  Filing(t)'
  <2>1. Kept(t) /\ Filing(t) /\ DOMAIN open[t].writes \subseteq DOMAIN rows
    BY <1>1, CommitLeaves DEF BooksInv, Shape
  <2>2. CASE desk = "shares"
    BY <1>2, <1>3, <2>1, <2>2, FilingKept
  <2>3. ASSUME desk = "versions", BookLock # {}, open[t].locks = BookLock, Together'
        PROVE  rows' = rows
    BY <1>1, <2>3, FilingWrites, <1>2 DEF Shape, SavesVersion, MarksVersion, Live, Table,
       There, Together
  <2>4. CASE desk = "versions"
    BY <1>1, <1>2, <1>3, <2>1, <2>3, <2>4, FilingKept
  <2> QED BY <1>1, <2>2, <2>4
<1>7. Filing(s)'
  BY <1>2 DEF Filing
<1>8. ASSUME NEW r \in Table("versions"), ~rows[r].there, rows'[r].there,
             rows'[r].saves # "upload", Together
      PROVE  rows'[r].base = LatestVersion(rows)
  BY <1>1, <1>2, <1>8, FilingWrites DEF Table, There, SavesVersion
<1>9. ASSUME NEW r \in Live("shares"), rows'[r].workbook # rows[r].workbook
      PROVE  /\ rows'[r].revision = rows[r].revision + 1
             /\ rows'[r].history = Earlier(rows[r])
  BY <1>1, <1>2, <1>9, FilingWrites DEF Live, Table, BooksInv, SharesOn
<1>10. NoneOverwritten
  BY <1>8, <1>9 DEF NoneOverwritten, Together
<1>11. BooksInv'
  BY <1>1, <1>2, <1>4, <1>5, <1>6, <1>7 DEF BooksInv, BookIds
<1> QED BY <1>10, <1>11

\* A step at the desks of workbooks: only a commit changes rows, and it overwrites
\* nothing that was not seen.
LEMMA BooksSteps ==
    ASSUME BooksInv, [WorkbookNext]_storeVars
    PROVE  BooksInv' /\ (rows' = rows \/ NoneOverwritten)
<1>1. Shape /\ desk \in {"versions", "shares"} /\ \A t \in Sessions : Filing(t)
  BY DEF BooksInv, WorkbookDesks
<1>2. ASSUME Shape', rows' = rows, desk' = desk, \A t \in Sessions : Filing(t)'
      PROVE  BooksInv'
  BY <1>2 DEF BooksInv, BookIds, Told, Live, Table, There
<1>3. ASSUME NEW t \in Sessions, Kept(t), desk' = desk, rows' = rows
      PROVE  Filing(t)'
  BY <1>3, <1>1, FilingKept DEF There, Shape
<1>4. ASSUME NEW s \in Sessions, WorkbookRequest(s)
      PROVE  BooksInv' /\ rows' = rows
  BY <1>4, VersionStages, ShareStages, <1>3, StageLeaves, <1>2 DEF WorkbookRequest
<1>5. ASSUME NEW s \in Sessions, Abort(s)
      PROVE  BooksInv' /\ rows' = rows
  BY <1>1, <1>5, AbortShape, <1>3, AbortLeaves, <1>2 DEF Filing
<1>6. CASE UNCHANGED storeVars
  BY <1>1, <1>6, StutterShape, <1>3, StutterLeaves, <1>2 DEF storeVars
<1>7. CASE WorkbookNext
  BY <1>7, <1>4, <1>5, BooksCommit DEF WorkbookNext
<1> QED BY <1>6, <1>7

-----------------------------------------------------------------------------
(* Records of employees. *)

\* The types of the columns of each table.
FamilyTypes ==
    [there |-> {TRUE}, of |-> Employees, active |-> BOOLEAN, dependent |-> BOOLEAN,
     kin |-> BOOLEAN, primary |-> BOOLEAN, from |-> Dates, until |-> Dates]
ContactTypes ==
    [there |-> {TRUE}, of |-> Employees, active |-> BOOLEAN, primary |-> BOOLEAN,
     member |-> {NoRef} \cup Table("family")]
ResumeTypes ==
    [there |-> {TRUE}, of |-> Employees, active |-> BOOLEAN, current |-> BOOLEAN,
     version |-> Nat]
DocumentTypes ==
    [there |-> {TRUE}, of |-> Employees, active |-> BOOLEAN, from |-> Dates, until |-> Dates,
     status |-> VerificationStatuses]
PaperTypes ==
    [there |-> {TRUE}, of |-> Employees, active |-> BOOLEAN, from |-> Dates, until |-> Dates,
     doc |-> {NoRef} \cup Table("documents")]
SkillTypes == [there |-> {TRUE}, name |-> Names, active |-> BOOLEAN]
LinkTypes ==
    [there |-> {TRUE}, of |-> Employees, skill |-> Table("skills"), level |-> 1..2]
DepartmentTypes ==
    [there |-> {TRUE}, name |-> Names, active |-> BOOLEAN,
     parent |-> {NoRef} \cup Table("departments")]
PositionTypes ==
    [there |-> {TRUE}, name |-> Names, active |-> BOOLEAN,
     department |-> {NoRef} \cup Table("departments")]

PaperTables == {"qualifications", "training", "licences"}

PersonnelTypes ==
    [r \in DOMAIN rows |->
        IF r[1] = "family" THEN FamilyTypes ELSE IF r[1] = "contacts" THEN ContactTypes
        ELSE IF r[1] = "resumes" THEN ResumeTypes ELSE IF r[1] = "documents" THEN DocumentTypes
        ELSE IF r[1] \in PaperTables THEN PaperTypes
        ELSE IF r[1] = "skills" THEN SkillTypes
        ELSE IF r[1] = "departments" THEN DepartmentTypes
        ELSE IF r[1] = "positions" THEN PositionTypes ELSE LinkTypes]

\* Their columns.
LEMMA FamilyColumns ==
    /\ DOMAIN FamilyTypes = {"there", "of", "active", "dependent", "kin", "primary", "from", "until"}
    /\ FamilyTypes.there = {TRUE} /\ FamilyTypes.of = Employees
    /\ FamilyTypes.active = BOOLEAN /\ FamilyTypes.dependent = BOOLEAN
    /\ FamilyTypes.kin = BOOLEAN /\ FamilyTypes.primary = BOOLEAN
    /\ FamilyTypes.from = Dates /\ FamilyTypes.until = Dates
  BY DEF FamilyTypes

LEMMA ContactColumns ==
    /\ DOMAIN ContactTypes = {"there", "of", "active", "primary", "member"}
    /\ ContactTypes.there = {TRUE} /\ ContactTypes.of = Employees
    /\ ContactTypes.active = BOOLEAN /\ ContactTypes.primary = BOOLEAN
    /\ ContactTypes.member = {NoRef} \cup Table("family")
  BY DEF ContactTypes

LEMMA ResumeColumns ==
    /\ DOMAIN ResumeTypes = {"there", "of", "active", "current", "version"}
    /\ ResumeTypes.there = {TRUE} /\ ResumeTypes.of = Employees
    /\ ResumeTypes.active = BOOLEAN /\ ResumeTypes.current = BOOLEAN
    /\ ResumeTypes.version = Nat
  BY DEF ResumeTypes

LEMMA DocumentColumns ==
    /\ DOMAIN DocumentTypes = {"there", "of", "active", "from", "until", "status"}
    /\ DocumentTypes.there = {TRUE} /\ DocumentTypes.of = Employees
    /\ DocumentTypes.active = BOOLEAN /\ DocumentTypes.from = Dates
    /\ DocumentTypes.until = Dates /\ DocumentTypes.status = VerificationStatuses
  BY DEF DocumentTypes

LEMMA PaperColumns ==
    /\ DOMAIN PaperTypes = {"there", "of", "active", "from", "until", "doc"}
    /\ PaperTypes.there = {TRUE} /\ PaperTypes.of = Employees
    /\ PaperTypes.active = BOOLEAN /\ PaperTypes.from = Dates /\ PaperTypes.until = Dates
    /\ PaperTypes.doc = {NoRef} \cup Table("documents")
  BY DEF PaperTypes

LEMMA SkillColumns ==
    /\ DOMAIN SkillTypes = {"there", "name", "active"}
    /\ SkillTypes.there = {TRUE} /\ SkillTypes.name = Names /\ SkillTypes.active = BOOLEAN
  BY DEF SkillTypes

LEMMA LinkColumns ==
    /\ DOMAIN LinkTypes = {"there", "of", "skill", "level"}
    /\ LinkTypes.there = {TRUE} /\ LinkTypes.of = Employees
    /\ LinkTypes.skill = Table("skills") /\ LinkTypes.level = 1..2
  BY DEF LinkTypes

LEMMA DepartmentColumns ==
    /\ DOMAIN DepartmentTypes = {"there", "name", "active", "parent"}
    /\ DepartmentTypes.there = {TRUE} /\ DepartmentTypes.name = Names
    /\ DepartmentTypes.active = BOOLEAN
    /\ DepartmentTypes.parent = {NoRef} \cup Table("departments")
  BY DEF DepartmentTypes

LEMMA PositionColumns ==
    /\ DOMAIN PositionTypes = {"there", "name", "active", "department"}
    /\ PositionTypes.there = {TRUE} /\ PositionTypes.name = Names
    /\ PositionTypes.active = BOOLEAN
    /\ PositionTypes.department = {NoRef} \cup Table("departments")
  BY DEF PositionTypes

\* They are numbered.
LEMMA PersonnelNumbers ==
    ASSUME DOMAIN rows = PersonnelIds
    PROVE  \A name : \A r \in Table(name) : r[2] \in Nat
  BY RowStoreAssumption DEF PersonnelIds, Table, RowStoreAssumption

\* Each table has its types.
LEMMA PersonnelTyping ==
    ASSUME NEW types, types = PersonnelTypes
    PROVE  /\ \A r \in Table("family") : types[r] = FamilyTypes
           /\ \A r \in Table("contacts") : types[r] = ContactTypes
           /\ \A r \in Table("resumes") : types[r] = ResumeTypes
           /\ \A r \in Table("documents") : types[r] = DocumentTypes
           /\ \A name \in PaperTables : \A r \in Table(name) : types[r] = PaperTypes
           /\ \A r \in Table("skills") : types[r] = SkillTypes
           /\ \A r \in Table("departments") : types[r] = DepartmentTypes
           /\ \A r \in Table("positions") : types[r] = PositionTypes
  BY DEF Table, PersonnelTypes, PaperTables

LEMMA LinkTyping ==
    ASSUME NEW types, types = PersonnelTypes
    PROVE  \A r \in Table("skill links") : types[r] = LinkTypes
  BY Zenon DEF PersonnelTypes, PaperTables, Table

\* A row with these columns is one of its table.
LEMMA PersonnelRowsAre ==
    ASSUME NEW row
    PROVE  /\ IsRow(row, FamilyTypes) => row \in FamilyRows
           /\ IsRow(row, ContactTypes) => row \in ContactRows
           /\ IsRow(row, ResumeTypes) => row \in ResumeRows
           /\ IsRow(row, DocumentTypes) => row \in DocumentRows
           /\ IsRow(row, PaperTypes) => row \in PaperRows
           /\ IsRow(row, SkillTypes) => row \in SkillRows
           /\ IsRow(row, LinkTypes) => row \in SkillLinkRows
           /\ IsRow(row, DepartmentTypes) => row \in DepartmentRows
           /\ IsRow(row, PositionTypes) => row \in PositionRows
  BY DEF IsRow, FamilyTypes, FamilyRows, ContactTypes, ContactRows, ResumeTypes, ResumeRows,
     DocumentTypes, DocumentRows, PaperTypes, PaperRows, SkillTypes, SkillRows, LinkTypes,
     SkillLinkRows, DepartmentTypes, DepartmentRows, PositionTypes, PositionRows

\* The rows that fit what is asked of one alone.
PersonnelGood ==
    [r \in DOMAIN rows |->
        IF r[1] = "family" THEN {x \in FamilyRows : InOrder(x)}
        ELSE IF r[1] = "contacts" THEN {x \in ContactRows : Owned(x.member, x.of)}
        ELSE IF r[1] = "resumes" THEN {x \in ResumeRows : x.current => x.active}
        ELSE IF r[1] = "documents"
        THEN {x \in DocumentRows : InOrder(x) /\ (x.status = "VERIFIED" => ~Expired(x))}
        ELSE IF r[1] \in PaperTables
        THEN {x \in PaperRows : InOrder(x) /\ Owned(x.doc, x.of)}
        ELSE IF r[1] = "skills" THEN SkillRows ELSE IF r[1] = "departments" THEN DepartmentRows
        ELSE IF r[1] = "positions" THEN PositionRows ELSE SkillLinkRows]

LEMMA PersonnelGoods ==
    ASSUME NEW good, good = PersonnelGood
    PROVE  /\ \A r \in Table("family") : good[r] = {x \in FamilyRows : InOrder(x)}
           /\ \A r \in Table("contacts") :
                 good[r] = {x \in ContactRows : Owned(x.member, x.of)}
           /\ \A r \in Table("resumes") : good[r] = {x \in ResumeRows : x.current => x.active}
           /\ \A r \in Table("documents") :
                 good[r] = {x \in DocumentRows :
                               InOrder(x) /\ (x.status = "VERIFIED" => ~Expired(x))}
           /\ \A name \in PaperTables : \A r \in Table(name) :
                 good[r] = {x \in PaperRows : InOrder(x) /\ Owned(x.doc, x.of)}
           /\ \A r \in Table("skills") : good[r] = SkillRows
           /\ \A r \in Table("departments") : good[r] = DepartmentRows
           /\ \A r \in Table("positions") : good[r] = PositionRows
  BY DEF Table, PersonnelGood, PaperTables

LEMMA LinkGoods ==
    ASSUME NEW good, good = PersonnelGood
    PROVE  \A r \in Table("skill links") : good[r] = SkillLinkRows
  BY Zenon DEF PersonnelGood, PaperTables, Table

\* At a desk of personnel, rows and writes are typed and good.
PersonnelFits(types, good) ==
    /\ Shape /\ desk \in DOMAIN PersonnelTables /\ DOMAIN rows = PersonnelIds
    /\ types = PersonnelTypes /\ good = PersonnelGood
    /\ Typed(types) /\ StayGood(good)

\* A row the desk refers to and leaves as it is.
Referred(r) == desk \in DOMAIN ReferredTo /\ r[1] \in ReferredTo[desk]

LEMMA ReferredAre ==
    /\ \A r : Referred(r) <=> \/ desk = "contacts" /\ r[1] = "family"
                              \/ desk \in PaperTables /\ r[1] = "documents"
    /\ DOMAIN ReferredTo = {"contacts"} \cup PaperTables
  BY DEF ReferredTo, Referred, PaperTables

\* The handler writes what may be written, and keeps good rows good.
Serves(s, locked, writes, types, good) ==
    /\ locked \subseteq DOMAIN rows \cup Advisory
    /\ \A r \in DOMAIN writes : ~Referred(r)
    /\ Proper(writes, types) /\ KeepsGood(writes, types, good)
    /\ StageLocked(s, locked, writes)

\* Clearing a flag on some rows changes nothing else about them.
LEMMA Clears ==
    ASSUME NEW types, NEW good, PersonnelFits(types, good),
           NEW name \in {"family", "contacts", "resumes"}, NEW flag,
           flag = Flag(name), NEW e, NEW m, NEW body
    PROVE  /\ Proper(Exclusive(name, flag, e, m, body), types)
           /\ KeepsGood(Exclusive(name, flag, e, m, body), types, good)
<1>1. PICK cols : cols = [c \in {flag} |-> FALSE]
  OBVIOUS
<1>2. PICK S \in SUBSET Live(name) : Exclusive(name, flag, e, m, body) = SetAll(S, cols)
  BY <1>1 DEF Exclusive
<1>3. DOMAIN cols = {flag} /\ cols[flag] = FALSE
  BY <1>1
<1>4. \A r \in S : r \in Table(name) /\ r \in DOMAIN rows /\ There(r)
  BY DEF Live, Table
<1>5. types = PersonnelTypes /\ good = PersonnelGood
  BY DEF PersonnelFits
<1>6. ASSUME NEW r \in S
      PROVE  /\ MayWrite(cols, types[r])
             /\ \A new : /\ IsRow(new, types[r]) /\ Carries(new, cols, rows[r])
                         /\ rows[r] = Absent \/ rows[r] \in good[r]
                         => new \in good[r]
  <2>1. PICK old : old = rows[r] /\ old.there /\ old # Absent
    BY <1>4 DEF There, Absent
  <2>2. CASE name = "family"
    <3>1. types[r] = FamilyTypes /\ good[r] = {x \in FamilyRows : InOrder(x)}
      BY <1>4, <1>5, <2>2, PersonnelTyping, PersonnelGoods
    <3>2. flag = "primary"
      BY <2>2 DEF Flag
    <3>3. MayWrite(cols, FamilyTypes)
      BY <1>3, <3>2, FamilyColumns DEF MayWrite
    <3>4. ASSUME NEW new, IsRow(new, FamilyTypes), Carries(new, cols, old), old \in FamilyRows,
                 InOrder(old)
          PROVE  new \in FamilyRows /\ InOrder(new)
      BY <1>3, <3>2, <3>4, PersonnelRowsAre DEF Carries, FamilyRows, FamilyTypes, InOrder
    <3> QED BY <2>1, <3>1, <3>3, <3>4
  <2>3. CASE name = "contacts"
    <3>1. types[r] = ContactTypes /\ good[r] = {x \in ContactRows : Owned(x.member, x.of)}
      BY <1>4, <1>5, <2>3, PersonnelTyping, PersonnelGoods
    <3>2. flag = "primary"
      BY <2>3 DEF Flag
    <3>3. MayWrite(cols, ContactTypes)
      BY <1>3, <3>2, ContactColumns DEF MayWrite
    <3>4. ASSUME NEW new, IsRow(new, ContactTypes), Carries(new, cols, old), old \in ContactRows,
                 Owned(old.member, old.of)
          PROVE  new \in ContactRows /\ Owned(new.member, new.of)
      BY <1>3, <3>2, <3>4, PersonnelRowsAre DEF Carries, ContactRows, ContactTypes
    <3> QED BY <2>1, <3>1, <3>3, <3>4
  <2>4. CASE name = "resumes"
    <3>1. types[r] = ResumeTypes /\ good[r] = {x \in ResumeRows : x.current => x.active}
      BY <1>4, <1>5, <2>4, PersonnelTyping, PersonnelGoods
    <3>2. flag = "current"
      BY <2>4 DEF Flag
    <3>3. MayWrite(cols, ResumeTypes)
      BY <1>3, <3>2, ResumeColumns DEF MayWrite
    <3>4. ASSUME NEW new, IsRow(new, ResumeTypes), Carries(new, cols, old)
          PROVE  new \in ResumeRows /\ ~new.current
      BY <1>3, <3>2, <3>4, PersonnelRowsAre DEF Carries, ResumeTypes
    <3> QED BY <2>1, <3>1, <3>3, <3>4
  <2> QED BY <2>2, <2>3, <2>4
<1>7. S \in SUBSET DOMAIN rows
  BY <1>4
<1>8. Proper(SetAll(S, cols), types)
  BY <1>6, <1>7, ProperSetAll
<1>9. KeepsGood(SetAll(S, cols), types, good)
  BY <1>6, GoodSetAll
<1> QED BY <1>2, <1>8, <1>9

\* Only rows of one table are written.
OnlyIn(name, writes) == \A r \in DOMAIN writes : r[1] = name

LEMMA OneTable ==
    ASSUME NEW name
    PROVE  /\ \A c \in Table(name) : \A cols : OnlyIn(name, Set(c, cols))
           /\ \A flag, e, m, body : OnlyIn(name, Exclusive(name, flag, e, m, body))
           /\ \A a, b : OnlyIn(name, a) /\ OnlyIn(name, b) => OnlyIn(name, Over(a, b))
  BY DEF Table, OnlyIn, Set, Exclusive, SetAll, Live, Over

LEMMA InsertsInto ==
    ASSUME NEW name, Shape, Spare(name) # {}, \A r \in Table(name) : r[2] \in Nat, NEW cols
    PROVE  OnlyIn(name, Insert(name, cols))
  BY NewRowIsSpare, OneTable DEF Insert

\* What a handler that serves leaves.
LEMMA ServedFits ==
    ASSUME NEW types, NEW good, PersonnelFits(types, good), NEW s \in Sessions,
           \E locked, writes : Serves(s, locked, writes, types, good)
    PROVE  Typed(types)' /\ StayGood(good)'
  BY TypedStages, GoodStages DEF Serves, PersonnelFits

\* Dates that a request may send.
LEMMA FamilyDatesAre == FamilyDates \subseteq Dates
  BY DEF FamilyDates, Dates

\* The requests about family members,
LEMMA FamilyServes ==
    ASSUME NEW types, NEW good, PersonnelFits(types, good), desk \in {"family", "dependency"},
           NEW s \in Sessions, FamilyStep(s)
    PROVE  \E locked, writes : Serves(s, locked, writes, types, good)
<1>1. /\ \A r \in Table("family") :
            r \in DOMAIN rows /\ types[r] = FamilyTypes /\ good[r] = {x \in FamilyRows : InOrder(x)}
      /\ \A r \in Table("family") : r[2] \in Nat
      /\ Shape /\ Typed(types)
      /\ \A r : ~Referred(r)
  BY PersonnelTyping, PersonnelGoods, PersonnelNumbers, ReferredAre
     DEF PersonnelFits, Table, PaperTables
<1>2. \A e, m, body : /\ Proper(ExclusiveFlag(e, m, body), types)
                      /\ KeepsGood(ExclusiveFlag(e, m, body), types, good)
  BY Clears DEF ExclusiveFlag, Flag
<1>3. ASSUME NEW writes, Proper(writes, types), KeepsGood(writes, types, good), Stage(s, writes)
      PROVE  \E locked, w : Serves(s, locked, w, types, good)
  BY <1>1, <1>3 DEF Serves, Stage
<1>4. ASSUME NEW m \in Live("family"), NEW cols,
             "there" \notin DOMAIN cols, DOMAIN cols \subseteq DOMAIN FamilyTypes,
             \A c \in DOMAIN cols : cols[c] \in FamilyTypes[c],
             \/ DOMAIN cols \cap {"from", "until"} = {}
             \/ InOrder(Over(cols, rows[m]))
      PROVE  Proper(Set(m, cols), types) /\ KeepsGood(Set(m, cols), types, good)
  <2>1. m \in Table("family") /\ m \in DOMAIN rows /\ There(m)
    BY DEF Live, Table
  <2>2. MayWrite(cols, types[m])
    BY <1>1, <1>4, <2>1 DEF MayWrite
  <2>3. PICK old : old = rows[m] /\ old # Absent
    BY <2>1 DEF There, Absent
  <2>4. ASSUME NEW new, IsRow(new, FamilyTypes), Carries(new, cols, old), old \in FamilyRows,
               InOrder(old)
        PROVE  new \in FamilyRows /\ InOrder(new)
    <3>1. {"from", "until"} \subseteq DOMAIN old
      BY <2>4 DEF FamilyRows
    <3>2. InOrder(new)
      BY <2>4, <3>1, CarriedOver, <1>4, <2>3 DEF Carries, InOrder
    <3> QED BY <2>4, <3>2, PersonnelRowsAre
  <2>5. \A new : /\ IsRow(new, types[m]) /\ Carries(new, cols, rows[m])
                 /\ rows[m] = Absent \/ rows[m] \in good[m]
                 => new \in good[m]
    BY <1>1, <2>1, <2>3, <2>4
  <2> QED BY <2>1, <2>2, <2>5, ProperSet, GoodSet
<1>5. ASSUME NEW m \in Live("family"), NEW body, FamilyChange(s, m, body),
             "there" \notin DOMAIN body, DOMAIN body \subseteq DOMAIN FamilyTypes,
             \A c \in DOMAIN body : body[c] \in FamilyTypes[c]
      PROVE  \E locked, w : Serves(s, locked, w, types, good)
  BY <1>5, <1>4, <1>2, <1>3, ProperOver, GoodOver DEF FamilyChange
<1>6. CASE FamilyCreate(s)
  <2>1. PICK e \in Employees, body \in FamilyBodies :
            /\ Spare("family") # {}
            /\ InOrder(body)
            /\ Stage(s, Over(Insert("family", Over([of |-> e, active |-> TRUE], body)),
                             ExclusiveFlag(e, NewRow("family"), body)))
    BY <1>6 DEF FamilyCreate
  <2>2. PICK given : given = Over([of |-> e, active |-> TRUE], body)
    OBVIOUS
  <2>3. /\ DOMAIN given = {"of", "active", "dependent", "kin", "primary", "from", "until"}
        /\ given.of = e /\ given.active = TRUE
        /\ given.dependent = body.dependent /\ given.kin = body.kin
        /\ given.primary = body.primary /\ given.from = body.from /\ given.until = body.until
    BY <2>2 DEF Over, FamilyBodies
  <2>4. PICK a, b : a = Insert("family", given) /\ b = ExclusiveFlag(e, NewRow("family"), body)
    OBVIOUS
  <2>5. /\ body.dependent \in BOOLEAN /\ body.kin \in BOOLEAN /\ body.primary \in BOOLEAN
        /\ body.from \in Dates /\ body.until \in Dates
    BY FamilyDatesAre DEF FamilyBodies
  <2>6. DOMAIN FamilyTypes = {"there"} \cup DOMAIN given
    BY <2>3, FamilyColumns
  <2>7. \A c \in DOMAIN given \ {"there"} : given[c] \in FamilyTypes[c]
    BY <2>3, <2>5, FamilyColumns
  <2>8. Proper(a, types)
    BY <1>1, <2>1, <2>4, <2>6, <2>7, ProperInsert
  <2>9. ASSUME NEW new, IsRow(new, FamilyTypes),
               \A c \in DOMAIN given \ {"there"} : new[c] = given[c]
        PROVE  new \in FamilyRows /\ InOrder(new)
    BY <2>3, <2>9, <2>1, PersonnelRowsAre DEF InOrder
  <2>10. KeepsGood(a, types, good)
    BY <1>1, <2>1, <2>4, <2>9, GoodInsert
  <2>11. Proper(b, types) /\ KeepsGood(b, types, good)
    BY <1>2, <2>4
  <2>12. Stage(s, Over(a, b))
    BY <2>1, <2>2, <2>4
  <2> QED BY <1>3, <2>8, <2>10, <2>11, <2>12, ProperOver, GoodOver
<1>7. CASE FamilyUpdate(s)
  BY <1>7, FamilyDatesAre, FamilyColumns, <1>5 DEF FamilyUpdate, FamilyChanges
<1>8. CASE SetDependent(s)
  <2>1. PICK m \in Live("family"), body \in {[dependent |-> TRUE]} : FamilyChange(s, m, body)
    BY <1>8 DEF SetDependent
  <2>2. DOMAIN body = {"dependent"} /\ body.dependent = TRUE
    OBVIOUS
  <2>3. /\ "there" \notin DOMAIN body /\ DOMAIN body \subseteq DOMAIN FamilyTypes
        /\ \A c \in DOMAIN body : body[c] \in FamilyTypes[c]
    BY <2>2, FamilyColumns
  <2> QED BY <1>5, <2>1, <2>3
<1>9. CASE FamilyArchive(s) \/ SetNextOfKin(s)
  <2>1. PICK m \in Live("family"), cols \in {[active |-> FALSE], [kin |-> TRUE]} :
            Stage(s, Set(m, cols))
    BY <1>9 DEF FamilyArchive, SetNextOfKin
  <2>2. \/ DOMAIN cols = {"active"} /\ cols.active = FALSE
        \/ DOMAIN cols = {"kin"} /\ cols.kin = TRUE
    OBVIOUS
  <2>3. /\ "there" \notin DOMAIN cols /\ DOMAIN cols \subseteq DOMAIN FamilyTypes
        /\ \A c \in DOMAIN cols : cols[c] \in FamilyTypes[c]
        /\ DOMAIN cols \cap {"from", "until"} = {}
    BY <2>2, FamilyColumns
  <2>4. Proper(Set(m, cols), types) /\ KeepsGood(Set(m, cols), types, good)
    BY <1>4, <2>3
  <2> QED BY <1>3, <2>1, <2>4
<1> QED BY <1>6, <1>7, <1>8, <1>9 DEF FamilyStep

\* those about emergency contacts,
LEMMA ContactServes ==
    ASSUME NEW types, NEW good, PersonnelFits(types, good), desk = "contacts",
           NEW s \in Sessions, ContactStep(s)
    PROVE  \E locked, writes : Serves(s, locked, writes, types, good)
<1>1. /\ \A r \in Table("contacts") :
            r \in DOMAIN rows /\ types[r] = ContactTypes
            /\ good[r] = {x \in ContactRows : Owned(x.member, x.of)}
      /\ \A r \in Table("contacts") : r[2] \in Nat
      /\ Shape /\ Typed(types)
  BY PersonnelTyping, PersonnelGoods, PersonnelNumbers DEF PersonnelFits, Table
<1>2. \A e, m, body : /\ Proper(ExclusivePrimary(e, m, body), types)
                      /\ KeepsGood(ExclusivePrimary(e, m, body), types, good)
  BY Clears DEF ExclusivePrimary, Flag
<1>3. ASSUME NEW locked, NEW writes, locked \subseteq DOMAIN rows \cup Advisory,
             Proper(writes, types), KeepsGood(writes, types, good), StageLocked(s, locked, writes),
             OnlyIn("contacts", writes)
      PROVE  \E l, w : Serves(s, l, w, types, good)
  BY <1>3, ReferredAre DEF OnlyIn, PaperTables, Serves
<1>4. ASSUME NEW c \in Live("contacts"), NEW cols, "of" \notin DOMAIN cols,
             "there" \notin DOMAIN cols, DOMAIN cols \subseteq DOMAIN ContactTypes,
             \A x \in DOMAIN cols : cols[x] \in ContactTypes[x],
             "member" \in DOMAIN cols => Owned(cols.member, rows[c].of)
      PROVE  Proper(Set(c, cols), types) /\ KeepsGood(Set(c, cols), types, good)
  <2>1. c \in Table("contacts") /\ c \in DOMAIN rows /\ There(c)
    BY DEF Live, Table
  <2>2. MayWrite(cols, types[c])
    BY <1>1, <1>4, <2>1 DEF MayWrite
  <2>3. PICK old : old = rows[c] /\ old # Absent
    BY <2>1 DEF There, Absent
  <2>4. ASSUME NEW new, IsRow(new, ContactTypes), Carries(new, cols, old), old \in ContactRows,
               Owned(old.member, old.of)
        PROVE  new \in ContactRows /\ Owned(new.member, new.of)
    BY <2>4, <1>4, <2>3, PersonnelRowsAre DEF ContactRows, Carries
  <2>5. \A new : /\ IsRow(new, types[c]) /\ Carries(new, cols, rows[c])
                 /\ rows[c] = Absent \/ rows[c] \in good[c]
                 => new \in good[c]
    BY <1>1, <2>1, <2>3, <2>4
  <2> QED BY <2>1, <2>2, <2>5, ProperSet, GoodSet
<1>5. ASSUME NEW c \in Live("contacts"), NEW cols, "of" \notin DOMAIN cols,
             "there" \notin DOMAIN cols, DOMAIN cols \subseteq DOMAIN ContactTypes,
             \A x \in DOMAIN cols : cols[x] \in ContactTypes[x],
             "member" \in DOMAIN cols => Owned(cols.member, rows[c].of),
             NEW locked, locked \subseteq DOMAIN rows \cup Advisory, NEW e, NEW body,
             \/ StageLocked(s, locked, Set(c, cols))
             \/ StageLocked(s, locked, Over(Set(c, cols), ExclusivePrimary(e, c, body)))
      PROVE  \E l, w : Serves(s, l, w, types, good)
  BY <1>4, <1>5, <1>2, ProperOver, GoodOver, OneTable, <1>3 DEF Live, ExclusivePrimary
<1>6. ASSUME NEW e \in Employees, NEW given, DOMAIN given = {"of", "active", "primary", "member"},
             given.of = e, given.active = TRUE, given.primary \in BOOLEAN,
             given.member \in {NoRef} \cup Table("family"), Owned(given.member, e),
             Spare("contacts") # {},
             NEW locked, locked \subseteq DOMAIN rows \cup Advisory, NEW body,
             StageLocked(s, locked, Over(Insert("contacts", given),
                                         ExclusivePrimary(e, NewRow("contacts"), body)))
      PROVE  \E l, w : Serves(s, l, w, types, good)
  <2>1. PICK a, b :
            a = Insert("contacts", given) /\ b = ExclusivePrimary(e, NewRow("contacts"), body)
    OBVIOUS
  <2>2. DOMAIN ContactTypes = {"there"} \cup DOMAIN given
    BY <1>6, ContactColumns
  <2>3. \A c \in DOMAIN given \ {"there"} : given[c] \in ContactTypes[c]
    BY <1>6, ContactColumns
  <2>4. Proper(a, types)
    BY <1>1, <1>6, <2>1, <2>2, <2>3, ProperInsert
  <2>5. ASSUME NEW new, IsRow(new, ContactTypes),
               \A c \in DOMAIN given \ {"there"} : new[c] = given[c]
        PROVE  new \in ContactRows /\ Owned(new.member, new.of)
    BY <1>6, <2>5, PersonnelRowsAre
  <2>6. KeepsGood(a, types, good)
    BY <1>1, <1>6, <2>1, <2>5, GoodInsert
  <2>7. Proper(b, types) /\ KeepsGood(b, types, good)
    BY <1>2, <2>1
  <2>8. OnlyIn("contacts", a) /\ OnlyIn("contacts", b)
    BY <1>1, <1>6, <2>1, InsertsInto, OneTable DEF ExclusivePrimary
  <2>9. OnlyIn("contacts", Over(a, b))
    BY <2>8, OneTable
  <2> QED BY <1>3, <1>6, <2>1, <2>4, <2>6, <2>7, <2>9, ProperOver, GoodOver
<1>7. CASE ContactCreate(s)
  <2>1. PICK e \in Employees, body \in ContactBodies :
            /\ Spare("contacts") # {}
            /\ Owned(body.member, e)
            /\ Stage(s, Over(Insert("contacts", Over([of |-> e, active |-> TRUE], body)),
                             ExclusivePrimary(e, NewRow("contacts"), body)))
    BY <1>7 DEF ContactCreate
  <2>2. PICK given : given = Over([of |-> e, active |-> TRUE], body)
    OBVIOUS
  <2>3. /\ DOMAIN given = {"of", "active", "primary", "member"}
        /\ given.of = e /\ given.active = TRUE
        /\ given.primary = body.primary /\ given.member = body.member
        /\ body.primary \in BOOLEAN /\ body.member \in {NoRef} \cup Table("family")
    BY <2>2 DEF Over, ContactBodies
  <2>4. StageLocked(s, {}, Over(Insert("contacts", given),
                                ExclusivePrimary(e, NewRow("contacts"), body)))
    BY <2>1, <2>2 DEF Stage
  <2> QED BY <1>6, <2>1, <2>3, <2>4
<1>8. CASE ContactUpdate(s)
  BY <1>8, ContactColumns, <1>5 DEF ContactUpdate, ContactChanges, Stage
<1>9. CASE ContactSetPrimary(s) \/ PrimaryMyContact(s)
  <2>1. PICK body : body = [primary |-> TRUE]
    OBVIOUS
  <2>2. DOMAIN body = {"primary"} /\ body.primary = TRUE
    BY <2>1
  <2>3. /\ "of" \notin DOMAIN body /\ "there" \notin DOMAIN body /\ "member" \notin DOMAIN body
        /\ DOMAIN body \subseteq DOMAIN ContactTypes
        /\ \A x \in DOMAIN body : body[x] \in ContactTypes[x]
    BY <2>2, ContactColumns
  <2>4. CASE ContactSetPrimary(s)
    BY <2>1, <2>4, <1>5, <2>3 DEF ContactSetPrimary, Stage
  <2>5. CASE PrimaryMyContact(s)
    <3>1. PICK e \in Employees : \E c \in OwnContacts(e) :
              StageLocked(s, OwnProfile(e) \cup {c},
                          Over(Set(c, body), ExclusivePrimary(e, c, body)))
      BY <2>1, <2>5 DEF PrimaryMyContact
    <3>2. PICK c \in OwnContacts(e) :
              StageLocked(s, OwnProfile(e) \cup {c},
                          Over(Set(c, body), ExclusivePrimary(e, c, body)))
      BY <3>1
    <3>3. c \in Live("contacts")
      BY DEF OwnContacts
    <3>4. OwnProfile(e) \cup {c} \subseteq DOMAIN rows \cup Advisory
      BY <3>3 DEF OwnProfile, Advisory, Live, Table
    <3> QED BY <1>5, <2>3, <3>2, <3>3, <3>4
  <2> QED BY <1>9, <2>4, <2>5
<1>10. CASE AddMyContact(s)
  <2>1. PICK e \in Employees : \E primary \in BOOLEAN : \E body :
            /\ body = [primary |-> primary]
            /\ Spare("contacts") # {}
            /\ StageLocked(s, OwnProfile(e),
                 Over(Insert("contacts", Over([of |-> e, active |-> TRUE, member |-> NoRef], body)),
                      ExclusivePrimary(e, NewRow("contacts"), body)))
    BY <1>10 DEF AddMyContact
  <2>2. PICK primary \in BOOLEAN : \E body :
            /\ body = [primary |-> primary]
            /\ Spare("contacts") # {}
            /\ StageLocked(s, OwnProfile(e),
                 Over(Insert("contacts", Over([of |-> e, active |-> TRUE, member |-> NoRef], body)),
                      ExclusivePrimary(e, NewRow("contacts"), body)))
    BY <2>1
  <2>3. PICK body :
            /\ body = [primary |-> primary]
            /\ Spare("contacts") # {}
            /\ StageLocked(s, OwnProfile(e),
                 Over(Insert("contacts", Over([of |-> e, active |-> TRUE, member |-> NoRef], body)),
                      ExclusivePrimary(e, NewRow("contacts"), body)))
    BY <2>2
  <2>4. PICK given : given = Over([of |-> e, active |-> TRUE, member |-> NoRef], body)
    OBVIOUS
  <2>5. /\ DOMAIN given = {"of", "active", "primary", "member"}
        /\ given.of = e /\ given.active = TRUE
        /\ given.primary = primary /\ given.member = NoRef
    BY <2>3, <2>4 DEF Over
  <2>6. Owned(given.member, e) /\ OwnProfile(e) \subseteq DOMAIN rows \cup Advisory
    BY <2>5 DEF Owned, OwnProfile, Advisory
  <2>7. StageLocked(s, OwnProfile(e), Over(Insert("contacts", given),
                                ExclusivePrimary(e, NewRow("contacts"), body)))
    BY <2>3, <2>4
  <2> QED BY <1>6, <2>3, <2>5, <2>6, <2>7
<1>11. CASE ContactArchive(s) \/ ArchiveMyContact(s)
  <2>1. ASSUME NEW c \in Live("contacts"),
               NEW cols \in {[active |-> FALSE, primary |-> FALSE], [active |-> FALSE]},
               NEW locked, locked \subseteq DOMAIN rows \cup Advisory,
               StageLocked(s, locked, Set(c, cols))
        PROVE  \E l, w : Serves(s, l, w, types, good)
    <3>1. /\ DOMAIN cols = {"active", "primary"} \/ DOMAIN cols = {"active"}
          /\ \A x \in DOMAIN cols : cols[x] = FALSE
      OBVIOUS
    <3>2. /\ "of" \notin DOMAIN cols /\ "there" \notin DOMAIN cols /\ "member" \notin DOMAIN cols
          /\ DOMAIN cols \subseteq DOMAIN ContactTypes
          /\ \A x \in DOMAIN cols : cols[x] \in ContactTypes[x]
      BY <3>1, ContactColumns
    <3> QED BY <1>5, <2>1, <3>2
  <2>2. CASE ContactArchive(s)
    BY <2>2, <2>1 DEF ContactArchive, Stage
  <2>3. CASE ArchiveMyContact(s)
    BY <2>3, <2>1 DEF ArchiveMyContact, OwnContacts, OwnProfile, Advisory, Live, Table
  <2> QED BY <1>11, <2>2, <2>3
<1> QED BY <1>7, <1>8, <1>9, <1>10, <1>11 DEF ContactStep

\* A table holds finitely many rows, so what versions they have has a largest.
LEMMA LatestIsNat ==
    ASSUME NEW types, NEW good, PersonnelFits(types, good), NEW e \in Employees
    PROVE  Latest(e) \in Nat
<1>1. PICK mine : mine = {x \in Live("resumes") : rows[x].of = e}
  OBVIOUS
<1>2. IsFiniteSet(mine)
  <2>1. IsFiniteSet({"resumes"} \X Numbers)
    BY RowStoreAssumption, FS_Singleton, FS_Product DEF RowStoreAssumption
  <2>2. mine \subseteq {"resumes"} \X Numbers
    BY <1>1 DEF PersonnelFits, PersonnelIds, Live, Table
  <2> QED BY <2>1, <2>2, FS_Subset
<1>3. \A x \in mine : rows[x].version \in Nat
  <2> SUFFICES ASSUME NEW x \in mine PROVE rows[x].version \in Nat
    OBVIOUS
  <2>1. x \in Table("resumes") /\ x \in DOMAIN rows /\ There(x)
    BY <1>1 DEF Live, Table
  <2>2. PICK old : old = rows[x] /\ old # Absent
    BY <2>1 DEF There, Absent
  <2>3. IsRow(old, ResumeTypes)
    BY <2>1, <2>2, PersonnelTyping DEF PersonnelFits, Typed
  <2>4. old.version \in Nat
    BY <2>3, ResumeColumns DEF IsRow
  <2> QED BY <2>2, <2>4
<1>4. PICK f : f = [x \in mine |-> rows[x].version]
  OBVIOUS
<1>5. IsFiniteSet({f[x] : x \in mine})
  BY <1>2, <1>4, ImageFinite
<1>6. PICK taken : taken = {0} \cup {rows[x].version : x \in mine}
  OBVIOUS
<1>7. taken \in SUBSET Nat /\ taken # {} /\ IsFiniteSet(taken)
  <2>1. taken = {0} \cup {f[x] : x \in mine}
    BY <1>4, <1>6
  <2>2. IsFiniteSet(taken)
    BY <1>5, <2>1, FS_Singleton, FS_Union
  <2> QED BY <1>3, <1>6, <2>2
<1>8. PICK v \in taken : \A w \in taken : w <= v
  BY <1>7, LargestNumber
<1>9. Latest(e) = CHOOSE x \in taken : \A w \in taken : w <= x
  BY <1>1, <1>6 DEF Latest
<1>10. Latest(e) \in taken
  BY <1>8, <1>9
<1> QED BY <1>7, <1>10

\* those about resumes,
LEMMA ResumeServes ==
    ASSUME NEW types, NEW good, PersonnelFits(types, good), desk = "resumes",
           NEW s \in Sessions, ResumeStep(s)
    PROVE  \E locked, writes : Serves(s, locked, writes, types, good)
<1>1. /\ \A r \in Table("resumes") :
            r \in DOMAIN rows /\ types[r] = ResumeTypes
            /\ good[r] = {x \in ResumeRows : x.current => x.active}
      /\ \A r \in Table("resumes") : r[2] \in Nat
      /\ Shape /\ Typed(types)
      /\ \A r : ~Referred(r)
  BY PersonnelTyping, PersonnelGoods, PersonnelNumbers, ReferredAre
     DEF PersonnelFits, Table, PaperTables
<1>3. \A e, m : /\ Proper(OnlyCurrent(e, m), types)
                /\ KeepsGood(OnlyCurrent(e, m), types, good)
  BY Clears DEF OnlyCurrent, Flag
<1>4. ASSUME NEW writes, Proper(writes, types), KeepsGood(writes, types, good), Stage(s, writes)
      PROVE  \E locked, w : Serves(s, locked, w, types, good)
  BY <1>1, <1>4 DEF Serves, Stage
<1>5. ASSUME NEW r \in Live("resumes"), NEW cols, "there" \notin DOMAIN cols,
             DOMAIN cols \subseteq DOMAIN ResumeTypes,
             \A c \in DOMAIN cols : cols[c] \in ResumeTypes[c],
             \/ DOMAIN cols = {"current"} /\ rows[r].active
             \/ "current" \in DOMAIN cols /\ ~cols.current
      PROVE  Proper(Set(r, cols), types) /\ KeepsGood(Set(r, cols), types, good)
  <2>1. r \in Table("resumes") /\ r \in DOMAIN rows /\ There(r)
    BY DEF Live, Table
  <2>2. MayWrite(cols, types[r])
    BY <1>1, <1>5, <2>1 DEF MayWrite
  <2>3. PICK old : old = rows[r] /\ old # Absent
    BY <2>1 DEF There, Absent
  <2>4. ASSUME NEW new, IsRow(new, ResumeTypes), Carries(new, cols, old), old \in ResumeRows
        PROVE  new \in ResumeRows /\ (new.current => new.active)
    BY <2>4, PersonnelRowsAre, <1>5, <2>3 DEF ResumeRows, Carries
  <2>5. \A new : /\ IsRow(new, types[r]) /\ Carries(new, cols, rows[r])
                 /\ rows[r] = Absent \/ rows[r] \in good[r]
                 => new \in good[r]
    BY <1>1, <2>1, <2>3, <2>4
  <2> QED BY <2>1, <2>2, <2>5, ProperSet, GoodSet
<1>6. CASE ResumeAdd(s)
  <2>1. PICK e \in Employees :
            /\ Spare("resumes") # {}
            /\ Stage(s, Over(Insert("resumes", [of |-> e, active |-> TRUE, current |-> TRUE,
                                                version |-> Latest(e) + 1]),
                             OnlyCurrent(e, NewRow("resumes"))))
    BY <1>6 DEF ResumeAdd
  <2>2. PICK given, a, b :
            /\ given = [of |-> e, active |-> TRUE, current |-> TRUE, version |-> Latest(e) + 1]
            /\ a = Insert("resumes", given) /\ b = OnlyCurrent(e, NewRow("resumes"))
    OBVIOUS
  <2>3. PICK n \in Nat : n = Latest(e) + 1
    BY LatestIsNat
  <2>4. /\ DOMAIN given = {"of", "active", "current", "version"}
        /\ given.of = e /\ given.active = TRUE /\ given.current = TRUE /\ given.version = n
    BY <2>2, <2>3
  <2>5. DOMAIN ResumeTypes = {"there"} \cup DOMAIN given
    BY <2>4, ResumeColumns
  <2>6. \A c \in DOMAIN given \ {"there"} : given[c] \in ResumeTypes[c]
    BY <2>4, ResumeColumns
  <2>7. Proper(a, types)
    BY <1>1, <2>1, <2>2, <2>5, <2>6, ProperInsert
  <2>8. ASSUME NEW new, IsRow(new, ResumeTypes),
               \A c \in DOMAIN given \ {"there"} : new[c] = given[c]
        PROVE  new \in ResumeRows /\ new.active
    BY <2>4, <2>8, PersonnelRowsAre
  <2>9. KeepsGood(a, types, good)
    BY <1>1, <2>1, <2>2, <2>8, GoodInsert
  <2>10. Proper(b, types) /\ KeepsGood(b, types, good)
    BY <1>3, <2>2
  <2>11. Stage(s, Over(a, b))
    BY <2>1, <2>2
  <2> QED BY <1>4, <2>7, <2>9, <2>10, <2>11, ProperOver, GoodOver
<1>7. CASE ResumeSetCurrent(s)
  <2>1. PICK r \in Live("resumes") :
            /\ rows[r].active
            /\ Stage(s, Over(Set(r, [current |-> TRUE]), OnlyCurrent(rows[r].of, r)))
    BY <1>7 DEF ResumeSetCurrent
  <2>2. PICK cols, a, b : /\ cols = [current |-> TRUE]
                          /\ a = Set(r, cols) /\ b = OnlyCurrent(rows[r].of, r)
    OBVIOUS
  <2>3. DOMAIN cols = {"current"} /\ cols.current = TRUE
    BY <2>2
  <2>4. /\ "there" \notin DOMAIN cols /\ DOMAIN cols \subseteq DOMAIN ResumeTypes
        /\ \A c \in DOMAIN cols : cols[c] \in ResumeTypes[c]
    BY <2>3, ResumeColumns
  <2>5. Proper(a, types) /\ KeepsGood(a, types, good)
    BY <1>5, <2>1, <2>2, <2>3, <2>4
  <2>6. Proper(b, types) /\ KeepsGood(b, types, good)
    BY <1>3, <2>2
  <2>7. Stage(s, Over(a, b))
    BY <2>1, <2>2
  <2> QED BY <1>4, <2>5, <2>6, <2>7, ProperOver, GoodOver
<1>8. CASE ResumeArchive(s)
  <2>1. PICK cols : cols = [active |-> FALSE, current |-> FALSE]
    OBVIOUS
  <2>2. PICK r \in Live("resumes") : Stage(s, Set(r, cols))
    BY <1>8, <2>1 DEF ResumeArchive
  <2>3. DOMAIN cols = {"active", "current"} /\ cols.active = FALSE /\ cols.current = FALSE
    BY <2>1
  <2>4. /\ "there" \notin DOMAIN cols /\ DOMAIN cols \subseteq DOMAIN ResumeTypes
        /\ \A c \in DOMAIN cols : cols[c] \in ResumeTypes[c]
    BY <2>3, ResumeColumns
  <2>5. Proper(Set(r, cols), types) /\ KeepsGood(Set(r, cols), types, good)
    BY <1>5, <2>3, <2>4
  <2> QED BY <1>4, <2>2, <2>5
<1> QED BY <1>6, <1>7, <1>8 DEF ResumeStep

\* those about documents,
LEMMA DocumentServes ==
    ASSUME NEW types, NEW good, PersonnelFits(types, good), desk = "documents",
           NEW s \in Sessions, DocumentStep(s)
    PROVE  \E locked, writes : Serves(s, locked, writes, types, good)
<1>1. /\ \A r \in Table("documents") :
            r \in DOMAIN rows /\ types[r] = DocumentTypes
            /\ good[r] = {x \in DocumentRows :
                             InOrder(x) /\ (x.status = "VERIFIED" => ~Expired(x))}
      /\ \A r \in Table("documents") : r[2] \in Nat
      /\ Shape /\ Typed(types)
      /\ \A r : ~Referred(r)
  BY PersonnelTyping, PersonnelGoods, PersonnelNumbers, ReferredAre
     DEF PersonnelFits, Table, PaperTables
<1>2. ASSUME NEW writes, Proper(writes, types), KeepsGood(writes, types, good), Stage(s, writes)
      PROVE  \E locked, w : Serves(s, locked, w, types, good)
  BY <1>1, <1>2 DEF Serves, Stage
<1>3. ASSUME NEW d \in Live("documents"), NEW cols, "there" \notin DOMAIN cols,
             DOMAIN cols \subseteq DOMAIN DocumentTypes,
             \A c \in DOMAIN cols : cols[c] \in DocumentTypes[c],
             \A old : /\ old = rows[d] /\ old \in DocumentRows /\ InOrder(old)
                      /\ old.status = "VERIFIED" => ~Expired(old)
                 => /\ InOrder(Over(cols, old))
                    /\ Over(cols, old).status = "VERIFIED" => ~Expired(Over(cols, old)),
             Stage(s, Set(d, cols))
      PROVE  \E locked, w : Serves(s, locked, w, types, good)
  <2>1. d \in Table("documents") /\ d \in DOMAIN rows /\ There(d)
    BY DEF Live, Table
  <2>2. MayWrite(cols, types[d])
    BY <1>1, <1>3, <2>1 DEF MayWrite
  <2>3. PICK old : old = rows[d] /\ old # Absent
    BY <2>1 DEF There, Absent
  <2>4. ASSUME NEW new, IsRow(new, DocumentTypes), Carries(new, cols, old), old \in DocumentRows,
               InOrder(old), old.status = "VERIFIED" => ~Expired(old)
        PROVE  new \in DocumentRows /\ InOrder(new) /\ (new.status = "VERIFIED" => ~Expired(new))
    <3>1. PICK row : row = Over(cols, old)
      OBVIOUS
    <3>2. InOrder(row) /\ (row.status = "VERIFIED" => ~Expired(row))
      BY <1>3, <2>3, <2>4, <3>1
    <3>3. {"from", "until", "status"} \subseteq DOMAIN old
      BY <2>4 DEF DocumentRows
    <3>4. new["from"] = row["from"] /\ new["until"] = row["until"] /\ new["status"] = row["status"]
      BY <2>4, <3>1, <3>3, CarriedOver
    <3>5. InOrder(new) /\ (new.status = "VERIFIED" => ~Expired(new))
      BY <3>2, <3>4 DEF InOrder, Expired
    <3> QED BY <2>4, <3>5, PersonnelRowsAre
  <2>5. \A new : /\ IsRow(new, types[d]) /\ Carries(new, cols, rows[d])
                 /\ rows[d] = Absent \/ rows[d] \in good[d]
                 => new \in good[d]
    BY <1>1, <2>1, <2>3, <2>4
  <2>6. Proper(Set(d, cols), types) /\ KeepsGood(Set(d, cols), types, good)
    BY <2>1, <2>2, <2>5, ProperSet, GoodSet
  <2> QED BY <1>2, <1>3, <2>6
<1>4. ASSUME NEW e \in Employees, NEW body \in DocumentBodies, DocumentInsert(s, e, body)
      PROVE  \E locked, w : Serves(s, locked, w, types, good)
  <2>1. PICK given, a : /\ given = Over([of |-> e, active |-> TRUE, status |-> "PENDING"], body)
                        /\ a = Insert("documents", given)
    OBVIOUS
  <2>2. Spare("documents") # {} /\ InOrder(body) /\ Stage(s, a)
    BY <1>4, <2>1 DEF DocumentInsert
  <2>3. /\ DOMAIN given = {"of", "active", "status", "from", "until"}
        /\ given.of = e /\ given.active = TRUE /\ given.status = "PENDING"
        /\ given.from = body.from /\ given.until = body.until
        /\ body.from \in Dates /\ body.until \in Dates
    BY <2>1 DEF Over, DocumentBodies
  <2>4. DOMAIN DocumentTypes = {"there"} \cup DOMAIN given
    BY <2>3, DocumentColumns
  <2>5. \A c \in DOMAIN given \ {"there"} : given[c] \in DocumentTypes[c]
    BY <2>3, DocumentColumns DEF VerificationStatuses
  <2>6. Proper(a, types)
    BY <1>1, <2>1, <2>2, <2>4, <2>5, ProperInsert
  <2>7. ASSUME NEW new, IsRow(new, DocumentTypes),
               \A c \in DOMAIN given \ {"there"} : new[c] = given[c]
        PROVE  new \in DocumentRows /\ InOrder(new) /\ new.status # "VERIFIED"
    BY <2>3, <2>7, <2>2, PersonnelRowsAre DEF InOrder
  <2>8. KeepsGood(a, types, good)
    BY <1>1, <2>1, <2>2, <2>7, GoodInsert
  <2> QED BY <1>2, <2>2, <2>6, <2>8
<1>5. CASE DocumentAdd(s) \/ DocumentUpload(s)
  BY <1>4, <1>5 DEF DocumentAdd, DocumentUpload
<1>6. CASE DocumentUpdate(s)
  <2>1. PICK d \in Live("documents"), body \in DocumentChanges :
            LET edited == Over(body, rows[d])
                lapsed == Expired(edited) /\ edited.status = "VERIFIED"
            IN /\ InOrder(edited)
               /\ Stage(s, Set(d, IF lapsed THEN Over([status |-> "EXPIRED"], body) ELSE body))
    BY <1>6 DEF DocumentUpdate
  <2>2. PICK edited, cols :
            /\ edited = Over(body, rows[d])
            /\ cols = IF Expired(edited) /\ edited.status = "VERIFIED"
                      THEN Over([status |-> "EXPIRED"], body) ELSE body
    OBVIOUS
  <2>3. InOrder(edited) /\ Stage(s, Set(d, cols))
    BY <2>1, <2>2
  <2>4. \/ DOMAIN body = {"from"} /\ body.from \in Dates
        \/ DOMAIN body = {"until"} /\ body.until \in Dates
    BY DEF DocumentChanges
  <2>5. \/ cols = body /\ ~(Expired(edited) /\ edited.status = "VERIFIED")
        \/ /\ DOMAIN cols = DOMAIN body \cup {"status"} /\ cols.status = "EXPIRED"
           /\ \A c \in DOMAIN body : cols[c] = body[c]
    BY <2>2, <2>4 DEF Over
  <2>6. /\ "there" \notin DOMAIN cols /\ DOMAIN cols \subseteq DOMAIN DocumentTypes
        /\ \A c \in DOMAIN cols : cols[c] \in DocumentTypes[c]
    BY <2>4, <2>5, DocumentColumns DEF VerificationStatuses
  <2>7. ASSUME NEW old, old = rows[d], old \in DocumentRows
        PROVE  /\ InOrder(Over(cols, old))
               /\ Over(cols, old).status = "VERIFIED" => ~Expired(Over(cols, old))
    BY <2>2, <2>3, <2>7, <2>4, <2>5 DEF DocumentRows, Over, InOrder
  <2> QED BY <1>3, <2>3, <2>6, <2>7
<1>7. CASE DocumentVerify(s) \/ DocumentReject(s) \/ DocumentArchive(s)
  <2>1. PICK d \in Live("documents") :
            \E cols \in {[status |-> "VERIFIED"], [status |-> "REJECTED"], [active |-> FALSE]} :
                /\ cols = [status |-> "VERIFIED"] => ~Expired(rows[d])
                /\ Stage(s, Set(d, cols))
    BY <1>7 DEF DocumentVerify, DocumentReject, DocumentArchive
  <2>2. PICK cols \in {[status |-> "VERIFIED"], [status |-> "REJECTED"], [active |-> FALSE]} :
            /\ cols = [status |-> "VERIFIED"] => ~Expired(rows[d])
            /\ Stage(s, Set(d, cols))
    BY <2>1
  <2>3. \/ DOMAIN cols = {"status"} /\ cols.status = "VERIFIED" /\ ~Expired(rows[d])
        \/ DOMAIN cols = {"status"} /\ cols.status = "REJECTED"
        \/ DOMAIN cols = {"active"} /\ cols.active = FALSE
    BY <2>2
  <2>4. /\ "there" \notin DOMAIN cols /\ DOMAIN cols \subseteq DOMAIN DocumentTypes
        /\ \A c \in DOMAIN cols : cols[c] \in DocumentTypes[c]
    BY <2>3, DocumentColumns DEF VerificationStatuses
  <2>5. ASSUME NEW old, old = rows[d], old \in DocumentRows, InOrder(old),
               old.status = "VERIFIED" => ~Expired(old)
        PROVE  /\ InOrder(Over(cols, old))
               /\ Over(cols, old).status = "VERIFIED" => ~Expired(Over(cols, old))
    BY <2>5, <2>3 DEF DocumentRows, Over, InOrder, Expired
  <2> QED BY <1>3, <2>2, <2>4, <2>5
<1> QED BY <1>5, <1>6, <1>7 DEF DocumentStep

\* those about qualifications, training and licences,
LEMMA PaperServes ==
    ASSUME NEW types, NEW good, PersonnelFits(types, good), NEW name \in PaperTables, desk = name,
           NEW s \in Sessions,
           \/ PaperCreate(s, name) \/ PaperUpdate(s, name)
           \/ \E q \in Live(name) : Stage(s, Set(q, [active |-> FALSE]))
    PROVE  \E locked, writes : Serves(s, locked, writes, types, good)
<1>1. /\ \A r \in Table(name) :
            r \in DOMAIN rows /\ types[r] = PaperTypes
            /\ good[r] = {x \in PaperRows : InOrder(x) /\ Owned(x.doc, x.of)}
      /\ \A r \in Table(name) : r[2] \in Nat
      /\ Shape /\ Typed(types)
  BY PersonnelTyping, PersonnelGoods, PersonnelNumbers DEF PersonnelFits, Table
<1>2. ASSUME NEW writes, Proper(writes, types), KeepsGood(writes, types, good), Stage(s, writes),
             OnlyIn(name, writes)
      PROVE  \E locked, w : Serves(s, locked, w, types, good)
  BY <1>2, ReferredAre DEF OnlyIn, PaperTables, Serves, Stage
<1>3. ASSUME NEW p \in Live(name), NEW cols, "there" \notin DOMAIN cols, "of" \notin DOMAIN cols,
             DOMAIN cols \subseteq DOMAIN PaperTypes,
             \A c \in DOMAIN cols : cols[c] \in PaperTypes[c],
             \/ DOMAIN cols \cap {"from", "until"} = {}
             \/ InOrder(Over(cols, rows[p])),
             "doc" \in DOMAIN cols => Owned(cols.doc, rows[p].of),
             Stage(s, Set(p, cols))
      PROVE  \E locked, w : Serves(s, locked, w, types, good)
  <2>1. p \in Table(name) /\ p \in DOMAIN rows /\ There(p)
    BY DEF Live, Table
  <2>2. MayWrite(cols, types[p])
    BY <1>1, <1>3, <2>1 DEF MayWrite
  <2>3. PICK old : old = rows[p] /\ old # Absent
    BY <2>1 DEF There, Absent
  <2>4. ASSUME NEW new, IsRow(new, PaperTypes), Carries(new, cols, old), old \in PaperRows,
               InOrder(old), Owned(old.doc, old.of)
        PROVE  new \in PaperRows /\ InOrder(new) /\ Owned(new.doc, new.of)
    <3>1. {"from", "until", "doc", "of"} \subseteq DOMAIN old
      BY <2>4 DEF PaperRows
    <3>2. InOrder(new)
      BY <2>4, <3>1, CarriedOver, <1>3, <2>3 DEF Carries, InOrder
    <3>3. new["of"] = old["of"]
      BY <1>3, <2>4, <3>1 DEF Carries
    <3>4. new["doc"] = old["doc"]
          \/ ("doc" \in DOMAIN cols /\ new["doc"] = cols["doc"])
      BY <2>4, <3>1 DEF Carries
    <3>5. Owned(new.doc, new.of)
      BY <1>3, <2>3, <2>4, <3>3, <3>4
    <3> QED BY <2>4, <3>2, <3>5, PersonnelRowsAre
  <2>5. \A new : /\ IsRow(new, types[p]) /\ Carries(new, cols, rows[p])
                 /\ rows[p] = Absent \/ rows[p] \in good[p]
                 => new \in good[p]
    BY <1>1, <2>1, <2>3, <2>4
  <2>6. Proper(Set(p, cols), types) /\ KeepsGood(Set(p, cols), types, good)
    BY <2>1, <2>2, <2>5, ProperSet, GoodSet
  <2> QED BY <1>2, <1>3, <2>1, <2>6, OneTable
<1>4. CASE PaperCreate(s, name)
  <2>1. PICK e \in Employees, body \in PaperBodies :
            /\ Spare(name) # {} /\ InOrder(body) /\ Owned(body.doc, e)
            /\ Stage(s, Insert(name, Over([of |-> e, active |-> TRUE], body)))
    BY <1>4 DEF PaperCreate
  <2>2. PICK given, a : given = Over([of |-> e, active |-> TRUE], body) /\ a = Insert(name, given)
    OBVIOUS
  <2>3. /\ DOMAIN given = {"of", "active", "from", "until", "doc"}
        /\ given.of = e /\ given.active = TRUE
        /\ given.from = body.from /\ given.until = body.until /\ given.doc = body.doc
        /\ body.from \in Dates /\ body.until \in Dates
        /\ body.doc \in {NoRef} \cup Table("documents")
    BY <2>2 DEF Over, PaperBodies
  <2>4. DOMAIN PaperTypes = {"there"} \cup DOMAIN given
    BY <2>3, PaperColumns
  <2>5. \A c \in DOMAIN given \ {"there"} : given[c] \in PaperTypes[c]
    BY <2>3, PaperColumns
  <2>6. Proper(a, types)
    BY <1>1, <2>1, <2>2, <2>4, <2>5, ProperInsert
  <2>7. ASSUME NEW new, IsRow(new, PaperTypes),
               \A c \in DOMAIN given \ {"there"} : new[c] = given[c]
        PROVE  new \in PaperRows /\ InOrder(new) /\ Owned(new.doc, new.of)
    BY <2>3, <2>7, <2>1, PersonnelRowsAre DEF InOrder
  <2>8. KeepsGood(a, types, good)
    BY <1>1, <2>1, <2>2, <2>7, GoodInsert
  <2>9. OnlyIn(name, a)
    BY <1>1, <2>1, <2>2, InsertsInto
  <2> QED BY <1>2, <2>1, <2>2, <2>6, <2>8, <2>9
<1>5. CASE PaperUpdate(s, name)
  BY <1>5, PaperColumns, <1>3 DEF PaperUpdate, PaperChanges
<1>6. CASE \E q \in Live(name) : Stage(s, Set(q, [active |-> FALSE]))
  <2>1. PICK cols : cols = [active |-> FALSE]
    OBVIOUS
  <2>2. PICK q \in Live(name) : Stage(s, Set(q, cols))
    BY <1>6, <2>1
  <2>3. DOMAIN cols = {"active"} /\ cols.active = FALSE
    BY <2>1
  <2>4. /\ "there" \notin DOMAIN cols /\ "of" \notin DOMAIN cols
        /\ DOMAIN cols \subseteq DOMAIN PaperTypes
        /\ \A c \in DOMAIN cols : cols[c] \in PaperTypes[c]
        /\ DOMAIN cols \cap {"from", "until"} = {} /\ "doc" \notin DOMAIN cols
    BY <2>3, PaperColumns
  <2> QED BY <1>3, <2>2, <2>4
<1> QED BY <1>4, <1>5, <1>6

\* Of skills, departments and positions nothing is asked but that they are rows.
LEMMA PlainServes ==
    ASSUME NEW types, NEW good, PersonnelFits(types, good), desk \in {"skills", "structure"},
           NEW s \in Sessions, NEW writes, Proper(writes, types), Stage(s, writes)
    PROVE  \E locked, w : Serves(s, locked, w, types, good)
<1>1. DOMAIN rows = PersonnelIds /\ DOMAIN writes \subseteq DOMAIN rows
  BY DEF PersonnelFits, Proper
<1>2. ASSUME NEW r \in DOMAIN rows, NEW new, IsRow(new, types[r])
      PROVE  new \in good[r]
  <2>1. r \in Table(r[1])
    BY DEF Table
  <2>2. r[1] \in PersonnelTables[desk]
    BY <1>1, Zenon DEF PersonnelIds
  <2>3. CASE desk = "skills"
    <3>1. r[1] \in {"skills", "skill links"}
      BY <2>2, <2>3, Zenon DEF PersonnelTables
    <3>2. CASE r[1] = "skills"
      BY <1>2, <2>1, <3>2, PersonnelTyping, PersonnelGoods, PersonnelRowsAre DEF PersonnelFits
    <3>3. CASE r[1] = "skill links"
      <4>1. types[r] = LinkTypes /\ good[r] = SkillLinkRows
        BY <2>1, <3>3, LinkTyping, LinkGoods, Zenon DEF PersonnelFits
      <4> QED BY <1>2, <4>1, PersonnelRowsAre
    <3> QED BY <3>1, <3>2, <3>3, Zenon
  <2>4. CASE desk = "structure"
    <3>1. r[1] \in {"departments", "positions"}
      BY <2>2, <2>4, Zenon DEF PersonnelTables
    <3> QED BY <1>2, <2>1, <3>1, PersonnelTyping, PersonnelGoods, PersonnelRowsAre
         DEF PersonnelFits
  <2> QED BY <2>3, <2>4
<1>3. KeepsGood(writes, types, good)
  BY <1>1, <1>2 DEF KeepsGood
<1>4. \A r : ~Referred(r)
  BY ReferredAre DEF PaperTables
<1>5. Serves(s, {}, writes, types, good)
  BY <1>3, <1>4 DEF Serves, Stage
<1> QED BY <1>5

\* those about skills,
LEMMA SkillServes ==
    ASSUME NEW types, NEW good, PersonnelFits(types, good), desk = "skills",
           NEW s \in Sessions, SkillStep(s)
    PROVE  \E locked, writes : Serves(s, locked, writes, types, good)
<1>1. PICK links : links = "skill links"
  OBVIOUS
<1>2. /\ \A r \in Table("skills") : r \in DOMAIN rows /\ types[r] = SkillTypes
      /\ \A r \in Table("skills") : r[2] \in Nat
      /\ Shape /\ Typed(types)
  BY PersonnelTyping, PersonnelNumbers DEF PersonnelFits, Table
<1>3. /\ \A r \in Table(links) : r \in DOMAIN rows /\ types[r] = LinkTypes
      /\ \A r \in Table(links) : r[2] \in Nat
  <2>1. \A r \in Table(links) : types[r] = LinkTypes
    BY <1>1, LinkTyping, Zenon DEF PersonnelFits
  <2> QED BY <2>1, PersonnelNumbers DEF PersonnelFits, Table
<1>4. CASE SkillCreate(s)
  <2>1. PICK n \in Names : /\ Spare("skills") # {}
                           /\ Stage(s, Insert("skills", [name |-> n, active |-> TRUE]))
    BY <1>4 DEF SkillCreate
  <2>2. PICK given : given = [name |-> n, active |-> TRUE]
    OBVIOUS
  <2>3. DOMAIN given = {"name", "active"} /\ given.name = n /\ given.active = TRUE
    BY <2>2
  <2>4. DOMAIN SkillTypes = {"there"} \cup DOMAIN given
    BY <2>3, SkillColumns
  <2>5. \A c \in DOMAIN given \ {"there"} : given[c] \in SkillTypes[c]
    BY <2>3, SkillColumns
  <2>6. Proper(Insert("skills", given), types)
    BY <1>2, <2>1, <2>4, <2>5, ProperInsert
  <2> QED BY <2>1, <2>2, <2>6, PlainServes
<1>5. CASE SkillUpdate(s)
  BY <1>5, SkillColumns, <1>2, ProperSet, PlainServes DEF SkillUpdate, MayWrite, Live
<1>6. CASE SkillAssign(s)
  <2>1. PICK e \in Employees, k \in Live("skills") :
            /\ Spare(links) # {}
            /\ Stage(s, Insert(links, [of |-> e, skill |-> k, level |-> 1]))
    BY <1>1, <1>6, Zenon DEF SkillAssign
  <2>2. PICK given : given = [of |-> e, skill |-> k, level |-> 1]
    OBVIOUS
  <2>3. /\ DOMAIN given = {"of", "skill", "level"}
        /\ given.of = e /\ given.skill = k /\ given.level = 1 /\ k \in Table("skills")
    BY <2>2 DEF Live
  <2>4. DOMAIN LinkTypes = {"there"} \cup DOMAIN given
    BY <2>3, LinkColumns
  <2>5. \A c \in DOMAIN given \ {"there"} : given[c] \in LinkTypes[c]
    BY <2>3, LinkColumns
  <2>6. Proper(Insert(links, given), types)
    BY <1>2, <1>3, <2>1, <2>4, <2>5, ProperInsert
  <2> QED BY <2>1, <2>2, <2>6, PlainServes
<1>7. CASE SkillUpdateLink(s)
  <2>1. PICK l \in Live(links), v \in 1..2 : Stage(s, Set(l, [level |-> v]))
    BY <1>1, <1>7, Zenon DEF SkillUpdateLink
  <2>2. PICK cols : cols = [level |-> v]
    OBVIOUS
  <2>3. DOMAIN cols = {"level"} /\ cols.level = v
    BY <2>2
  <2>4. MayWrite(cols, LinkTypes)
    BY <2>3, LinkColumns DEF MayWrite
  <2>5. Proper(Set(l, cols), types)
    BY <1>3, <2>4, ProperSet DEF Live
  <2> QED BY <2>1, <2>2, <2>5, PlainServes
<1>8. CASE SkillUnlink(s)
  <2>1. PICK l \in Live(links) : Stage(s, Set(l, Absent))
    BY <1>1, <1>8, Zenon DEF SkillUnlink
  <2>2. MayWrite(Absent, LinkTypes)
    BY DEF MayWrite, Absent
  <2>3. Proper(Set(l, Absent), types)
    BY <1>3, <2>2, ProperSet DEF Live
  <2> QED BY <2>1, <2>3, PlainServes
<1> QED BY <1>4, <1>5, <1>6, <1>7, <1>8 DEF SkillStep

\* and those about departments and positions.
LEMMA StructureServes ==
    ASSUME NEW types, NEW good, PersonnelFits(types, good), desk = "structure",
           NEW s \in Sessions, StructureStep(s)
    PROVE  \E locked, writes : Serves(s, locked, writes, types, good)
<1>1. /\ \A r \in Table("departments") : r \in DOMAIN rows /\ types[r] = DepartmentTypes
      /\ \A r \in Table("departments") : r[2] \in Nat
      /\ \A r \in Table("positions") : r \in DOMAIN rows /\ types[r] = PositionTypes
      /\ \A r \in Table("positions") : r[2] \in Nat
      /\ Shape /\ Typed(types)
  BY PersonnelTyping, PersonnelNumbers DEF PersonnelFits, Table
<1>2. CASE DepartmentCreate(s)
  <2>1. PICK n \in Names, p \in {NoRef} \cup Table("departments") :
            /\ Spare("departments") # {}
            /\ Stage(s, Insert("departments", [name |-> n, active |-> TRUE, parent |-> p]))
    BY <1>2 DEF DepartmentCreate
  <2>2. PICK given : given = [name |-> n, active |-> TRUE, parent |-> p]
    OBVIOUS
  <2>3. /\ DOMAIN given = {"name", "active", "parent"}
        /\ given.name = n /\ given.active = TRUE /\ given.parent = p
    BY <2>2
  <2>4. DOMAIN DepartmentTypes = {"there"} \cup DOMAIN given
    BY <2>3, DepartmentColumns
  <2>5. \A c \in DOMAIN given \ {"there"} : given[c] \in DepartmentTypes[c]
    BY <2>3, DepartmentColumns
  <2>6. Proper(Insert("departments", given), types)
    BY <1>1, <2>1, <2>4, <2>5, ProperInsert
  <2> QED BY <2>1, <2>2, <2>6, PlainServes
<1>3. CASE DepartmentUpdate(s)
  <2>1. PICK d \in Live("departments"),
             body \in [name : Names] \cup [parent : {NoRef} \cup Table("departments")] :
            Stage(s, Set(d, body))
    BY <1>3 DEF DepartmentUpdate
  <2>2. \/ DOMAIN body = {"name"} /\ body.name \in Names
        \/ DOMAIN body = {"parent"} /\ body.parent \in {NoRef} \cup Table("departments")
    OBVIOUS
  <2>3. MayWrite(body, DepartmentTypes)
    BY <2>2, DepartmentColumns DEF MayWrite
  <2>4. Proper(Set(d, body), types)
    BY <1>1, <2>3, ProperSet DEF Live
  <2> QED BY <2>1, <2>4, PlainServes
<1>4. CASE PositionCreate(s)
  <2>1. PICK n \in Names, d \in {NoRef} \cup Table("departments") :
            /\ Spare("positions") # {}
            /\ Stage(s, Insert("positions", [name |-> n, active |-> TRUE, department |-> d]))
    BY <1>4 DEF PositionCreate
  <2>2. PICK given : given = [name |-> n, active |-> TRUE, department |-> d]
    OBVIOUS
  <2>3. /\ DOMAIN given = {"name", "active", "department"}
        /\ given.name = n /\ given.active = TRUE /\ given.department = d
    BY <2>2
  <2>4. DOMAIN PositionTypes = {"there"} \cup DOMAIN given
    BY <2>3, PositionColumns
  <2>5. \A c \in DOMAIN given \ {"there"} : given[c] \in PositionTypes[c]
    BY <2>3, PositionColumns
  <2>6. Proper(Insert("positions", given), types)
    BY <1>1, <2>1, <2>4, <2>5, ProperInsert
  <2> QED BY <2>1, <2>2, <2>6, PlainServes
<1>5. CASE PositionUpdate(s)
  <2>1. PICK q \in Live("positions"),
             body \in [name : Names] \cup [department : {NoRef} \cup Table("departments")] :
            Stage(s, Set(q, body))
    BY <1>5 DEF PositionUpdate
  <2>2. \/ DOMAIN body = {"name"} /\ body.name \in Names
        \/ DOMAIN body = {"department"} /\ body.department \in {NoRef} \cup Table("departments")
    OBVIOUS
  <2>3. MayWrite(body, PositionTypes)
    BY <2>2, PositionColumns DEF MayWrite
  <2>4. Proper(Set(q, body), types)
    BY <1>1, <2>3, ProperSet DEF Live
  <2> QED BY <2>1, <2>4, PlainServes
<1> QED BY <1>2, <1>3, <1>4, <1>5 DEF StructureStep

\* The invariant of these desks.
PersonnelInv ==
    /\ PersonnelFits(PersonnelTypes, PersonnelGood)
    /\ \A s \in Sessions : \A r \in DOMAIN open[s].writes : ~Referred(r)

\* Which tables a desk has.
LEMMA PersonnelNames ==
    ASSUME desk \in DOMAIN PersonnelTables, DOMAIN rows = PersonnelIds, NEW r \in DOMAIN rows
    PROVE  /\ r[1] = "contacts" => desk = "contacts"
           /\ r[1] \in PaperTables => desk \in PaperTables
           /\ r[1] \in {"family", "contacts", "resumes", "documents", "skills", "departments",
                        "positions", "skill links"} \cup PaperTables
<1>1. r[1] \in PersonnelTables[desk]
  BY DEF PersonnelIds
<1>2. CASE desk = "family"
  BY <1>1, <1>2, Zenon DEF PersonnelTables, PaperTables
<1>12. CASE desk = "dependency"
  BY <1>1, <1>12, Zenon DEF PersonnelTables, PaperTables
<1>3. CASE desk = "contacts"
  BY <1>1, <1>3, Zenon DEF PersonnelTables, PaperTables
<1>4. CASE desk = "resumes"
  BY <1>1, <1>4, Zenon DEF PersonnelTables, PaperTables
<1>5. CASE desk = "documents"
  BY <1>1, <1>5, Zenon DEF PersonnelTables, PaperTables
<1>6. CASE desk = "qualifications"
  BY <1>1, <1>6, Zenon DEF PersonnelTables, PaperTables
<1>7. CASE desk = "training"
  BY <1>1, <1>7, Zenon DEF PersonnelTables, PaperTables
<1>8. CASE desk = "licences"
  BY <1>1, <1>8, Zenon DEF PersonnelTables, PaperTables
<1>9. CASE desk = "skills"
  BY <1>1, <1>9, Zenon DEF PersonnelTables, PaperTables
<1>10. CASE desk = "structure"
  BY <1>1, <1>10, Zenon DEF PersonnelTables, PaperTables
<1>11. desk \in {"family", "dependency", "contacts", "resumes", "documents", "qualifications",
                 "training", "licences", "skills", "structure"}
  BY Zenon DEF PersonnelTables
<1> QED BY <1>2, <1>3, <1>4, <1>5, <1>6, <1>7, <1>8, <1>9, <1>10, <1>11, <1>12, Zenon

\* As long as the rows a desk refers to stay, so do its types and what is good.
LEMMA StillGood ==
    ASSUME desk \in DOMAIN PersonnelTables, DOMAIN rows = PersonnelIds,
           desk' = desk, DOMAIN rows' = DOMAIN rows,
           \A r \in DOMAIN rows : Referred(r) => rows'[r] = rows[r]
    PROVE  PersonnelTypes' = PersonnelTypes /\ PersonnelGood' = PersonnelGood
<1>1. \A name : Table(name)' = Table(name)
  BY DEF Table
<1>2. /\ FamilyTypes' = FamilyTypes /\ ContactTypes' = ContactTypes
      /\ ResumeTypes' = ResumeTypes /\ DocumentTypes' = DocumentTypes
      /\ PaperTypes' = PaperTypes /\ SkillTypes' = SkillTypes /\ LinkTypes' = LinkTypes
      /\ DepartmentTypes' = DepartmentTypes /\ PositionTypes' = PositionTypes
      /\ PaperTables' = PaperTables
  BY <1>1 DEF FamilyTypes, ContactTypes, ResumeTypes, DocumentTypes, PaperTypes, SkillTypes,
     LinkTypes, DepartmentTypes, PositionTypes, PaperTables
<1>3. PersonnelTypes' = PersonnelTypes
  BY <1>2 DEF PersonnelTypes
<1>4. /\ FamilyRows' = FamilyRows /\ ContactRows' = ContactRows
      /\ ResumeRows' = ResumeRows /\ DocumentRows' = DocumentRows
      /\ PaperRows' = PaperRows /\ SkillRows' = SkillRows /\ SkillLinkRows' = SkillLinkRows
      /\ DepartmentRows' = DepartmentRows /\ PositionRows' = PositionRows
  BY <1>1 DEF FamilyRows, ContactRows, ResumeRows, DocumentRows, PaperRows, SkillRows,
     SkillLinkRows, DepartmentRows, PositionRows
<1>5. ASSUME NEW name, \A q \in Table(name) : rows'[q] = rows[q],
             NEW ref \in {NoRef} \cup Table(name), NEW e
      PROVE  Owned(ref, e)' = Owned(ref, e)
  BY <1>5 DEF Owned, There
<1>6. ASSUME desk = "contacts"
      PROVE  {x \in ContactRows : Owned(x.member, x.of)}'
                = {x \in ContactRows : Owned(x.member, x.of)}
  <2>1. \A q \in Table("family") : rows'[q] = rows[q]
    BY <1>6, ReferredAre DEF Table
  <2>2. \A x \in ContactRows : x.member \in {NoRef} \cup Table("family")
    BY DEF ContactRows
  <2>3. \A x \in ContactRows : Owned(x.member, x.of)' = Owned(x.member, x.of)
    BY <1>5, <2>1, <2>2
  <2> QED BY <1>4, <2>3
<1>7. ASSUME desk \in PaperTables
      PROVE  {x \in PaperRows : InOrder(x) /\ Owned(x.doc, x.of)}'
                = {x \in PaperRows : InOrder(x) /\ Owned(x.doc, x.of)}
  <2>1. \A q \in Table("documents") : rows'[q] = rows[q]
    BY <1>7, ReferredAre DEF Table
  <2>2. \A x \in PaperRows : x.doc \in {NoRef} \cup Table("documents")
    BY DEF PaperRows
  <2>3. \A x \in PaperRows : Owned(x.doc, x.of)' = Owned(x.doc, x.of)
    BY <1>5, <2>1, <2>2
  <2> QED BY <1>4, <2>3
<1>8. ASSUME NEW r \in DOMAIN rows
      PROVE  (PersonnelGood[r])' = PersonnelGood[r]
  BY PersonnelNames, <1>6, <1>2, <1>7, <1>4 DEF PersonnelGood, PaperTables
<1>9. PersonnelGood' = PersonnelGood
  BY <1>8 DEF PersonnelGood
<1> QED BY <1>3, <1>9

\* Every table says that its rows are there.
LEMMA PersonnelThere ==
    ASSUME NEW r \in DOMAIN rows
    PROVE  "there" \in DOMAIN PersonnelTypes[r] /\ PersonnelTypes[r].there = {TRUE}
  BY FamilyColumns, ContactColumns, ResumeColumns, DocumentColumns, PaperColumns,
     SkillColumns, LinkColumns, DepartmentColumns, PositionColumns DEF PersonnelTypes

\* The first rows are good,
LEMMA PersonnelBegins == PersonnelInit => PersonnelInv
<1> SUFFICES ASSUME PersonnelInit PROVE PersonnelInv
  OBVIOUS
<1>1. /\ desk \in DOMAIN PersonnelTables /\ DOMAIN rows = PersonnelIds /\ StoreInit
      /\ rows = [r \in DOMAIN rows |-> rows[r]]
  BY DEF PersonnelInit
<1>2. PICK types, good : types = PersonnelTypes /\ good = PersonnelGood
  OBVIOUS
<1>3. ASSUME NEW r \in DOMAIN rows
      PROVE  \/ rows[r] = Absent
             \/ There(r) /\ IsRow(rows[r], types[r]) /\ rows[r] \in good[r]
  <2>1. PICK owner \in [Numbers -> Employees] :
            rows[r] = IF Referred(r)
                      THEN Over(IF r[1] = "family"
                                THEN [dependent |-> FALSE, kin |-> FALSE, primary |-> FALSE]
                                ELSE [status |-> "PENDING"], FirstRow(owner[r[2]]))
                      ELSE Absent
    BY <1>1 DEF PersonnelInit, Referred
  <2>2. r[2] \in Numbers
    BY <1>1 DEF PersonnelIds
  <2>3. PICK e \in Employees : e = owner[r[2]]
    BY <2>1, <2>2
  <2>4. CASE ~Referred(r)
    BY <2>1, <2>4
  <2>5. CASE Referred(r) /\ r[1] = "family"
    <3>1. PICK row : row = Over([dependent |-> FALSE, kin |-> FALSE, primary |-> FALSE],
                                FirstRow(e))
      OBVIOUS
    <3>2. rows[r] = row
      BY <2>1, <2>3, <2>5, <3>1
    <3>3. r \in Table("family")
      BY <2>5 DEF Table
    <3>4. types[r] = FamilyTypes /\ good[r] = {x \in FamilyRows : InOrder(x)}
      BY <1>2, <3>3, PersonnelTyping, PersonnelGoods
    <3>5. /\ row = [c \in DOMAIN row |-> row[c]]
          /\ DOMAIN row = {"there", "of", "active", "dependent", "kin", "primary", "from", "until"}
          /\ row.there = TRUE /\ row.of = e /\ row.active = TRUE /\ row.dependent = FALSE
          /\ row.kin = FALSE /\ row.primary = FALSE /\ row.from = NoDay /\ row.until = NoDay
      BY <3>1 DEF Over, FirstRow
    <3>6. IsRow(row, FamilyTypes)
      BY <3>5, FamilyColumns DEF IsRow, Dates
    <3>7. row \in FamilyRows /\ InOrder(row)
      BY <3>5, <3>6, PersonnelRowsAre DEF InOrder
    <3> QED BY <3>2, <3>4, <3>5, <3>6, <3>7 DEF There
  <2>6. CASE Referred(r) /\ r[1] # "family"
    <3>1. PICK row : row = Over([status |-> "PENDING"], FirstRow(e))
      OBVIOUS
    <3>2. rows[r] = row
      BY <2>1, <2>3, <2>6, <3>1
    <3>3. r \in Table("documents")
      BY <2>6, ReferredAre DEF Table
    <3>4. /\ types[r] = DocumentTypes
          /\ good[r] = {x \in DocumentRows : InOrder(x) /\ (x.status = "VERIFIED" => ~Expired(x))}
      BY <1>2, <3>3, PersonnelTyping, PersonnelGoods
    <3>5. /\ row = [c \in DOMAIN row |-> row[c]]
          /\ DOMAIN row = {"there", "of", "active", "from", "until", "status"}
          /\ row.there = TRUE /\ row.of = e /\ row.active = TRUE /\ row.status = "PENDING"
          /\ row.from = NoDay /\ row.until = NoDay
      BY <3>1 DEF Over, FirstRow
    <3>6. IsRow(row, DocumentTypes)
      BY <3>5, DocumentColumns DEF IsRow, Dates, VerificationStatuses
    <3>7. row \in DocumentRows /\ InOrder(row) /\ row.status # "VERIFIED"
      BY <3>5, <3>6, PersonnelRowsAre DEF InOrder
    <3> QED BY <3>2, <3>4, <3>5, <3>6, <3>7 DEF There
  <2> QED BY <2>4, <2>5, <2>6
<1>4. Shape /\ \A s \in Sessions : DOMAIN open[s].writes = {}
  BY <1>1, <1>3, InitShape
<1>5. Typed(types)
  BY <1>1, <1>2, <1>3, PersonnelThere, TypedStarts
<1>6. StayGood(good)
  BY <1>1, <1>3, <1>4, GoodStarts DEF AllGood
<1>7. PersonnelFits(types, good)
  BY <1>1, <1>2, <1>4, <1>5, <1>6 DEF PersonnelFits
<1> QED BY <1>2, <1>4, <1>7 DEF PersonnelInv

\* every handler serves,
LEMMA PersonnelServes ==
    ASSUME NEW types, NEW good, PersonnelFits(types, good), NEW s \in Sessions, PersonnelStep(s)
    PROVE  \E locked, writes : Serves(s, locked, writes, types, good)
  BY FamilyServes, ContactServes, ResumeServes, DocumentServes, PaperServes, SkillServes,
     StructureServes DEF PaperTables, QualificationStep, QualificationCreate,
     QualificationUpdate, QualificationArchive, TrainingStep, TrainingCreate, TrainingUpdate,
     LicenceStep, LicenceCreate, LicenceUpdate, PersonnelStep

\* and every step keeps them good.
LEMMA PersonnelGoesOn == PersonnelInv /\ [PersonnelNext]_storeVars => PersonnelInv'
<1> SUFFICES ASSUME PersonnelInv, [PersonnelNext]_storeVars PROVE PersonnelInv'
  OBVIOUS
<1>1. PICK types, good : types = PersonnelTypes /\ good = PersonnelGood
  OBVIOUS
<1>2. /\ PersonnelFits(types, good) /\ Shape /\ desk \in DOMAIN PersonnelTables
      /\ DOMAIN rows = PersonnelIds /\ Typed(types) /\ StayGood(good)
  BY <1>1 DEF PersonnelInv, PersonnelFits
<1>3. ASSUME Shape', desk' = desk, DOMAIN rows' = DOMAIN rows, Typed(types)', StayGood(good)',
             \A r \in DOMAIN rows : Referred(r) => rows'[r] = rows[r],
             \A s \in Sessions : \A r \in DOMAIN open'[s].writes : ~Referred(r)
      PROVE  PersonnelInv'
  BY <1>1, <1>2, <1>3, StillGood DEF PersonnelIds, PersonnelTables, Referred, PersonnelInv,
     PersonnelFits
<1>4. ASSUME NEW s \in Sessions, PersonnelStep(s) PROVE PersonnelInv'
  BY <1>2, <1>4, PersonnelServes, ServedFits, StageShape, <1>3 DEF Serves, Proper,
     PersonnelInv, OthersStay
<1>5. ASSUME NEW s \in Sessions, PersonnelCommit(s) PROVE PersonnelInv'
  BY <1>5, <1>2, TypedCommits, GoodCommits, CommitShape, <1>3 DEF PersonnelCommit,
     PersonnelInv, OthersStay
<1>6. ASSUME NEW s \in Sessions, Abort(s) PROVE PersonnelInv'
  BY <1>2, <1>6, TypedAborts, GoodAborts, AbortShape, <1>3 DEF PersonnelInv, OthersStay
<1>7. CASE UNCHANGED storeVars
  BY <1>2, <1>7, TypedStutters, GoodStutters, StutterShape, <1>3 DEF storeVars, PersonnelInv
<1> QED BY <1>4, <1>5, <1>6, <1>7 DEF PersonnelNext

\* What they say of each table.
LEMMA PersonnelSays ==
    ASSUME PersonnelInv
    PROVE  /\ PersonnelTypeOK
           /\ torn \/
              /\ \A r \in Live("resumes") : rows[r].current => rows[r].active
              /\ \A t \in {"family", "documents", "qualifications", "training", "licences"} :
                     \A r \in Live(t) : InOrder(rows[r])
              /\ \A d \in Live("documents") :
                     "status" \in DOMAIN rows[d] /\ rows[d].status = "VERIFIED"
                         => ~Expired(rows[d])
              /\ \A c \in Live("contacts") : Owned(rows[c].member, rows[c].of)
              /\ \A t \in {"qualifications", "training", "licences"} :
                     \A r \in Live(t) : Owned(rows[r].doc, rows[r].of)
<1>1. PICK types, good : types = PersonnelTypes /\ good = PersonnelGood
  OBVIOUS
<1>2. /\ desk \in DOMAIN PersonnelTables /\ DOMAIN rows = PersonnelIds
      /\ Typed(types) /\ StayGood(good)
  BY <1>1 DEF PersonnelInv, PersonnelFits
<1>3. ASSUME NEW name, NEW r \in Live(name)
      PROVE  r \in Table(name) /\ IsRow(rows[r], types[r]) /\ (torn \/ rows[r] \in good[r])
  <2>1. r \in DOMAIN rows /\ r \in Table(name) /\ rows[r] # Absent
    BY <1>3 DEF Live, Table, There, Absent
  <2>2. torn \in BOOLEAN
    BY <1>2 DEF Typed
  <2> QED BY <1>2, <2>1, <2>2 DEF Typed, StayGood, AllGood
<1>4. PersonnelTypeOK
  <2>1. PICK links : links = "skill links"
    OBVIOUS
  <2>2. ASSUME NEW r \in DOMAIN rows, There(r)
        PROVE  /\ r[1] = links => rows[r] \in SkillLinkRows
               /\ r[1] # links => rows[r] \in PersonnelRows[r[1]]
    <3>1. r \in Live(r[1])
      BY <2>2 DEF Live, Table
    <3>2. IsRow(rows[r], types[r]) /\ r \in Table(r[1])
      BY <1>3, <3>1
    <3>3. r[1] = links => types[r] = LinkTypes
      BY <1>1, <2>1, <3>2, LinkTyping
    <3>4. r[1] = links => rows[r] \in SkillLinkRows
      BY <3>2, <3>3, PersonnelRowsAre
    <3>5. r[1] = links \/ r[1] \in {"family", "contacts", "resumes", "documents", "skills",
                                    "departments", "positions"} \cup PaperTables
      BY <1>2, <2>1, PersonnelNames, Zenon
    <3>6. CASE r[1] \in {"family", "contacts", "resumes", "documents"}
      BY <1>1, <3>2, <3>6, PersonnelTyping, PersonnelRowsAre, <3>4 DEF PersonnelRows
    <3>7. CASE r[1] \in PaperTables
      BY <1>1, <3>2, <3>7, PersonnelTyping, PersonnelRowsAre, <3>4 DEF PersonnelRows,
         PaperTables
    <3>8. CASE r[1] \in {"skills", "departments", "positions"}
      BY <1>1, <3>2, <3>8, PersonnelTyping, PersonnelRowsAre, <3>4 DEF PersonnelRows
    <3> QED BY <3>4, <3>5, <3>6, <3>7, <3>8
  <2> QED BY <2>1, <2>2, Zenon DEF PersonnelTypeOK
<1>5. ASSUME ~torn
      PROVE  /\ \A r \in Live("resumes") : rows[r].current => rows[r].active
             /\ \A t \in {"family", "documents", "qualifications", "training", "licences"} :
                    \A r \in Live(t) : InOrder(rows[r])
             /\ \A d \in Live("documents") :
                    "status" \in DOMAIN rows[d] /\ rows[d].status = "VERIFIED"
                        => ~Expired(rows[d])
             /\ \A c \in Live("contacts") : Owned(rows[c].member, rows[c].of)
             /\ \A t \in {"qualifications", "training", "licences"} :
                    \A r \in Live(t) : Owned(rows[r].doc, rows[r].of)
  BY <1>1, <1>3, <1>5, PersonnelGoods DEF PaperTables
<1> QED BY <1>4, <1>5

-----------------------------------------------------------------------------
(* Promotions: flags that only one row of an employee carries. *)

PromotionDesks == {"family", "dependency", "contacts", "resumes"}
Flagged == {"family", "contacts", "resumes"}

\* A row of these tables says whom it is about and whether it has the flag.
Owners ==
    \A r \in DOMAIN rows : r[1] \in Flagged /\ There(r) =>
        "of" \in DOMAIN rows[r] /\ Flag(r[1]) \in DOMAIN rows[r]

\* Columns that set the flag of a row.
Promotes(r, cols) ==
    r[1] \in Flagged /\ Flag(r[1]) \in DOMAIN cols /\ cols[Flag(r[1])]

\* Where such columns are written nobody else of the employee keeps the flag.
Promises(writes, now) ==
    \A r \in DOMAIN writes : Promotes(r, writes[r]) =>
        \A q \in DOMAIN now :
            q[1] = r[1] /\ now[q].there /\ q # r /\ now[q].of = now[r].of
            => ~now[q][Flag(r[1])]

\* An insert says so too.
NamesOwner(s) ==
    \A r \in DOMAIN open[s].writes :
        r[1] \in Flagged /\ "there" \in DOMAIN open[s].writes[r]
            => "of" \in DOMAIN open[s].writes[r] /\ Flag(r[1]) \in DOMAIN open[s].writes[r]

\* An employee has one flagged row of a table at the most.
OneFlag(tab) ==
    \A r, q \in DOMAIN tab :
        /\ r[1] \in Flagged /\ q[1] = r[1] /\ tab[r].there /\ tab[q].there
        /\ tab[r].of = tab[q].of /\ tab[r][Flag(r[1])] /\ tab[q][Flag(r[1])]
        => r = q

\* Until somebody else commits, a request keeps its promise, and leaves one flag where
\* it found one; after that it is not fresh, and need not.
PromoInv ==
    /\ Shape /\ Told(rows)
    /\ desk \in PromotionDesks
    /\ DOMAIN rows = PersonnelIds
    /\ Owners
    /\ ~torn => OneFlag(rows)
    /\ \A s \in Sessions :
          /\ NamesOwner(s)
          /\ open[s].fresh => Promises(open[s].writes, After(s))
          /\ open[s].fresh /\ OneFlag(rows) => OneFlag(After(s))

\* Writes that keep the promise leave one flag where there was one, if a row that is
\* there stays the employee's and one that is inserted says what it is.
Belongs(r, cols) ==
    \/ There(r) /\ "of" \notin DOMAIN cols /\ "there" \notin DOMAIN cols
    \/ ~There(r) /\ "of" \in DOMAIN cols /\ Flag(r[1]) \in DOMAIN cols

LEMMA OneFlagKept ==
    ASSUME Shape, Told(rows), Owners, OneFlag(rows), NEW writes, NEW now,
           Laid(rows, now, writes), Promises(writes, now),
           \A r \in DOMAIN writes : r[1] \in Flagged => Belongs(r, writes[r])
    PROVE  OneFlag(now)
  BY DEF Laid, There, LaidRow, Absent, Promotes, Belongs, Owners, Promises, OneFlag

\* Once a session has committed, one that is still fresh has staged nothing.
LEMMA CommitFresh ==
    ASSUME Shape, NEW s \in Sessions, NEW accepted, Commit(s, accepted),
           NEW t \in Sessions, open'[t].fresh
    PROVE  DOMAIN open'[t].writes = {}
  BY DEF Commit, Shape, Idle

\* Rows say whether they are there, whoever commits on what.
LEMMA CommitTold ==
    ASSUME Shape, Told(rows), NEW s \in Sessions, NEW accepted, Commit(s, accepted)
    PROVE  Told(rows')
<1>1. /\ DOMAIN rows' = DOMAIN rows
      /\ \A r \in DOMAIN rows :
            /\ r \in DOMAIN open[s].writes => rows'[r] = Written(rows[r], open[s].writes[r])
            /\ r \notin DOMAIN open[s].writes => rows'[r] = rows[r]
  BY CommitShape
<1>2. ASSUME NEW old, "there" \in DOMAIN old, NEW cols
      PROVE  "there" \in DOMAIN Written(old, cols)
  BY <1>2 DEF Over, Written, Absent
<1> QED BY <1>1, <1>2 DEF Told

\* A handler keeps the invariant if its writes, laid over the rows, keep the promise.
LEMMA PromoStages ==
    ASSUME PromoInv, NEW s \in Sessions, NEW locked, NEW writes,
           DOMAIN writes \subseteq DOMAIN rows, StageLocked(s, locked, writes),
           \A r \in DOMAIN writes : r[1] \in Flagged => Belongs(r, writes[r]),
           \A now : Laid(rows, now, writes) => Promises(writes, now)
    PROVE  PromoInv'
<1>1. Shape /\ Told(rows)
  BY DEF PromoInv
<1>2. /\ Shape' /\ OthersStay(s) /\ UNCHANGED <<desk, rows, torn>>
      /\ DOMAIN open'[s].writes = {r \in DOMAIN writes : DOMAIN Dirty(r, writes[r]) # {}}
      /\ \A r \in DOMAIN open'[s].writes : open'[s].writes[r] = Dirty(r, writes[r])
  BY <1>1, StageShape
<1>3. \A r, cols : /\ DOMAIN Dirty(r, cols) \subseteq DOMAIN cols
                   /\ \A c \in DOMAIN Dirty(r, cols) : Dirty(r, cols)[c] = cols[c]
                   /\ \A c \in DOMAIN cols \ DOMAIN rows[r] : c \in DOMAIN Dirty(r, cols)
  BY DEF Dirty
<1>4. NamesOwner(s)'
  BY <1>2, <1>3, <1>1 DEF NamesOwner, Belongs, Shape, Absent, Flag
<1>5. /\ Promises(open'[s].writes, After(s)')
      /\ OneFlag(rows) => OneFlag(After(s)')
  BY <1>1, StagedLaid, <1>2, <1>3, OneFlagKept DEF Promotes, Promises, PromoInv
<1>6. \A t \in Sessions \ {s} : open'[t] = open[t] /\ After(t)' = After(t)
  BY <1>1, StageAfter
<1>7. ASSUME NEW t \in Sessions
      PROVE  /\ NamesOwner(t)'
             /\ open'[t].fresh => Promises(open'[t].writes, After(t)')
             /\ open'[t].fresh /\ OneFlag(rows') => OneFlag(After(t)')
  BY <1>2, <1>4, <1>5, <1>6 DEF PromoInv, NamesOwner
<1>8. /\ Told(rows') /\ desk' \in PromotionDesks /\ DOMAIN rows' = PersonnelIds' /\ Owners'
      /\ ~torn' => OneFlag(rows')
  BY <1>1, <1>2 DEF PromoInv, PersonnelIds, Owners, There
<1> QED BY <1>2, <1>7, <1>8 DEF PromoInv

\* Clearing the flag on the others keeps the promise (_exclusive_flag,
\* _exclusive_primary, _only_current).
LEMMA PromotionKeeps ==
    ASSUME PromoInv, NEW s \in Sessions, NEW locked, NEW name \in Flagged,
           NEW m \in Table(name), NEW e, NEW cols, NEW body,
           \/ /\ There(m) /\ rows[m].of = e
              /\ "there" \notin DOMAIN cols /\ "of" \notin DOMAIN cols
           \/ /\ ~There(m) /\ "of" \in DOMAIN cols /\ cols.of = e
              /\ Flag(name) \in DOMAIN cols
              /\ "there" \in DOMAIN cols /\ cols.there = TRUE,
           Flag(name) \in DOMAIN cols
               => Flag(name) \in DOMAIN body /\ cols[Flag(name)] = body[Flag(name)],
           StageLocked(s, locked, Over(Set(m, cols), Exclusive(name, Flag(name), e, m, body)))
    PROVE  PromoInv'
<1> DEFINE others == {o \in Live(name) : o # m /\ rows[o].of = e}
           wanted == Flag(name) \in DOMAIN body /\ body[Flag(name)]
<1>1. PICK flag, cleared, writes :
          /\ flag = Flag(name)
          /\ cleared = (IF wanted THEN others ELSE {})
          /\ writes = Over(Set(m, cols), Exclusive(name, Flag(name), e, m, body))
  OBVIOUS
<1>2. cleared \subseteq others /\ m \notin cleared /\ (wanted => cleared = others)
  BY <1>1
<1>3. /\ DOMAIN writes = {m} \cup cleared
      /\ writes[m] = cols
      /\ \A o \in cleared : writes[o] = [c \in {flag} |-> FALSE]
  BY <1>1, <1>2 DEF Over, Set, SetAll, Exclusive
<1>4. DOMAIN writes \subseteq DOMAIN rows /\ m[1] = name
  BY <1>2, <1>3 DEF Live, Table
<1>5. flag \in {"primary", "current"}
  BY <1>1 DEF Flag
<1>6. \A r \in DOMAIN writes : Belongs(r, writes[r])
  BY <1>4, <1>2, <1>5, <1>3 DEF Belongs, Live
<1>7. Told(rows) /\ \A r \in Live(name) : "of" \in DOMAIN rows[r]
  BY DEF PromoInv, Owners, Live, Table
<1>8. ASSUME NEW now, Laid(rows, now, writes)
      PROVE  Promises(writes, now)
  BY <1>2, <1>1, <1>3, <1>4, <1>7, <1>8 DEF Live, Table, Promotes, Laid, Told, LaidRow,
     There, Absent, Promises
<1>9. StageLocked(s, locked, writes)
  BY <1>1
<1> QED BY <1>4, <1>6, <1>8, <1>9, PromoStages

\* So does writing a row without setting its flag.
LEMMA NoPromotion ==
    ASSUME PromoInv, NEW s \in Sessions, NEW locked, NEW name \in Flagged, NEW m \in Live(name),
           NEW cols, "there" \notin DOMAIN cols, "of" \notin DOMAIN cols,
           Flag(name) \in DOMAIN cols => ~cols[Flag(name)],
           StageLocked(s, locked, Set(m, cols))
    PROVE  PromoInv'
  BY PromoStages DEF Set, Live, Table, Promises, Promotes, Belongs

\* An insert of a row for an employee, who has the flag or not.
LEMMA PromotedInsert ==
    ASSUME PromoInv, NEW s \in Sessions, NEW locked, NEW name \in Flagged, NEW e,
           NEW given, NEW body, "of" \in DOMAIN given, given.of = e, "there" \notin DOMAIN given,
           Flag(name) \in DOMAIN given, Flag(name) \in DOMAIN body,
           given[Flag(name)] = body[Flag(name)], Spare(name) # {},
           StageLocked(s, locked, Over(Insert(name, given),
                                       Exclusive(name, Flag(name), e, NewRow(name), body)))
    PROVE  PromoInv'
<1>1. Shape /\ DOMAIN rows = PersonnelIds
  BY DEF PromoInv
<1>2. PICK m : TakesRow(s, name, m)
  BY <1>1, PersonnelNumbers, NewRowTaken
<1>3. PICK cols : cols = Over([there |-> TRUE], given)
  OBVIOUS
<1>4. /\ DOMAIN cols = {"there"} \cup DOMAIN given /\ cols.there = TRUE
      /\ \A c \in DOMAIN given : cols[c] = given[c]
  BY <1>3 DEF Over
<1>5. m \in Table(name) /\ m = NewRow(name) /\ ~There(m)
  BY <1>2 DEF TakesRow, Fresh
<1>6. StageLocked(s, locked, Over(Set(m, cols), Exclusive(name, Flag(name), e, m, body)))
  BY <1>3, <1>5 DEF Insert
<1>7. Flag(name) # "there"
  BY DEF Flag
<1>8. /\ ~There(m) /\ "of" \in DOMAIN cols /\ cols.of = e
      /\ Flag(name) \in DOMAIN cols
      /\ "there" \in DOMAIN cols /\ cols.there = TRUE
  BY <1>4, <1>5
<1>9. Flag(name) \in DOMAIN cols
          => Flag(name) \in DOMAIN body /\ cols[Flag(name)] = body[Flag(name)]
  BY <1>4, <1>7
<1> QED BY <1>5, <1>6, <1>8, <1>9, PromotionKeeps

\* A change of a row that is there.
LEMMA PromotedChange ==
    ASSUME PromoInv, NEW s \in Sessions, NEW locked, NEW name \in Flagged, NEW m \in Live(name),
           NEW e, e = rows[m].of, NEW cols, NEW body,
           "there" \notin DOMAIN cols, "of" \notin DOMAIN cols,
           Flag(name) \in DOMAIN cols
               => Flag(name) \in DOMAIN body /\ cols[Flag(name)] = body[Flag(name)],
           StageLocked(s, locked, Over(Set(m, cols), Exclusive(name, Flag(name), e, m, body)))
    PROVE  PromoInv'
  BY PromotionKeeps DEF Live

\* The requests about family members keep the promise,
LEMMA FamilyPromises ==
    ASSUME PromoInv, NEW s \in Sessions, FamilyStep(s)
    PROVE  PromoInv'
<1>1. "family" \in Flagged /\ Flag("family") = "primary"
  BY DEF Flagged, Flag
<1>2. ASSUME NEW m \in Live("family"), NEW body, "there" \notin DOMAIN body,
             "of" \notin DOMAIN body, FamilyChange(s, m, body)
      PROVE  PromoInv'
  BY <1>1, <1>2, PromotedChange DEF FamilyChange, ExclusiveFlag, Stage
<1>3. CASE FamilyCreate(s)
  <2>1. PICK e \in Employees, body \in FamilyBodies :
            /\ Spare("family") # {}
            /\ Stage(s, Over(Insert("family", Over([of |-> e, active |-> TRUE], body)),
                             ExclusiveFlag(e, NewRow("family"), body)))
    BY <1>3 DEF FamilyCreate
  <2>2. PICK given : given = Over([of |-> e, active |-> TRUE], body)
    OBVIOUS
  <2>3. /\ "of" \in DOMAIN given /\ given.of = e
        /\ DOMAIN given = {"of", "active"} \cup DOMAIN body
        /\ given["primary"] = body["primary"]
        /\ DOMAIN body = {"dependent", "kin", "primary", "from", "until"}
    BY <2>2 DEF Over, FamilyBodies
  <2>4. StageLocked(s, {}, Over(Insert("family", given),
                    Exclusive("family", Flag("family"), e, NewRow("family"), body)))
    BY <1>1, <2>1, <2>2 DEF ExclusiveFlag, Stage
  <2>5. "there" \notin DOMAIN given
    BY <2>3
  <2> QED BY <1>1, <2>1, <2>3, <2>4, <2>5, PromotedInsert
<1>4. CASE FamilyUpdate(s)
  BY <1>4, <1>2 DEF FamilyUpdate, FamilyChanges
<1>5. CASE SetDependent(s)
  BY <1>5, <1>2 DEF SetDependent
<1>6. CASE FamilyArchive(s) \/ SetNextOfKin(s)
  BY <1>6, <1>1, NoPromotion DEF FamilyArchive, SetNextOfKin, Stage
<1> QED BY <1>3, <1>4, <1>5, <1>6 DEF FamilyStep

\* those about emergency contacts,
LEMMA ContactPromises ==
    ASSUME PromoInv, NEW s \in Sessions, ContactStep(s)
    PROVE  PromoInv'
<1>1. "contacts" \in Flagged /\ Flag("contacts") = "primary"
  BY DEF Flagged, Flag
<1>2. ASSUME NEW c \in Live("contacts"), NEW locked, NEW e, e = rows[c].of, NEW body,
             "there" \notin DOMAIN body, "of" \notin DOMAIN body,
             StageLocked(s, locked, Over(Set(c, body), ExclusivePrimary(e, c, body)))
      PROVE  PromoInv'
  BY <1>1, <1>2, PromotedChange DEF ExclusivePrimary
<1>3. ASSUME NEW locked, NEW e, NEW given, NEW body, "of" \in DOMAIN given, given.of = e,
             "there" \notin DOMAIN given, "primary" \in DOMAIN given, "primary" \in DOMAIN body,
             given["primary"] = body["primary"], Spare("contacts") # {},
             StageLocked(s, locked, Over(Insert("contacts", given),
                                         ExclusivePrimary(e, NewRow("contacts"), body)))
      PROVE  PromoInv'
  BY <1>1, <1>3, PromotedInsert DEF ExclusivePrimary
<1>4. CASE ContactCreate(s)
  <2>1. PICK e \in Employees, body \in ContactBodies :
            /\ Spare("contacts") # {}
            /\ Stage(s, Over(Insert("contacts", Over([of |-> e, active |-> TRUE], body)),
                             ExclusivePrimary(e, NewRow("contacts"), body)))
    BY <1>4 DEF ContactCreate
  <2>2. PICK given : given = Over([of |-> e, active |-> TRUE], body)
    OBVIOUS
  <2>3. /\ "of" \in DOMAIN given /\ given.of = e /\ "there" \notin DOMAIN given
        /\ given["primary"] = body["primary"]
        /\ "primary" \in DOMAIN body /\ "primary" \in DOMAIN given
    BY <2>2 DEF Over, ContactBodies
  <2>4. StageLocked(s, {}, Over(Insert("contacts", given),
                                ExclusivePrimary(e, NewRow("contacts"), body)))
    BY <2>1, <2>2 DEF Stage
  <2> QED BY <1>3, <2>1, <2>3, <2>4
<1>5. CASE ContactUpdate(s)
  BY <1>5, <1>2 DEF ContactUpdate, ContactChanges, Stage
<1>6. CASE ContactSetPrimary(s)
  BY <1>6, <1>2 DEF ContactSetPrimary, Stage
<1>7. CASE AddMyContact(s)
  <2>1. PICK e \in Employees : \E body : \E primary :
            /\ body = [primary |-> primary]
            /\ Spare("contacts") # {}
            /\ StageLocked(s, OwnProfile(e),
                 Over(Insert("contacts", Over([of |-> e, active |-> TRUE, member |-> NoRef], body)),
                      ExclusivePrimary(e, NewRow("contacts"), body)))
    BY <1>7 DEF AddMyContact
  <2>2. PICK body, primary :
            /\ body = [primary |-> primary]
            /\ Spare("contacts") # {}
            /\ StageLocked(s, OwnProfile(e),
                 Over(Insert("contacts", Over([of |-> e, active |-> TRUE, member |-> NoRef], body)),
                      ExclusivePrimary(e, NewRow("contacts"), body)))
    BY <2>1
  <2>3. PICK given : given = Over([of |-> e, active |-> TRUE, member |-> NoRef], body)
    OBVIOUS
  <2>4. /\ "of" \in DOMAIN given /\ given.of = e /\ "there" \notin DOMAIN given
        /\ given["primary"] = body["primary"]
        /\ "primary" \in DOMAIN body /\ "primary" \in DOMAIN given
    BY <2>2, <2>3 DEF Over
  <2>5. StageLocked(s, OwnProfile(e), Over(Insert("contacts", given),
                                ExclusivePrimary(e, NewRow("contacts"), body)))
    BY <2>2, <2>3
  <2> QED BY <1>3, <2>2, <2>4, <2>5
<1>8. CASE PrimaryMyContact(s)
  BY <1>8, <1>2 DEF PrimaryMyContact, OwnContacts
<1>9. CASE ContactArchive(s) \/ ArchiveMyContact(s)
  <2>1. \E locked : \E c \in Live("contacts"),
                cols \in {[active |-> FALSE, primary |-> FALSE], [active |-> FALSE]} :
            StageLocked(s, locked, Set(c, cols))
    BY <1>9 DEF ContactArchive, ArchiveMyContact, OwnContacts, Stage
  <2>2. PICK locked : \E c \in Live("contacts"),
                cols \in {[active |-> FALSE, primary |-> FALSE], [active |-> FALSE]} :
            StageLocked(s, locked, Set(c, cols))
    BY <2>1
  <2>3. PICK c \in Live("contacts"),
             cols \in {[active |-> FALSE, primary |-> FALSE], [active |-> FALSE]} :
            StageLocked(s, locked, Set(c, cols))
    BY <2>2
  <2>4. /\ "there" \notin DOMAIN cols /\ "of" \notin DOMAIN cols
        /\ "primary" \in DOMAIN cols => ~cols["primary"]
    OBVIOUS
  <2> QED BY <1>1, <2>3, <2>4, NoPromotion
<1> QED BY <1>4, <1>5, <1>6, <1>7, <1>8, <1>9 DEF ContactStep

\* and those about resumes.
LEMMA ResumePromises ==
    ASSUME PromoInv, NEW s \in Sessions, ResumeStep(s)
    PROVE  PromoInv'
<1>1. "resumes" \in Flagged /\ Flag("resumes") = "current"
  BY DEF Flagged, Flag
<1>2. PICK body : body = [current |-> TRUE]
  OBVIOUS
<1>3. \A e, r : OnlyCurrent(e, r) = Exclusive("resumes", Flag("resumes"), e, r, body)
  BY <1>1, <1>2 DEF OnlyCurrent
<1>4. CASE ResumeAdd(s)
  <2>1. PICK e \in Employees :
            /\ Spare("resumes") # {}
            /\ Stage(s, Over(Insert("resumes", [of |-> e, active |-> TRUE, current |-> TRUE,
                                                version |-> Latest(e) + 1]),
                             OnlyCurrent(e, NewRow("resumes"))))
    BY <1>4 DEF ResumeAdd
  <2>2. PICK given : given = [of |-> e, active |-> TRUE, current |-> TRUE,
                              version |-> Latest(e) + 1]
    OBVIOUS
  <2>3. /\ "of" \in DOMAIN given /\ given.of = e /\ "there" \notin DOMAIN given
        /\ given["current"] = body["current"]
        /\ "current" \in DOMAIN body /\ "current" \in DOMAIN given
    BY <1>2, <2>2
  <2>4. StageLocked(s, {}, Over(Insert("resumes", given),
                    Exclusive("resumes", Flag("resumes"), e, NewRow("resumes"), body)))
    BY <1>3, <2>1, <2>2 DEF Stage
  <2> QED BY <1>1, <2>1, <2>3, <2>4, PromotedInsert
<1>5. CASE ResumeSetCurrent(s)
  <2>1. PICK r \in Live("resumes") :
            Stage(s, Over(Set(r, [current |-> TRUE]), OnlyCurrent(rows[r].of, r)))
    BY <1>5 DEF ResumeSetCurrent
  <2>2. PICK e : e = rows[r].of
    OBVIOUS
  <2>3. StageLocked(s, {}, Over(Set(r, body),
                    Exclusive("resumes", Flag("resumes"), e, r, body)))
    BY <1>2, <1>3, <2>1, <2>2 DEF Stage
  <2>4. "there" \notin DOMAIN body /\ "of" \notin DOMAIN body
    BY <1>2
  <2> QED BY <1>1, <2>2, <2>3, <2>4, PromotedChange
<1>6. CASE ResumeArchive(s)
  BY <1>6, <1>1, NoPromotion DEF ResumeArchive, Stage
<1> QED BY <1>4, <1>5, <1>6 DEF ResumeStep

-----------------------------------------------------------------------------
(* The desks of the office together. *)

\* No handler of the office changes a row or the desk: not those of the records of
\* employees,
LEMMA PersonnelDesk ==
    ASSUME NEW s \in Sessions, PersonnelStep(s), desk \in DOMAIN PersonnelTables
    PROVE  UNCHANGED <<desk, rows>>
<1>1. \A locked, writes : StageLocked(s, locked, writes) => UNCHANGED <<desk, rows>>
  BY DEF StageLocked
<1>2. \A m, body : FamilyChange(s, m, body) => UNCHANGED <<desk, rows>>
  BY <1>1 DEF FamilyChange, Stage
<1>3. CASE FamilyStep(s)
  BY <1>1, <1>2, <1>3 DEF FamilyStep, FamilyCreate, FamilyUpdate, FamilyArchive, SetNextOfKin,
     SetDependent, Stage
<1>4. CASE ContactStep(s)
  BY <1>1, <1>4 DEF ContactCreate, ContactUpdate, ContactSetPrimary, ContactArchive, Stage,
     AddMyContact, PrimaryMyContact, ArchiveMyContact, ContactStep
<1>5. CASE ResumeStep(s)
  BY <1>1, <1>5 DEF ResumeStep, ResumeAdd, ResumeSetCurrent, ResumeArchive, Stage
<1>6. CASE DocumentStep(s)
  BY <1>1, <1>6 DEF DocumentInsert, Stage, DocumentUpdate, DocumentVerify, DocumentReject,
     DocumentArchive, DocumentStep, DocumentAdd, DocumentUpload
<1>7. CASE QualificationStep(s) \/ TrainingStep(s) \/ LicenceStep(s)
  BY <1>1, <1>7 DEF PaperCreate, PaperUpdate, Stage, QualificationStep, QualificationCreate,
     QualificationUpdate, QualificationArchive, TrainingStep, TrainingCreate, TrainingUpdate,
     LicenceStep, LicenceCreate, LicenceUpdate
<1>8. CASE SkillStep(s)
  BY <1>1, <1>8 DEF SkillCreate, SkillUpdate, SkillAssign, Stage, SkillUpdateLink,
     SkillUnlink, SkillStep
<1>9. CASE StructureStep(s)
  BY <1>1, <1>9 DEF StructureStep, DepartmentCreate, DepartmentUpdate, PositionCreate,
     PositionUpdate, Stage
<1> QED BY <1>3, <1>4, <1>5, <1>6, <1>7, <1>8, <1>9 DEF PersonnelStep

\* nor those of where they work,
LEMMA RosterDesk ==
    ASSUME NEW s \in Sessions, RosterStep(s), desk \in DOMAIN RosterTables
    PROVE  UNCHANGED <<desk, rows>>
<1>1. \A locked, writes : StageLocked(s, locked, writes) => UNCHANGED <<desk, rows>>
  BY DEF StageLocked
<1>2. \A a, body : AssignmentChange(s, a, body) => UNCHANGED <<desk, rows>>
  BY <1>1 DEF AssignmentChange, Stage
<1>3. CASE AssignmentStep(s)
  BY <1>1, <1>2, <1>3 DEF AssignmentCreate, EmployeeArchive, EmployeeRestore, Stage,
     Transfer, AssignmentUpdate, AssignmentComplete, AssignmentCancel, AssignmentStep
<1>4. CASE RotationStep(s)
  BY <1>1, <1>4 DEF RotationStep, PatternCreate, PatternUpdate, RotationCreate, Stage
<1>5. CASE AuthorizationStep(s)
  BY <1>1, <1>5 DEF AuthorizationStep, AuthorizationCreate, AuthorizationUpdate,
     AuthorizationRevoke, Stage
<1>6. CASE SaveTimesheet(s) \/ TimeLogCreate(s)
  <2>1. SaveTimesheet(s) => \E writes : Stage(s, writes)
    BY Zenon DEF SaveTimesheet
  <2>2. TimeLogCreate(s) => UNCHANGED <<desk, rows>>
    BY <1>1 DEF TimeLogCreate, Stage
  <2> QED BY <1>1, <1>6, <2>1, <2>2 DEF Stage
<1> QED BY <1>3, <1>4, <1>5, <1>6 DEF RosterStep

\* nor those of the head office,
LEMMA HeadOfficeDesk ==
    ASSUME NEW s \in Sessions, AdministrationStep(s), desk \in DOMAIN AdministrationIds
    PROVE  UNCHANGED <<desk, rows>>
<1>1. \A locked, writes : StageLocked(s, locked, writes) => UNCHANGED <<desk, rows>>
  BY DEF StageLocked
<1>2. RoleStep(s) => UNCHANGED <<desk, rows>>
  BY <1>1 DEF RoleStep, SeedPermissions, CreateRole, UpdateRolePermissions, Stage
<1>3. DownloadStep(s) => UNCHANGED <<desk, rows>>
  BY <1>1 DEF DownloadStep, RequestDownload, ReviewDownload, Stage
<1>4. ReminderStep(s) => UNCHANGED <<desk, rows>>
  BY <1>1 DEF ReminderStep, ChangeContract, AddRule, EditRule, GenerateAlerts,
     ReadNotification, Stage
<1>5. AnswerStep(s) => UNCHANGED <<desk, rows>>
  BY <1>1 DEF AnswerStep, ChangeContract, GenerateFieldAlerts, BookLeave, DecideLeave, Stage
<1>6. InboxStep(s) => UNCHANGED <<desk, rows>>
  BY <1>1 DEF InboxStep, TellEmployee, MarkRead, ResolveNotification, ForwardNotification, Stage
<1>7. TowerStep(s) \/ ClientStep(s) => UNCHANGED <<desk, rows>>
  BY <1>1 DEF TowerStep, CreateScorecard, CreateOpportunity, UpdateOpportunity, ClientStep,
     GrantAccess, PublishArtifact, Stage
<1>8. desk \in {"roles", "downloads", "reminders", "answers", "inbox", "tower", "clients"}
  BY DEF AdministrationIds
<1> QED BY <1>2, <1>3, <1>4, <1>5, <1>6, <1>7, <1>8 DEF AdministrationStep

\* nor those that book a period.
LEMMA BookingDesk ==
    ASSUME NEW s \in Sessions, BookingStep(s)
    PROVE  UNCHANGED <<desk, rows>>
  BY DEF StageLocked, BookingStep, LeaveStep, LeaveCreate, LeaveDecide, SalaryStep,
     AddSalary, EndSalary

\* The same of accounts and logins,
LEMMA AccountDesk ==
    ASSUME NEW s \in Sessions, AccountsStep(s)
    PROVE  UNCHANGED <<desk, rows>>
  BY OtherAccountSteps DEF StageLocked, LoginStep, Login, Refresh, Logout,
     InvalidateAccount, CompleteReset, Deactivate, Stage, AccountsStep, AccountStep

\* and of versions and shared copies.
LEMMA WorkbookDesk ==
    ASSUME NEW s \in Sessions, WorkbookRequest(s)
    PROVE  UNCHANGED <<desk, rows>>
<1>1. \A locked, writes : StageLocked(s, locked, writes) => UNCHANGED <<desk, rows>>
  BY DEF StageLocked
<1> QED BY <1>1 DEF WorkbookRequest, VersionStep, SaveWorkbook, UploadWorkbook, DeleteWorkbook,
       EditTags, ShareStep, CreateShare, UpdateShare, RevokeShare, Stage

\* A commit leaves nothing of other sessions that is still fresh, and rows that say
\* whom they are about.
LEMMA PromoCommits ==
    ASSUME PromoInv, NEW s \in Sessions, NEW accepted, Commit(s, accepted)
    PROVE  PromoInv'
<1>1. Shape /\ Told(rows) /\ NamesOwner(s) /\ Owners
  BY DEF PromoInv
<1>2. /\ Shape' /\ OthersStay(s) /\ DOMAIN rows' = DOMAIN rows /\ desk' = desk
      /\ \A r \in DOMAIN rows :
            /\ r \in DOMAIN open[s].writes => rows'[r] = Written(rows[r], open[s].writes[r])
            /\ r \notin DOMAIN open[s].writes => rows'[r] = rows[r]
      /\ DOMAIN open'[s].writes = {}
  BY <1>1, CommitShape
<1>3. Told(rows')
  BY <1>1, CommitTold
<1>4. ASSUME NEW old, NEW cols, NEW c, Written(old, cols).there,
             old.there => c \in DOMAIN old, ~old.there => old = Absent,
             "there" \in DOMAIN cols => c \in DOMAIN cols
      PROVE  c \in DOMAIN Written(old, cols)
  BY <1>4 DEF Over, Written, Absent
<1>5. Owners'
  BY <1>2, <1>1, <1>4 DEF Owners, There, Shape, NamesOwner
<1>6. ASSUME NEW t \in Sessions
      PROVE  /\ NamesOwner(t)'
             /\ open'[t].fresh => Promises(open'[t].writes, After(t)')
             /\ open'[t].fresh /\ OneFlag(rows') => OneFlag(After(t)')
  BY <1>1, CommitFresh, CommitAfter, <1>2 DEF Promises, NamesOwner, PromoInv, OthersStay
<1>7. desk' \in PromotionDesks /\ DOMAIN rows' = PersonnelIds'
  BY <1>2 DEF PromoInv, PersonnelIds
<1>8. ~torn' => OneFlag(rows')
  BY <1>1, CommitAfter DEF PromoInv
<1> QED BY <1>2, <1>3, <1>5, <1>6, <1>7, <1>8 DEF PromoInv

\* Every step of these desks keeps the promises.
LEMMA PromoSteps ==
    ASSUME PromoInv, [PersonnelNext]_storeVars
    PROVE  PromoInv'
<1>1. Shape /\ desk \in PromotionDesks
  BY DEF PromoInv
<1>2. ASSUME Shape', rows' = rows, desk' = desk, torn' = torn, NEW T \in SUBSET Sessions,
             \A t \in T : open'[t] = open[t] /\ After(t)' = After(t),
             \A t \in Sessions \ T : DOMAIN open'[t].writes = {} /\ After(t)' = rows
      PROVE  PromoInv'
  BY <1>2 DEF PromoInv, NamesOwner, Promises, PersonnelIds, Owners, There
<1>3. ASSUME NEW s \in Sessions, PersonnelStep(s) PROVE PromoInv'
  BY <1>1, <1>3, FamilyPromises, ContactPromises, ResumePromises DEF PersonnelStep,
     PromotionDesks
<1>4. ASSUME NEW s \in Sessions, PersonnelCommit(s) PROVE PromoInv'
  BY <1>4, PromoCommits DEF PersonnelCommit
<1>5. ASSUME NEW s \in Sessions, Abort(s) PROVE PromoInv'
  BY <1>1, <1>5, AbortShape, AbortAfter, <1>2
<1>6. CASE UNCHANGED storeVars
  BY <1>1, <1>6, StutterShape, <1>2 DEF storeVars, After
<1> QED BY <1>3, <1>4, <1>5, <1>6 DEF PersonnelNext

\* Rows change only when a session commits, and then to what it staged them to be.
LEMMA WhoCommits ==
    ASSUME Shape, NEW t \in Sessions, NEW accepted, Commit(t, accepted),
           NEW s \in Sessions, open[s] # Idle, open'[s] = Idle, open[s].fresh
    PROVE  rows' = After(s)
  BY DEF Commit, Shape, Idle

\* PromotionSettles, of a step.
Settled ==
    \A s \in Sessions, r \in DOMAIN rows :
        /\ desk \in DOMAIN PersonnelTables
        /\ open[s] # Idle /\ rows' # rows /\ open'[s] = Idle /\ open[s].fresh
        /\ r[1] \in {"family", "contacts", "resumes"}
        /\ r \in DOMAIN open[s].writes
        /\ Flag(r[1]) \in DOMAIN open[s].writes[r] /\ open[s].writes[r][Flag(r[1])]
        => \A q \in Table(r[1]) :
              rows'[q].there /\ q # r /\ rows'[q].of = rows'[r].of
              => ~rows'[q][Flag(r[1])]

\* A request that promotes and commits fresh keeps its promise.
LEMMA PromotionsSettle ==
    ASSUME PromoInv, [PersonnelNext]_storeVars
    PROVE  Settled
  BY PersonnelDesk, WhoCommits, CommitShape DEF Settled, Promotes, Flagged, storeVars,
     PromoInv, PromotionDesks, PersonnelTables, Abort, PersonnelNext, PersonnelCommit,
     Promises, Table

\* Primary assignments that are opened: each is the only one its employee works on.
AssignmentDesks == {"assignments", "tenure"}

Working(tab, b) ==
    b[1] = "assignments" /\ tab[b].there /\ tab[b].primary /\ tab[b].status = "ACTIVE"

OneOpened(tab, now) ==
    \A a, b \in DOMAIN tab :
        ~tab[a].there /\ Working(now, a) /\ Working(now, b) /\ now[b].of = now[a].of => a = b

OpenInv ==
    /\ Shape /\ Told(rows)
    /\ desk \in AssignmentDesks
    /\ DOMAIN rows = RosterIds
    /\ \A s \in Sessions : open[s].fresh => OneOpened(rows, After(s))

\* A handler keeps this if its writes, laid over the rows, open one assignment at most.
LEMMA OpenStages ==
    ASSUME OpenInv, NEW s \in Sessions, NEW locked, NEW writes,
           DOMAIN writes \subseteq DOMAIN rows, StageLocked(s, locked, writes),
           \A now : Laid(rows, now, writes) => OneOpened(rows, now)
    PROVE  OpenInv'
  BY StageShape, StagedLaid, StageAfter DEF OpenInv, RosterIds

\* A handler that inserts no assignment opens none.
LEMMA NoneOpened ==
    ASSUME OpenInv, NEW s \in Sessions, NEW locked, NEW r, NEW cols, There(r), r \in DOMAIN rows,
           StageLocked(s, locked, Set(r, cols))
    PROVE  OpenInv'
  BY OpenStages DEF Set, Laid, There, OneOpened, Working

\* Assignments are numbered.
LEMMA RosterNumbers ==
    ASSUME DOMAIN rows = RosterIds
    PROVE  \A name : \A r \in Table(name) : r[2] \in Nat
<1>1. RosterIds \subseteq RosterTables[desk] \X Numbers
  BY Zenon DEF RosterIds
<1> QED BY <1>1, RowStoreAssumption DEF Table, RowStoreAssumption

\* A handler that inserts an assignment for the employee, and completes those that
\* would be in its way.
LEMMA OneIsOpened ==
    ASSUME OpenInv, NEW s \in Sessions, Spare("assignments") # {}, NEW e, NEW given, NEW done,
           NEW over, over \subseteq Live("assignments"), given.of = e, "of" \in DOMAIN given,
           "there" \notin DOMAIN given, {"primary", "status"} \subseteq DOMAIN given,
           "status" \in DOMAIN done, done.status # "ACTIVE", "there" \notin DOMAIN done,
           given.primary /\ given.status = "ACTIVE" => ActivePrimary(e) \subseteq over,
           StageLocked(s, {}, Over(Insert("assignments", given), SetAll(over, done)))
    PROVE  OpenInv'
  BY RosterNumbers, NewRowTaken, OpenStages DEF OpenInv, Over, TakesRow, Fresh, Table, Live,
     Insert, Set, SetAll, OneOpened, Laid, Working, There, LaidRow, ActivePrimary

\* The handlers of assignments open one at most.
LEMMA AssignmentOpens ==
    ASSUME OpenInv, NEW s \in Sessions, AssignmentStep(s)
    PROVE  OpenInv'
<1>1. \A name : \A r \in Live(name) : There(r) /\ r \in DOMAIN rows
  BY DEF Live, Table
<1>2. ASSUME NEW a \in Live("assignments"), NEW body, AssignmentChange(s, a, body)
      PROVE  OpenInv'
  BY <1>2, <1>1, NoneOpened DEF AssignmentChange, Stage
<1>3. CASE AssignmentUpdate(s) \/ AssignmentComplete(s) \/ AssignmentCancel(s)
  BY <1>2, <1>3 DEF AssignmentUpdate, AssignmentComplete, AssignmentCancel
<1>4. CASE EmployeeArchive(s) \/ EmployeeRestore(s)
  BY <1>4, <1>1, NoneOpened DEF EmployeeArchive, EmployeeRestore, Stage
<1>5. CASE AssignmentCreate(s)
  <2>1. PICK e \in Live("employees"), body \in AssignmentBodies :
            /\ Spare("assignments") # {}
            /\ CheckAssignment(body, e, {})
            /\ Stage(s, Insert("assignments", Over([of |-> e], body)))
    BY <1>5 DEF AssignmentCreate
  <2>2. PICK given, done : given = Over([of |-> e], body) /\ done = [status |-> "COMPLETED"]
    OBVIOUS
  <2>3. DOMAIN body = {"from", "until", "primary", "status"}
    BY DEF AssignmentBodies
  <2>4. /\ DOMAIN given = {"of"} \cup DOMAIN body /\ given.of = e
        /\ given.primary = body.primary /\ given.status = body.status
    BY <2>2, <2>3 DEF Over
  <2>5. given.primary /\ given.status = "ACTIVE" => ActivePrimary(e) \subseteq {}
    BY <2>1, <2>4 DEF CheckAssignment, RejectPrimaryConflict
  <2>6. Insert("assignments", given) = Over(Insert("assignments", given), SetAll({}, done))
    BY DEF Over, SetAll, Insert, Set
  <2>7. StageLocked(s, {}, Over(Insert("assignments", given), SetAll({}, done)))
    BY <2>1, <2>2, <2>6 DEF Stage
  <2>8. /\ "of" \in DOMAIN given /\ "there" \notin DOMAIN given
        /\ {"primary", "status"} \subseteq DOMAIN given
        /\ "status" \in DOMAIN done /\ done.status # "ACTIVE" /\ "there" \notin DOMAIN done
    BY <2>2, <2>3, <2>4
  <2>9. {} \subseteq Live("assignments")
    OBVIOUS
  <2> QED BY <2>1, <2>4, <2>5, <2>7, <2>8, <2>9, OneIsOpened
<1>6. CASE Transfer(s)
  BY <1>6, OneIsOpened DEF Transfer, ActivePrimary, Stage
<1> QED BY <1>3, <1>4, <1>5, <1>6 DEF AssignmentStep

\* Every step of these desks keeps to it.
LEMMA OpenSteps ==
    ASSUME OpenInv, [RosterNext]_storeVars
    PROVE  OpenInv'
<1>1. Shape /\ Told(rows) /\ desk \in AssignmentDesks /\ DOMAIN rows = RosterIds
  BY DEF OpenInv
<1>2. ASSUME DOMAIN rows' = DOMAIN rows, desk' = desk
      PROVE  desk' \in AssignmentDesks /\ DOMAIN rows' = RosterIds'
  BY <1>1, <1>2, Zenon DEF RosterIds
<1>3. ASSUME NEW s \in Sessions, RosterStep(s) PROVE OpenInv'
  BY <1>1, <1>3, AssignmentOpens DEF RosterStep, AssignmentDesks
<1>4. ASSUME NEW s \in Sessions, RosterCommit(s) PROVE OpenInv'
  BY <1>4, <1>1, CommitShape, CommitTold, CommitAfter, <1>2 DEF RosterCommit, OneOpened,
     Working, OpenInv
<1>5. ASSUME NEW s \in Sessions, Abort(s) PROVE OpenInv'
  BY <1>1, <1>5, AbortShape, AbortAfter, <1>2 DEF OneOpened, Working, OpenInv
<1>6. CASE UNCHANGED storeVars
  BY <1>1, <1>6, StutterShape, <1>2 DEF storeVars, After, OpenInv
<1> QED BY <1>3, <1>4, <1>5, <1>6 DEF RosterNext

\* OpensOnlyOne, of a step.
OpenedAlone ==
    \A s \in Sessions, a \in Table("assignments") :
        /\ desk \in {"assignments", "tenure"}
        /\ open[s] # Idle /\ open[s].fresh /\ open'[s] = Idle
        /\ ~There(a) /\ rows'[a].there
        /\ rows'[a].primary /\ rows'[a].status = "ACTIVE"
        => \A b \in Table("assignments") \ {a} :
              ~(rows'[b].there /\ rows'[b].of = rows'[a].of
                /\ rows'[b].primary /\ rows'[b].status = "ACTIVE")

\* A request that opens an assignment and commits fresh leaves only that one open.
LEMMA OpensAlone ==
    ASSUME OpenInv, [RosterNext]_storeVars
    PROVE  OpenedAlone
  BY RosterDesk, WhoCommits DEF OpenedAlone, There, storeVars, RosterNext, Abort, OpenInv,
     RosterCommit, Working, Table, OneOpened

\* A step of the office leaves the desk and the numbers of its rows as they are.
LEMMA OneOffice == OfficeNext => Alike
  BY PersonnelDesk, RosterDesk, BookingDesk, AccountDesk, WorkbookDesk, HeadOfficeDesk DEF
     Commit, After, Alike, Abort, PersonnelNext, PersonnelCommit, RosterNext, RosterCommit,
     BookingNext, AccountsNext, AccountsCommit, WorkbookNext, AdministrationNext, OfficeNext

\* The desks of the office.
LEMMA OfficeDesks ==
    /\ DOMAIN PersonnelTables = {"family", "dependency", "contacts", "resumes", "documents",
                                 "qualifications", "training", "licences", "skills",
                                 "structure"}
    /\ DOMAIN RosterTables = {"assignments", "tenure", "rotations", "authorizations",
                              "timesheets", "timelogs"}
    /\ DOMAIN AccountTables = {"accounts", "reporting", "portals", "logins"}
    /\ DOMAIN AdministrationIds = {"roles", "downloads", "reminders", "answers", "inbox",
                                   "tower", "clients"}
<1>1. DOMAIN PersonnelTables = {"family", "dependency", "contacts", "resumes", "documents",
                                 "qualifications", "training", "licences", "skills",
                                 "structure"}
  BY Zenon DEF PersonnelTables
<1>2. DOMAIN RosterTables = {"assignments", "tenure", "rotations", "authorizations",
                              "timesheets", "timelogs"}
  BY Zenon DEF RosterTables
<1> QED BY <1>1, <1>2 DEF AccountTables, AdministrationIds

\* At each of them only its own requests are made.
LEMMA OwnOffice ==
    ASSUME [OfficeNext]_storeVars
    PROVE  /\ desk \in BookingDesks => [BookingNext]_storeVars
           /\ desk = "logins" => [AccountsNext]_storeVars
           /\ desk \in WorkbookDesks => [WorkbookNext]_storeVars
           /\ desk \in DOMAIN PersonnelTables => [PersonnelNext]_storeVars
           /\ desk \in DOMAIN RosterTables => [RosterNext]_storeVars
  BY OfficeDesks DEF OfficeNext, PersonnelNext, RosterNext, BookingNext, AccountsNext,
     WorkbookNext, AdministrationNext, BookingDesks, WorkbookDesks

\* What holds at each of the desks proved about, and where their tables are.
OfficeInv ==
    /\ desk \in BookingDesks => BookingInv
    /\ desk = "logins" => TokenInv
    /\ desk # "logins" => Table("tokens") = {}
    /\ desk \in WorkbookDesks => BooksInv
    /\ desk \notin WorkbookDesks => Table("versions") = {} /\ Table("shares") = {}
    /\ desk \in PromotionDesks => PromoInv
    /\ desk \in DOMAIN PersonnelTables \ PromotionDesks =>
           \A name \in Flagged : Table(name) = {}
    /\ desk \in DOMAIN PersonnelTables => PersonnelInv
    /\ desk \in AssignmentDesks => OpenInv

\* Nobody has begun to promote anybody.
LEMMA PersonnelStarts ==
    ASSUME PersonnelInit
    PROVE  /\ desk \in PromotionDesks => PromoInv
           /\ desk \notin PromotionDesks => \A name \in Flagged : Table(name) = {}
<1>1. /\ desk \in DOMAIN PersonnelTables /\ DOMAIN rows = PersonnelIds /\ StoreInit
      /\ rows = [r \in DOMAIN rows |-> rows[r]]
  BY DEF PersonnelInit
<1>2. ASSUME NEW r \in DOMAIN rows
      PROVE  /\ "there" \in DOMAIN rows[r]
             /\ \/ rows[r] = Absent /\ ~There(r)
                \/ /\ There(r) /\ "of" \in DOMAIN rows[r]
                   /\ r[1] \in Flagged =>
                         Flag(r[1]) \in DOMAIN rows[r] /\ rows[r][Flag(r[1])] = FALSE
  BY <1>1, ReferredAre DEF PersonnelInit, Referred, Over, FirstRow, There, Flag, Flagged,
     Absent
<1>3. Shape /\ \A s \in Sessions : DOMAIN open[s].writes = {}
  BY <1>2, <1>1, InitShape
<1>4. Told(rows) /\ Owners
  BY <1>2 DEF Told, Owners
<1>5. \A s \in Sessions : NamesOwner(s) /\ Promises(open[s].writes, After(s))
  BY <1>3 DEF NamesOwner, Promises
<1>8. OneFlag(rows)
  BY <1>2 DEF OneFlag, There
<1>9. \A s \in Sessions : After(s) = rows
  BY <1>1, <1>3 DEF After
<1>6. \A name : Table(name) # {} => name \in PersonnelTables[desk]
  BY <1>1, Zenon DEF Table, PersonnelIds
<1>7. ASSUME desk \notin PromotionDesks
      PROVE  \A name \in Flagged : name \notin PersonnelTables[desk]
  <2>1. CASE desk = "documents"
    BY <2>1, Zenon DEF PersonnelTables, Flagged
  <2>2. CASE desk = "qualifications"
    BY <2>2, Zenon DEF PersonnelTables, Flagged
  <2>3. CASE desk = "training"
    BY <2>3, Zenon DEF PersonnelTables, Flagged
  <2>4. CASE desk = "licences"
    BY <2>4, Zenon DEF PersonnelTables, Flagged
  <2>5. CASE desk = "skills"
    BY <2>5, Zenon DEF PersonnelTables, Flagged
  <2>6. CASE desk = "structure"
    BY <2>6, Zenon DEF PersonnelTables, Flagged
  <2> QED BY <1>1, <1>7, <2>1, <2>2, <2>3, <2>4, <2>5, <2>6, OfficeDesks DEF PromotionDesks
<1> QED BY <1>1, <1>3, <1>4, <1>5, <1>6, <1>7, <1>8, <1>9 DEF PromoInv

\* Nor has an assignment been opened.
LEMMA RosterStarts ==
    ASSUME RosterInit
    PROVE  desk \in AssignmentDesks => OpenInv
<1> SUFFICES ASSUME desk \in AssignmentDesks PROVE OpenInv
  OBVIOUS
<1>1. /\ DOMAIN rows = RosterIds /\ StoreInit
      /\ rows = [r \in DOMAIN rows |-> rows[r]]
  BY Zenon DEF RosterInit
<1>2. ASSUME NEW r \in DOMAIN rows
      PROVE  "there" \in DOMAIN rows[r] /\ (rows[r] = Absent \/ There(r))
  BY <1>2 DEF RosterInit, RosterFirst, AssignmentDesks, There, Absent
<1>3. Shape /\ \A s \in Sessions : open[s] = Idle /\ DOMAIN open[s].writes = {}
  BY <1>1, <1>2, InitShape
<1>4. Told(rows)
  BY <1>2 DEF Told
<1>5. ASSUME NEW s \in Sessions
      PROVE  OneOpened(rows, After(s))
  BY <1>3 DEF After, OneOpened, Working
<1> QED BY <1>1, <1>3, <1>4, <1>5 DEF OpenInv

\* Nobody is at any desk the office opens.
LEMMA OfficeStarts == OfficeInit => OfficeInv
<1> SUFFICES ASSUME OfficeInit PROVE OfficeInv
  OBVIOUS
<1>1. ASSUME desk \notin BookingDesks, desk # "logins", desk \notin WorkbookDesks,
             \A name \in {"tokens", "versions", "shares"} : Table(name) = {},
             desk \in PromotionDesks => PromoInv,
             desk \in DOMAIN PersonnelTables \ PromotionDesks =>
                 \A name \in Flagged : Table(name) = {},
             desk \in DOMAIN PersonnelTables => PersonnelInv,
             desk \in AssignmentDesks => OpenInv
      PROVE  OfficeInv
  BY <1>1 DEF OfficeInv
<1>2. CASE PersonnelInit
  <2>1. desk \in DOMAIN PersonnelTables /\ DOMAIN rows = PersonnelIds
    BY <1>2 DEF PersonnelInit
  <2>2. \A name : Table(name) # {} => name \in PersonnelTables[desk]
    BY <2>1 DEF Table, PersonnelIds
  <2>3. \A name \in {"tokens", "versions", "shares"} : name \notin PersonnelTables[desk]
    <3>1. CASE desk = "family"
      BY <3>1, Zenon DEF PersonnelTables
    <3>2. CASE desk = "dependency"
      BY <3>2, Zenon DEF PersonnelTables
    <3>3. CASE desk = "contacts"
      BY <3>3, Zenon DEF PersonnelTables
    <3>4. CASE desk = "resumes"
      BY <3>4, Zenon DEF PersonnelTables
    <3>5. CASE desk = "documents"
      BY <3>5, Zenon DEF PersonnelTables
    <3>6. CASE desk = "qualifications"
      BY <3>6, Zenon DEF PersonnelTables
    <3>7. CASE desk = "training"
      BY <3>7, Zenon DEF PersonnelTables
    <3>8. CASE desk = "licences"
      BY <3>8, Zenon DEF PersonnelTables
    <3>9. CASE desk = "skills"
      BY <3>9, Zenon DEF PersonnelTables
    <3>10. CASE desk = "structure"
      BY <3>10, Zenon DEF PersonnelTables
    <3> QED BY <2>1, OfficeDesks, Zenon, <3>1, <3>2, <3>3, <3>4, <3>5, <3>6, <3>7, <3>8, <3>9, <3>10
  <2>4. /\ desk \in PromotionDesks => PromoInv
        /\ desk \notin PromotionDesks => \A name \in Flagged : Table(name) = {}
    BY <1>2, PersonnelStarts
  <2>5. PersonnelInv
    BY <1>2, PersonnelBegins
  <2> QED BY <1>1, <2>1, <2>2, <2>3, <2>4, <2>5, OfficeDesks
       DEF BookingDesks, WorkbookDesks, AssignmentDesks
<1>3. CASE RosterInit
  <2>1. desk \in DOMAIN RosterTables /\ DOMAIN rows = RosterIds
    BY <1>3, Zenon DEF RosterInit
  <2>2. \A name : Table(name) # {} => name \in RosterTables[desk]
    BY <2>1, Zenon DEF Table, RosterIds
  <2>3. \A name \in {"tokens", "versions", "shares"} : name \notin RosterTables[desk]
    <3>1. CASE desk = "assignments"
      BY <3>1, Zenon DEF RosterTables
    <3>2. CASE desk = "tenure"
      BY <3>2, Zenon DEF RosterTables
    <3>3. CASE desk = "rotations"
      BY <3>3, Zenon DEF RosterTables
    <3>4. CASE desk = "authorizations"
      BY <3>4, Zenon DEF RosterTables
    <3>5. CASE desk = "timesheets"
      BY <3>5, Zenon DEF RosterTables
    <3>6. CASE desk = "timelogs"
      BY <3>6, Zenon DEF RosterTables
    <3> QED BY <2>1, OfficeDesks, Zenon, <3>1, <3>2, <3>3, <3>4, <3>5, <3>6
  <2> QED BY <1>1, <1>3, <2>1, <2>2, <2>3, OfficeDesks, RosterStarts
       DEF BookingDesks, WorkbookDesks, PromotionDesks
<1>4. CASE BookingInit
  BY <1>4, BookingStarts, OfficeDesks DEF OfficeInv, BookingInv, BookingDesks,
     WorkbookDesks, BookingIds, Table, PromotionDesks, AssignmentDesks
<1>5. CASE AccountInit
  BY <1>5, AccountStarts, OfficeDesks DEF AccountInit, Table, AccountIds, AccountTables,
     OfficeInv, AccountInv, BookingDesks, WorkbookDesks, PromotionDesks, AssignmentDesks
<1>6. CASE WorkbookInit
  <2>1. BooksInv
    BY <1>6, BooksStart
  <2> QED BY <2>1, OfficeDesks DEF OfficeInv, BooksInv, BookingDesks, WorkbookDesks, BookIds,
       Table, PromotionDesks, AssignmentDesks
<1>7. CASE AdministrationInit
  <2>1. desk \in DOMAIN AdministrationIds /\ DOMAIN rows = AdministrationIds[desk]
    BY <1>7 DEF AdministrationInit
  <2>2. \A r \in AdministrationIds[desk] : r[1] \notin {"tokens", "versions", "shares"}
    BY <2>1 DEF AdministrationIds, OneOf
  <2> QED BY <1>1, <2>1, <2>2, OfficeDesks DEF BookingDesks, WorkbookDesks, Table,
       PromotionDesks, AssignmentDesks
<1> QED BY <1>2, <1>3, <1>4, <1>5, <1>6, <1>7 DEF OfficeInit

\* Every step of the office keeps the invariants of its desks.
LEMMA OfficeSteps == OfficeInv /\ [OfficeNext]_storeVars => OfficeInv'
<1> SUFFICES ASSUME OfficeInv, [OfficeNext]_storeVars PROVE OfficeInv'
  OBVIOUS
<1>1. desk' = desk /\ DOMAIN rows' = DOMAIN rows
  BY OneOffice DEF Alike, storeVars
<1>2. \A name : Table(name)' = Table(name)
  BY <1>1 DEF Table
<1>3. BookingDesks' = BookingDesks /\ WorkbookDesks' = WorkbookDesks
  BY DEF BookingDesks, WorkbookDesks
<1>4. desk \in BookingDesks => BookingInv'
  BY OwnOffice, BookingSteps DEF OfficeInv
<1>5. desk = "logins" => TokenInv'
  BY OwnOffice, AccountSteps, <1>1 DEF OfficeInv, AccountInv
<1>6. desk \in WorkbookDesks => BooksInv'
  BY OwnOffice, BooksSteps DEF OfficeInv
<1>7. desk \in PromotionDesks => PromoInv'
  BY OwnOffice, OfficeDesks, PromoSteps DEF OfficeInv, PromotionDesks
<1>8. desk \in AssignmentDesks => OpenInv'
  BY OwnOffice, OfficeDesks, OpenSteps DEF OfficeInv, AssignmentDesks
<1>9. /\ PromotionDesks' = PromotionDesks /\ AssignmentDesks' = AssignmentDesks
      /\ Flagged' = Flagged
  BY DEF PromotionDesks, AssignmentDesks, Flagged
<1>10. DOMAIN PersonnelTables' = DOMAIN PersonnelTables
  BY Zenon DEF PersonnelTables
<1>11. desk \in DOMAIN PersonnelTables => PersonnelInv'
  BY OwnOffice, PersonnelGoesOn DEF OfficeInv
<1> QED BY <1>1, <1>2, <1>3, <1>4, <1>5, <1>6, <1>7, <1>8, <1>9, <1>10, <1>11 DEF OfficeInv

\* However many requests book, decide and end at once, the periods booked on an
\* employee never overlap (LeaveRequestService.create, add_salary, end_salary).
THEOREM LeaveNeverOverlaps == OfficeSpec => [](BookingTypeOK /\ NeverOverlap)
<1>1. OfficeInv => BookingTypeOK /\ NeverOverlap
  BY DEF OfficeInv, BookingInv, BookingTypeOK, NeverOverlap
<1> QED BY <1>1, OfficeStarts, OfficeSteps, PTL DEF OfficeSpec

\* However refreshes, sign-outs and resets run into each other, no login has two
\* tokens that can be traded (AuthService.refresh).
THEOREM TokensTradedOnce == OfficeSpec => []OneTokenPerLogin
<1>1. OfficeInv => OneTokenPerLogin
  BY DEF OfficeInv, OneTokenPerLogin, Live, TokenInv
<1> QED BY <1>1, OfficeStarts, OfficeSteps, PTL DEF OfficeSpec

\* Whoever saves, deletes and shares at the same time, a save is of the latest version
\* its device had seen, as long as nobody edits a file out of the workbook, and a
\* shared copy goes up one revision and keeps the one before (save_workbook,
\* workbook_shares.update).
THEOREM NothingIsLost == OfficeSpec => NothingOverwritten
<1>1. OfficeInv /\ [OfficeNext]_storeVars => [NoneOverwritten]_rows
  BY OwnOffice, BooksSteps DEF OfficeInv, NoneOverwritten, Live
<1>2. OfficeSpec => [][NoneOverwritten]_rows
  BY <1>1, OfficeStarts, OfficeSteps, PTL DEF OfficeSpec
<1>3. [][NoneOverwritten]_rows => NothingOverwritten
  BY PTL DEF NoneOverwritten, NothingOverwritten
<1> QED BY <1>2, <1>3

\* Where a race left two rows of an employee flagged or two assignments open, one
\* promotion or one assignment opened, that nobody overlaps, leaves only that one
\* (_exclusive_flag, _exclusive_primary, _only_current, _reject_primary_conflict,
\* transfer).
THEOREM RacesArePutRight == OfficeSpec => PrimariesSettle
<1>1. OfficeInv /\ [OfficeNext]_storeVars => [Settled]_storeVars
  BY OwnOffice, OfficeDesks, PromotionsSettle DEF OfficeInv, PromotionDesks, Settled,
     Flagged, Table
<1>2. OfficeInv /\ [OfficeNext]_storeVars => [OpenedAlone]_storeVars
  BY OwnOffice, OfficeDesks, OpensAlone DEF OfficeInv, AssignmentDesks, OpenedAlone
<1>3. OfficeSpec => [][Settled]_storeVars
  BY <1>1, OfficeStarts, OfficeSteps, PTL DEF OfficeSpec
<1>4. OfficeSpec => [][OpenedAlone]_storeVars
  BY <1>2, OfficeStarts, OfficeSteps, PTL DEF OfficeSpec
<1>5. [][Settled]_storeVars => PromotionSettles
  BY PTL DEF Settled, PromotionSettles
<1>6. [][OpenedAlone]_storeVars => OpensOnlyOne
  BY PTL DEF OpenedAlone, OpensOnlyOne
<1> QED BY <1>3, <1>4, <1>5, <1>6 DEF PrimariesSettle

\* As long as no request commits on rows that had changed since it read them, whatever
\* clerks call in whatever order: an employee has at most one primary next of kin, one
\* primary contact and one current resume, which is not archived; no pair of dates is
\* reversed, no verified document has expired, and nothing cites a document or a relative
\* of somebody else (_exclusive_flag, _exclusive_primary, _only_current,
\* _family_or_404, _document_or_404).
THEOREM RecordsStaySound == OfficeSpec => [](PersonnelTypeOK /\ RecordsAreSound)
<1>1. OfficeInv => PersonnelTypeOK /\ RecordsAreSound
  BY PersonnelSays DEF PersonnelTypeOK, RecordsAreSound, OfficeInv, PromoInv, OneFlag,
     AtMostOne, Live, Table, There, Flagged, Flag
<1> QED BY <1>1, OfficeStarts, OfficeSteps, PTL DEF OfficeSpec

-----------------------------------------------------------------------------
(* Where employees work. *)

\* The types of the columns of each table.
StaffTypes == [there |-> {TRUE}, active |-> BOOLEAN]
AssignmentTypes ==
    [there |-> {TRUE}, of |-> IF desk = "rotations" THEN Employees ELSE Table("employees"),
     from |-> Days, until |-> Dates, primary |-> BOOLEAN, status |-> AssignmentStatuses]
PatternTypes == [there |-> {TRUE}, name |-> Names, active |-> BOOLEAN]
RotationTypes ==
    [there |-> {TRUE}, of |-> Employees, pattern |-> Table("patterns"),
     job |-> {NoRef} \cup Table("assignments"), work |-> Days, ends |-> Days, off |-> Days]
AuthorizationTypes ==
    [there |-> {TRUE}, of |-> Employees, category |-> BOOLEAN, asset |-> BOOLEAN,
     from |-> Dates, until |-> Dates, status |-> {"ACTIVE", "SUSPENDED", "EXPIRED", "REVOKED"}]
TimeLogTypes ==
    [there |-> {TRUE}, of |-> Employees, start |-> Dates, end |-> Dates,
     status |-> {"PENDING", "COMPLETED"}]
SheetTypes == [there |-> {TRUE}, of |-> Table("employees"), report |-> Names]
SheetDayTypes ==
    [there |-> {TRUE}, sheet |-> Table("timesheets"), day |-> Days, report |-> Names]

RosterTypes ==
    [r \in DOMAIN rows |->
        IF r[1] = "employees" THEN StaffTypes ELSE IF r[1] = "assignments" THEN AssignmentTypes
        ELSE IF r[1] = "patterns" THEN PatternTypes ELSE IF r[1] = "rotations" THEN RotationTypes
        ELSE IF r[1] = "authorizations" THEN AuthorizationTypes
        ELSE IF r[1] = "timesheets" THEN SheetTypes
        ELSE IF desk = "timelogs" THEN TimeLogTypes ELSE SheetDayTypes]

\* Their columns.
LEMMA StaffColumns ==
    /\ DOMAIN StaffTypes = {"there", "active"}
    /\ StaffTypes.there = {TRUE} /\ StaffTypes.active = BOOLEAN
  BY DEF StaffTypes

LEMMA AssignmentColumns ==
    /\ DOMAIN AssignmentTypes = {"there", "of", "from", "until", "primary", "status"}
    /\ AssignmentTypes.there = {TRUE}
    /\ AssignmentTypes.of = IF desk = "rotations" THEN Employees ELSE Table("employees")
    /\ AssignmentTypes.from = Days /\ AssignmentTypes.until = Dates
    /\ AssignmentTypes.primary = BOOLEAN /\ AssignmentTypes.status = AssignmentStatuses
  BY DEF AssignmentTypes

LEMMA PatternColumns ==
    /\ DOMAIN PatternTypes = {"there", "name", "active"}
    /\ PatternTypes.there = {TRUE} /\ PatternTypes.name = Names /\ PatternTypes.active = BOOLEAN
  BY DEF PatternTypes

LEMMA RotationColumns ==
    /\ DOMAIN RotationTypes = {"there", "of", "pattern", "job", "work", "ends", "off"}
    /\ RotationTypes.there = {TRUE} /\ RotationTypes.of = Employees
    /\ RotationTypes.pattern = Table("patterns")
    /\ RotationTypes.job = {NoRef} \cup Table("assignments")
    /\ RotationTypes.work = Days /\ RotationTypes.ends = Days /\ RotationTypes.off = Days
  BY DEF RotationTypes

LEMMA AuthorizationColumns ==
    /\ DOMAIN AuthorizationTypes = {"there", "of", "category", "asset", "from", "until", "status"}
    /\ AuthorizationTypes.there = {TRUE} /\ AuthorizationTypes.of = Employees
    /\ AuthorizationTypes.category = BOOLEAN /\ AuthorizationTypes.asset = BOOLEAN
    /\ AuthorizationTypes.from = Dates /\ AuthorizationTypes.until = Dates
    /\ AuthorizationTypes.status = {"ACTIVE", "SUSPENDED", "EXPIRED", "REVOKED"}
  BY DEF AuthorizationTypes

LEMMA TimeLogColumns ==
    /\ DOMAIN TimeLogTypes = {"there", "of", "start", "end", "status"}
    /\ TimeLogTypes.there = {TRUE} /\ TimeLogTypes.of = Employees
    /\ TimeLogTypes.start = Dates /\ TimeLogTypes.end = Dates
    /\ TimeLogTypes.status = {"PENDING", "COMPLETED"}
  BY DEF TimeLogTypes

LEMMA SheetColumns ==
    /\ DOMAIN SheetTypes = {"there", "of", "report"}
    /\ SheetTypes.there = {TRUE} /\ SheetTypes.of = Table("employees")
    /\ SheetTypes.report = Names
  BY DEF SheetTypes

LEMMA SheetDayColumns ==
    /\ DOMAIN SheetDayTypes = {"there", "sheet", "day", "report"}
    /\ SheetDayTypes.there = {TRUE} /\ SheetDayTypes.sheet = Table("timesheets")
    /\ SheetDayTypes.day = Days /\ SheetDayTypes.report = Names
  BY DEF SheetDayTypes

\* Every table says that its rows are there.
LEMMA RosterThere ==
    ASSUME NEW r \in DOMAIN rows
    PROVE  "there" \in DOMAIN RosterTypes[r] /\ RosterTypes[r].there = {TRUE}
  BY StaffColumns, AssignmentColumns, PatternColumns, RotationColumns, AuthorizationColumns,
     TimeLogColumns, SheetColumns, SheetDayColumns DEF RosterTypes

\* Which tables a desk has.
LEMMA RosterNames ==
    ASSUME desk \in DOMAIN RosterTables, DOMAIN rows = RosterIds, NEW r \in DOMAIN rows
    PROVE  /\ r[1] = "employees" => desk \in {"assignments", "tenure", "timesheets"}
           /\ r[1] = "assignments" => desk \in {"assignments", "tenure", "rotations"}
           /\ r[1] \in {"patterns", "rotations"} => desk = "rotations"
           /\ r[1] = "authorizations" => desk = "authorizations"
           /\ r[1] = "time logs" <=> desk = "timelogs"
           /\ r[1] \in {"timesheets", "sheet days"} => desk = "timesheets"
           /\ r[1] \in {"employees", "assignments", "patterns", "rotations", "authorizations",
                        "time logs", "timesheets", "sheet days"}
<1>1. r[1] \in RosterTables[desk]
  <2>1. RosterIds \subseteq RosterTables[desk] \X Numbers
    BY Zenon DEF RosterIds
  <2> QED BY <2>1
<1>2. desk \in {"assignments", "tenure", "rotations", "authorizations", "timesheets", "timelogs"}
  BY OfficeDesks
<1>3. CASE desk = "assignments"
  BY <1>1, <1>3, Zenon DEF RosterTables
<1>4. CASE desk = "tenure"
  BY <1>1, <1>4, Zenon DEF RosterTables
<1>5. CASE desk = "rotations"
  BY <1>1, <1>5, Zenon DEF RosterTables
<1>6. CASE desk = "authorizations"
  BY <1>1, <1>6, Zenon DEF RosterTables
<1>7. CASE desk = "timesheets"
  BY <1>1, <1>7, Zenon DEF RosterTables
<1>8. CASE desk = "timelogs"
  BY <1>1, <1>8, Zenon DEF RosterTables
<1> QED BY <1>2, <1>3, <1>4, <1>5, <1>6, <1>7, <1>8, Zenon

\* Each table has its types.
LEMMA RosterTyping ==
    ASSUME NEW types, types = RosterTypes
    PROVE  /\ \A r \in Table("employees") : types[r] = StaffTypes
           /\ \A r \in Table("assignments") : types[r] = AssignmentTypes
           /\ \A r \in Table("patterns") : types[r] = PatternTypes
           /\ \A r \in Table("rotations") : types[r] = RotationTypes
           /\ \A r \in Table("authorizations") : types[r] = AuthorizationTypes
           /\ \A r \in Table("timesheets") : types[r] = SheetTypes
  BY DEF Table, RosterTypes

LEMMA DayTyping ==
    ASSUME desk \in DOMAIN RosterTables, DOMAIN rows = RosterIds, NEW types, types = RosterTypes
    PROVE  /\ \A r \in Table("time logs") : types[r] = TimeLogTypes
           /\ \A r \in Table("sheet days") : types[r] = SheetDayTypes
<1>1. \A name : \A r \in Table(name) : r \in DOMAIN rows /\ r[1] = name
  BY DEF Table
<1>2. PICK logs, days : logs = "time logs" /\ days = "sheet days"
  OBVIOUS
<1>3. \A r \in DOMAIN rows :
          (r[1] = logs => desk = "timelogs") /\ (r[1] = days => desk = "timesheets")
  BY <1>2, RosterNames, Zenon
<1>4. \A name \in {logs, days} :
          name \notin {"employees", "assignments", "patterns", "rotations", "authorizations",
                       "timesheets"}
  BY <1>2, Zenon
<1>5. \A r \in Table(logs) : types[r] = TimeLogTypes
  BY <1>1, <1>3, <1>4 DEF RosterTypes
<1>6. \A r \in Table(days) : types[r] = SheetDayTypes
  BY <1>1, <1>3, <1>4 DEF RosterTypes
<1> QED BY <1>2, <1>5, <1>6, Zenon

\* A row with these columns is one of its table.
LEMMA RosterRowsAre ==
    ASSUME NEW row
    PROVE  /\ IsRow(row, StaffTypes) => row \in StaffRows
           /\ IsRow(row, AssignmentTypes) /\ desk # "rotations" => row \in AssignmentRows
           /\ IsRow(row, PatternTypes) => row \in PatternRows
           /\ IsRow(row, RotationTypes) => row \in RotationRows
           /\ IsRow(row, AuthorizationTypes) => row \in AuthorizationRows
           /\ IsRow(row, TimeLogTypes) => row \in TimeLogRows
           /\ IsRow(row, SheetTypes) => row \in SheetRows
           /\ IsRow(row, SheetDayTypes) => row \in SheetDayRows
  BY DEF IsRow, StaffTypes, StaffRows, AssignmentTypes, AssignmentRows, PatternTypes,
     PatternRows, RotationTypes, RotationRows, AuthorizationTypes, AuthorizationRows,
     TimeLogTypes, TimeLogRows, SheetTypes, SheetRows, SheetDayTypes, SheetDayRows

\* No employee works on two primary assignments.
OneActive(tab) ==
    \A a, b \in DOMAIN rows :
        Working(tab, a) /\ Working(tab, b) /\ tab[a].of = tab[b].of => a = b

\* The days of a timesheet are of the report it has.
DaysAgree(tab) ==
    \A t \in Table("timesheets") : \A d \in Table("sheet days") :
        tab[d].there /\ tab[d].sheet = t => tab[t].there /\ tab[d].report = tab[t].report

RosterSound ==
    {tab \in Tables(RosterTypes) :
        /\ desk \in AssignmentDesks => OneActive(tab)
        /\ desk = "timesheets" => DaysAgree(tab)}

\* At a desk of the roster, rows and writes are typed and sound.
RosterFits(types, sound) ==
    /\ Shape /\ desk \in DOMAIN RosterTables /\ DOMAIN rows = RosterIds
    /\ types = RosterTypes /\ sound = RosterSound
    /\ Typed(types) /\ StaySound(sound)

\* A row that is there has the columns of its table.
LEMMA RosterRow ==
    ASSUME NEW types, NEW sound, RosterFits(types, sound), NEW name, NEW r \in Live(name)
    PROVE  /\ r \in Table(name) /\ r \in DOMAIN rows /\ There(r) /\ rows[r].there
           /\ IsRow(rows[r], types[r])
<1>1. r \in Table(name) /\ r \in DOMAIN rows /\ There(r)
  BY DEF Live, Table
<1>2. rows[r] # Absent /\ rows[r].there
  BY <1>1 DEF There, Absent
<1> QED BY <1>1, <1>2 DEF RosterFits, Typed

\* What is asked of the tables of a desk.
LEMMA RosterAsks ==
    ASSUME NEW types, NEW sound, RosterFits(types, sound), NEW tab, IsTable(tab, types)
    PROVE  /\ desk \in AssignmentDesks => (tab \in sound <=> OneActive(tab))
           /\ desk = "timesheets" => (tab \in sound <=> DaysAgree(tab))
           /\ desk \notin AssignmentDesks \cup {"timesheets"} => tab \in sound
  BY TablesAre DEF RosterFits, RosterSound, AssignmentDesks

\* Columns of an assignment that may be written, and leave one to work on.
LEMMA AssignmentChanged ==
    ASSUME NEW types, NEW sound, RosterFits(types, sound), desk \in AssignmentDesks,
           NEW s \in Sessions, NEW a \in Live("assignments"), NEW body,
           DOMAIN body \subseteq {"from", "until", "primary", "status"},
           "from" \in DOMAIN body => body.from \in Days,
           "until" \in DOMAIN body => body.until \in Dates,
           "primary" \in DOMAIN body => body.primary \in BOOLEAN,
           "status" \in DOMAIN body => body.status \in AssignmentStatuses,
           AssignmentChange(s, a, body)
    PROVE  WritesSound(s, types, sound)
<1>1. a \in Table("assignments") /\ a \in DOMAIN rows /\ rows[a].there /\ IsRow(rows[a], types[a])
  BY RosterRow
<1>2. types[a] = AssignmentTypes
  BY <1>1, RosterTyping DEF RosterFits
<1>3. MayWrite(body, types[a])
  BY <1>2, AssignmentColumns DEF MayWrite
<1>4. Proper(Set(a, body), types)
  BY <1>1, <1>3, ProperSet
<1>5. PICK old, writes : old = rows[a] /\ writes = Set(a, body)
  OBVIOUS
<1>6. /\ DOMAIN old = {"there", "of", "from", "until", "primary", "status"}
      /\ DOMAIN writes = {a} /\ writes[a] = body
  BY <1>1, <1>2, <1>5, AssignmentColumns DEF IsRow, Set
<1>7. PICK laid : laid = Over(body, old)
  OBVIOUS
<1>8. \A c \in DOMAIN old : laid[c] = IF c \in DOMAIN body THEN body[c] ELSE old[c]
  BY <1>6, <1>7 DEF Over
<1>9. laid.status = "ACTIVE" /\ laid.primary => ActivePrimary(old.of) \subseteq {a}
  BY <1>5, <1>7 DEF AssignmentChange, CheckAssignment, RejectPrimaryConflict
<1>10. ASSUME OneActive(rows), NEW now, IsTable(now, types), Laid(rows, now, writes)
       PROVE  OneActive(now)
  BY <1>1, <1>5, <1>6, <1>10, <1>8, <1>9 DEF Laid, LaidRow, ActivePrimary, Working, Live,
     Table, There, OneActive
<1>11. LaysSound(writes, types, sound)
  BY TypedTables, <1>10, RosterAsks DEF RosterFits, LaysSound
<1>12. StageLocked(s, {}, writes) /\ {} \subseteq DOMAIN rows \cup Advisory
  BY <1>5 DEF AssignmentChange, Stage
<1> QED BY <1>4, <1>5, <1>11, <1>12 DEF WritesSound

\* A new assignment, which nobody works on two of once it is there and those in its way
\* are over.
LEMMA AssignmentOpened ==
    ASSUME NEW types, NEW sound, RosterFits(types, sound), desk \in AssignmentDesks,
           NEW s \in Sessions, Spare("assignments") # {}, NEW e \in Table("employees"),
           NEW given, DOMAIN given = {"of", "from", "until", "primary", "status"},
           given.of = e, given.from \in Days, given.until \in Dates,
           given.primary \in BOOLEAN, given.status \in AssignmentStatuses,
           NEW done, DOMAIN done = {"status", "until"}, done.status = "COMPLETED",
           done.until \in Dates, NEW over, over \subseteq Live("assignments"),
           given.primary /\ given.status = "ACTIVE" => ActivePrimary(e) \subseteq over,
           StageLocked(s, {}, Over(Insert("assignments", given), SetAll(over, done)))
    PROVE  WritesSound(s, types, sound)
<1>1. Shape /\ DOMAIN rows = RosterIds /\ types = RosterTypes /\ Typed(types)
  BY DEF RosterFits
<1>2. PICK m : m \in Spare("assignments") /\ m = NewRow("assignments")
  BY <1>1, RosterNumbers, NewRowIsSpare
<1>3. m \in Table("assignments") /\ m \in DOMAIN rows /\ m[1] = "assignments" /\ ~There(m)
  BY <1>2 DEF Spare, Table
<1>4. \A r \in Table("assignments") : types[r] = AssignmentTypes
  BY <1>1, RosterTyping
<1>5. PICK writes, cols :
          /\ writes = Over(Insert("assignments", given), SetAll(over, done))
          /\ cols = Over([there |-> TRUE], given)
  OBVIOUS
<1>6. /\ DOMAIN cols = {"there", "of", "from", "until", "primary", "status"} /\ cols.there = TRUE
      /\ cols.of = e /\ cols.primary = given.primary /\ cols.status = given.status
  BY <1>5 DEF Over
<1>7. \A o \in over : o \in DOMAIN rows /\ o \in Table("assignments") /\ There(o) /\ o # m
  BY <1>3 DEF Live, Table
<1>8. writes = Over(Set(m, cols), SetAll(over, done))
  BY <1>2, <1>5 DEF Insert
<1>9. DOMAIN writes = {m} \cup over /\ writes[m] = cols /\ \A o \in over : writes[o] = done
  BY <1>7, <1>8 DEF Over, Set, SetAll
<1>10. Proper(writes, types)
  <2>1. /\ DOMAIN AssignmentTypes = {"there"} \cup DOMAIN given
        /\ \A c \in DOMAIN given \ {"there"} : given[c] \in AssignmentTypes[c]
    BY AssignmentColumns DEF AssignmentDesks
  <2>2. Proper(Insert("assignments", given), types)
    BY <1>1, <1>4, <2>1, RosterNumbers, ProperInsert
  <2>3. \A r \in over : MayWrite(done, types[r])
    BY <1>4, <1>7, AssignmentColumns DEF MayWrite, AssignmentStatuses
  <2>4. over \in SUBSET DOMAIN rows
    BY <1>7
  <2>5. Proper(SetAll(over, done), types)
    BY <2>3, <2>4, ProperSetAll
  <2> QED BY <1>5, <2>2, <2>5, ProperOver
<1>11. ASSUME OneActive(rows), NEW now, IsTable(now, types), Laid(rows, now, writes)
       PROVE  OneActive(now)
  BY <1>3, <1>7, <1>9, <1>11, <1>6 DEF Laid, LaidRow, There, Working, ActivePrimary, Live,
     Table, OneActive
<1>12. LaysSound(writes, types, sound)
  BY <1>1, TypedTables, <1>11, RosterAsks DEF LaysSound
<1>13. StageLocked(s, {}, writes) /\ {} \subseteq DOMAIN rows \cup Advisory
  BY <1>5
<1> QED BY <1>10, <1>12, <1>13 DEF WritesSound

\* The requests about assignments,
LEMMA AssignmentWrites ==
    ASSUME NEW types, NEW sound, RosterFits(types, sound), desk \in AssignmentDesks,
           NEW s \in Sessions, AssignmentStep(s)
    PROVE  WritesSound(s, types, sound)
<1>0. Today \in Days /\ NoDay \in Dates /\ Days \subseteq Dates
  BY RowStoreAssumption DEF RowStoreAssumption, Dates
<1>1. CASE AssignmentUpdate(s)
  BY <1>1, AssignmentChanged DEF AssignmentUpdate, AssignmentChanges, AssignmentStatuses
<1>2. CASE AssignmentComplete(s)
  BY <1>2, <1>0, AssignmentChanged DEF AssignmentComplete, AssignmentStatuses
<1>3. CASE AssignmentCancel(s)
  BY <1>3, AssignmentChanged DEF AssignmentCancel, AssignmentStatuses
<1>4. CASE AssignmentCreate(s)
  <2>1. PICK e \in Live("employees"), body \in AssignmentBodies :
            /\ Spare("assignments") # {}
            /\ CheckAssignment(body, e, {})
            /\ Stage(s, Insert("assignments", Over([of |-> e], body)))
    BY <1>4 DEF AssignmentCreate
  <2>2. PICK given, done : /\ given = Over([of |-> e], body)
                           /\ done = [status |-> "COMPLETED", until |-> Today]
    OBVIOUS
  <2>3. /\ DOMAIN body = {"from", "until", "primary", "status"}
        /\ body.from \in Days /\ body.until \in Dates /\ body.primary \in BOOLEAN
        /\ body.status \in AssignmentStatuses
    BY <1>0 DEF AssignmentBodies, AssignmentStatuses
  <2>4. /\ DOMAIN given = {"of"} \cup DOMAIN body /\ given.of = e
        /\ given.from = body.from /\ given.until = body.until
        /\ given.primary = body.primary /\ given.status = body.status
    BY <2>2, <2>3 DEF Over
  <2>5. given.primary /\ given.status = "ACTIVE" => ActivePrimary(e) \subseteq {}
    BY <2>1, <2>4 DEF CheckAssignment, RejectPrimaryConflict
  <2>6. Insert("assignments", given) = Over(Insert("assignments", given), SetAll({}, done))
    BY DEF Over, SetAll, Insert, Set
  <2>7. StageLocked(s, {}, Over(Insert("assignments", given), SetAll({}, done)))
    BY <2>1, <2>2, <2>6 DEF Stage
  <2>8. /\ DOMAIN given = {"of", "from", "until", "primary", "status"}
        /\ given.from \in Days /\ given.until \in Dates /\ given.primary \in BOOLEAN
        /\ given.status \in AssignmentStatuses
    BY <2>3, <2>4
  <2>9. DOMAIN done = {"status", "until"} /\ done.status = "COMPLETED" /\ done.until \in Dates
    BY <1>0, <2>2
  <2>10. e \in Table("employees") /\ {} \subseteq Live("assignments")
    BY DEF Live
  <2> QED BY <2>1, <2>4, <2>5, <2>7, <2>8, <2>9, <2>10, AssignmentOpened
<1>5. CASE Transfer(s)
  <2>1. PICK e \in Live("employees"), day \in TransferDays :
            /\ Spare("assignments") # {}
            /\ Stage(s, Over(Insert("assignments",
                                    [of |-> e, from |-> day, until |-> NoDay,
                                     primary |-> TRUE, status |-> "ACTIVE"]),
                             SetAll(ActivePrimary(e), [status |-> "COMPLETED", until |-> day])))
    BY <1>5 DEF Transfer
  <2>2. PICK given, done, over :
            /\ given = [of |-> e, from |-> day, until |-> NoDay, primary |-> TRUE,
                        status |-> "ACTIVE"]
            /\ done = [status |-> "COMPLETED", until |-> day]
            /\ over = ActivePrimary(e)
    OBVIOUS
  <2>3. day \in Days /\ day \in Dates
    BY <1>0 DEF TransferDays
  <2>4. /\ DOMAIN given = {"of", "from", "until", "primary", "status"} /\ given.of = e
        /\ given.from \in Days /\ given.until \in Dates /\ given.primary \in BOOLEAN
        /\ given.status \in AssignmentStatuses
    BY <1>0, <2>2, <2>3 DEF AssignmentStatuses
  <2>5. DOMAIN done = {"status", "until"} /\ done.status = "COMPLETED" /\ done.until \in Dates
    BY <2>2, <2>3
  <2>6. StageLocked(s, {}, Over(Insert("assignments", given), SetAll(over, done)))
    BY <2>1, <2>2 DEF Stage
  <2>7. /\ e \in Table("employees") /\ over \subseteq Live("assignments")
        /\ given.primary /\ given.status = "ACTIVE" => ActivePrimary(e) \subseteq over
    BY <2>2 DEF Live, ActivePrimary
  <2> QED BY <2>1, <2>4, <2>5, <2>6, <2>7, AssignmentOpened
<1>6. CASE EmployeeArchive(s) \/ EmployeeRestore(s)
  <2>1. PICK e \in Live("employees"), cols \in {[active |-> FALSE], [active |-> TRUE]} :
            /\ StageLocked(s, {}, Set(e, cols))
            /\ DOMAIN cols = {"active"} /\ cols.active \in BOOLEAN
    BY <1>6 DEF EmployeeArchive, Stage, EmployeeRestore
  <2>2. /\ e \in Table("employees") /\ e \in DOMAIN rows /\ rows[e].there
        /\ types[e] = StaffTypes /\ e[1] = "employees"
    BY RosterRow, RosterTyping DEF RosterFits, Table
  <2>3. DOMAIN cols = {"active"} /\ cols.active \in BOOLEAN
    BY <2>1
  <2>4. MayWrite(cols, types[e])
    BY <2>2, <2>3, StaffColumns DEF MayWrite
  <2>5. PICK writes : writes = Set(e, cols)
    OBVIOUS
  <2>6. Proper(writes, types) /\ DOMAIN writes = {e}
    BY <2>2, <2>4, <2>5, ProperSet DEF Set
  <2>7. ASSUME OneActive(rows), NEW now, IsTable(now, types), Laid(rows, now, writes)
        PROVE  OneActive(now)
    BY <2>2, <2>6, <2>7 DEF Laid, Working, OneActive
  <2>8. LaysSound(writes, types, sound)
    BY TypedTables, <2>7, RosterAsks DEF RosterFits, LaysSound
  <2>9. StageLocked(s, {}, writes) /\ {} \subseteq DOMAIN rows \cup Advisory
    BY <2>1, <2>5
  <2> QED BY <2>6, <2>8, <2>9 DEF WritesSound
<1> QED BY <1>1, <1>2, <1>3, <1>4, <1>5, <1>6 DEF AssignmentStep

\* about rotations,
LEMMA RotationWrites ==
    ASSUME NEW types, NEW sound, RosterFits(types, sound), NEW s \in Sessions, RotationStep(s)
    PROVE  Writes(s, types)
<1>1. /\ Shape /\ DOMAIN rows = RosterIds /\ types = RosterTypes /\ Typed(types)
      /\ \A name : \A r \in Table(name) : r[2] \in Nat
  BY RosterNumbers DEF RosterFits
<1>2. CASE PatternCreate(s)
  <2>1. PICK n \in Names :
            /\ Spare("patterns") # {}
            /\ Stage(s, Insert("patterns", [name |-> n, active |-> TRUE]))
    BY <1>2 DEF PatternCreate
  <2>2. PICK given : given = [name |-> n, active |-> TRUE]
    OBVIOUS
  <2>3. DOMAIN given = {"name", "active"} /\ given.name \in Names /\ given.active \in BOOLEAN
    BY <2>2
  <2>4. /\ DOMAIN PatternTypes = {"there"} \cup DOMAIN given
        /\ \A c \in DOMAIN given \ {"there"} : given[c] \in PatternTypes[c]
    BY <2>3, PatternColumns
  <2>5. \A r \in Table("patterns") : types[r] = PatternTypes
    BY <1>1, RosterTyping
  <2> QED BY <1>1, <2>1, <2>2, <2>4, <2>5, WritesInsert
<1>3. CASE PatternUpdate(s)
  <2>1. PICK p \in Live("patterns"), body \in [name : Names] \cup [active : BOOLEAN] :
            Stage(s, Set(p, body))
    BY <1>3 DEF PatternUpdate
  <2>2. p \in DOMAIN rows /\ types[p] = PatternTypes
    BY <1>1, RosterRow, RosterTyping
  <2>3. \/ DOMAIN body = {"name"} /\ body.name \in Names
        \/ DOMAIN body = {"active"} /\ body.active \in BOOLEAN
    OBVIOUS
  <2>4. MayWrite(body, types[p])
    BY <2>2, <2>3, PatternColumns DEF MayWrite
  <2>5. StageLocked(s, {}, Set(p, body)) /\ {} \subseteq DOMAIN rows \cup Advisory
    BY <2>1 DEF Stage
  <2> QED BY <2>2, <2>4, <2>5, WritesSet
<1>4. CASE RotationCreate(s)
  BY <1>4, RotationColumns, <1>1, RosterTyping, WritesInsert DEF RotationCreate, Over, Live
<1> QED BY <1>2, <1>3, <1>4 DEF RotationStep

\* about authorizations,
LEMMA AuthorizationWrites ==
    ASSUME NEW types, NEW sound, RosterFits(types, sound), NEW s \in Sessions,
           AuthorizationStep(s)
    PROVE  Writes(s, types)
<1>1. /\ Shape /\ DOMAIN rows = RosterIds /\ types = RosterTypes /\ Typed(types)
      /\ \A name : \A r \in Table(name) : r[2] \in Nat
  BY RosterNumbers DEF RosterFits
<1>2. CASE AuthorizationCreate(s)
  BY <1>2, AuthorizationColumns, <1>1, RosterTyping, WritesInsert DEF AuthorizationCreate,
     AuthorizationBodies, Over
<1>3. ASSUME NEW a \in Live("authorizations"), NEW body,
             body \in AuthorizationChanges \cup {[status |-> "REVOKED"]}, Stage(s, Set(a, body))
      PROVE  Writes(s, types)
  <2>1. a \in DOMAIN rows /\ types[a] = AuthorizationTypes
    BY <1>1, RosterRow, RosterTyping
  <2>2. \/ DOMAIN body = {"category"} /\ body.category \in BOOLEAN
        \/ DOMAIN body = {"asset"} /\ body.asset \in BOOLEAN
        \/ DOMAIN body = {"from"} /\ body.from \in Dates
        \/ DOMAIN body = {"until"} /\ body.until \in Dates
        \/ DOMAIN body = {"status"} /\ body.status \in {"ACTIVE", "SUSPENDED", "REVOKED"}
    BY <1>3 DEF AuthorizationChanges
  <2>3. MayWrite(body, AuthorizationTypes)
    BY <2>2, AuthorizationColumns DEF MayWrite
  <2>4. StageLocked(s, {}, Set(a, body)) /\ {} \subseteq DOMAIN rows \cup Advisory
    BY <1>3 DEF Stage
  <2> QED BY <2>1, <2>3, <2>4, WritesSet
<1>4. CASE AuthorizationUpdate(s) \/ AuthorizationRevoke(s)
  BY <1>3, <1>4 DEF AuthorizationUpdate, AuthorizationRevoke
<1> QED BY <1>2, <1>4 DEF AuthorizationStep

\* about the time worked,
LEMMA TimeLogWrites ==
    ASSUME NEW types, NEW sound, RosterFits(types, sound), NEW s \in Sessions, TimeLogCreate(s)
    PROVE  Writes(s, types)
<1>1. /\ Shape /\ DOMAIN rows = RosterIds /\ types = RosterTypes /\ Typed(types)
      /\ \A name : \A r \in Table(name) : r[2] \in Nat
  BY RosterNumbers DEF RosterFits
<1>2. PICK logs : logs = "time logs"
  OBVIOUS
<1>3. PICK e \in Employees, body \in [start : Dates, end : Dates] :
          /\ Spare(logs) # {}
          /\ Stage(s, Insert(logs, Over([of |-> e, status |-> IF body.end = NoDay THEN "PENDING"
                                                              ELSE "COMPLETED"], body)))
  BY <1>2, Zenon DEF TimeLogCreate
<1>4. PICK status \in {"PENDING", "COMPLETED"} :
          status = IF body.end = NoDay THEN "PENDING" ELSE "COMPLETED"
  OBVIOUS
<1>5. PICK given : given = Over([of |-> e, status |-> status], body)
  OBVIOUS
<1>6. /\ DOMAIN given = {"of", "status", "start", "end"} /\ given.of = e
      /\ given.status = status /\ given.start = body.start /\ given.end = body.end
  BY <1>5 DEF Over
<1>7. /\ DOMAIN TimeLogTypes = {"there"} \cup DOMAIN given
      /\ \A c \in DOMAIN given \ {"there"} : given[c] \in TimeLogTypes[c]
  BY <1>6, TimeLogColumns
<1>8. \A r \in Table(logs) : types[r] = TimeLogTypes
  BY <1>2, DayTyping, Zenon DEF RosterFits
<1>9. Stage(s, Insert(logs, given))
  BY <1>3, <1>4, <1>5
<1> QED BY <1>1, <1>3, <1>7, <1>8, <1>9, WritesInsert

\* The rows of the days worked, on those of spare.
DaysOn(spare, t, worked, report) ==
    LET place(r) == Cardinality({x \in spare : x[2] < r[2]}) + 1
        nth(d) == Cardinality({x \in worked : x <= d})
        used == {r \in spare : place(r) <= Cardinality(worked)}
        day(r) == CHOOSE d \in worked : nth(d) = place(r)
    IN [r \in used |-> [there |-> TRUE, sheet |-> t, day |-> day(r), report |-> report]]

\* On spare rows, a row for a day of the report.
DaysMade(new, spare, t, worked, report) ==
    /\ DOMAIN new \subseteq spare
    /\ \A r \in DOMAIN new :
          /\ DOMAIN new[r] = {"there", "sheet", "day", "report"}
          /\ new[r] = [c \in DOMAIN new[r] |-> new[r][c]]
          /\ new[r].there = TRUE /\ new[r].sheet = t /\ new[r].day \in worked
          /\ new[r].report = report

\* Each of them has a day that was worked: as many come before it as days do.
LEMMA DaysOnAre ==
    ASSUME NEW spare, IsFiniteSet(spare), NEW worked \in SUBSET Days, NEW t, NEW report
    PROVE  DaysMade(DaysOn(spare, t, worked, report), spare, t, worked, report)
<1>0. PICK new : new = DaysOn(spare, t, worked, report)
  OBVIOUS
<1> DEFINE before(r) == {x \in spare : x[2] < r[2]}
           nth(d) == Cardinality({x \in worked : x <= d})
           day(r) == CHOOSE d \in worked : nth(d) = Cardinality(before(r)) + 1
<1>1. DOMAIN new = {r \in spare : Cardinality(before(r)) + 1 <= Cardinality(worked)}
  BY <1>0 DEF DaysOn
<1>2. \A r \in DOMAIN new :
          new[r] = [there |-> TRUE, sheet |-> t, day |-> day(r), report |-> report]
  BY <1>0 DEF DaysOn
<1>3. ASSUME NEW r \in DOMAIN new PROVE day(r) \in worked
  <2>1. IsFiniteSet(before(r)) /\ Cardinality(before(r)) \in Nat
    BY FS_Subset, FS_CardinalityType
  <2>2. PICK k : k = Cardinality(before(r)) + 1
    OBVIOUS
  <2>3. k \in Nat /\ k >= 1
    BY <2>1, <2>2
  <2>4. AtLeast(worked, k)
    BY <1>1, <2>2 DEF AtLeast
  <2>5. worked \in SUBSET Nat
    BY RowStoreAssumption DEF RowStoreAssumption
  <2>6. \E d \in worked : nth(d) = k
    BY <2>3, <2>4, <2>5, NthNumber
  <2> QED BY <2>2, <2>6
<1> HIDE DEF day, before, nth
<1> QED BY <1>0, <1>1, <1>2, <1>3 DEF DaysMade

\* New days of a timesheet.
AreDays(new, days, t, report, types) ==
    /\ DOMAIN new \subseteq Spare(days) /\ Proper(new, types)
    /\ \A r \in DOMAIN new : /\ "there" \in DOMAIN new[r] /\ new[r].there = TRUE
                             /\ "sheet" \in DOMAIN new[r] /\ new[r].sheet = t
                             /\ "report" \in DOMAIN new[r] /\ new[r].report = report

LEMMA NewDaysAre ==
    ASSUME NEW types, NEW sound, RosterFits(types, sound), NEW days, days = "sheet days",
           NEW t \in Table("timesheets"), NEW worked \in SUBSET Days, NEW report \in Names
    PROVE  AreDays(NewDays(t, worked, report), days, t, report, types)
<1>0. PICK new : new = NewDays(t, worked, report)
  OBVIOUS
<1>1. PICK spare : spare = Spare(days)
  OBVIOUS
<1>2. new = DaysOn(spare, t, worked, report)
  BY <1>0, <1>1, Zenon DEF NewDays, DaysOn
<1>3. spare \subseteq Table(days) /\ spare \subseteq DOMAIN rows
  BY <1>1 DEF Spare, Table
<1>4. IsFiniteSet(spare)
  <2>1. IsFiniteSet({days} \X Numbers)
    BY FS_Singleton, FS_Product, RowStoreAssumption DEF RowStoreAssumption
  <2>2. RosterIds \subseteq RosterTables[desk] \X Numbers
    BY Zenon DEF RosterIds
  <2>3. ASSUME NEW x \in spare PROVE x \in {days} \X Numbers
    BY <1>3, <2>2 DEF RosterFits, Table
  <2> QED BY <2>1, <2>3, FS_Subset
<1>5. /\ DOMAIN new \subseteq spare
      /\ \A r \in DOMAIN new :
            /\ DOMAIN new[r] = {"there", "sheet", "day", "report"}
            /\ new[r] = [c \in DOMAIN new[r] |-> new[r][c]]
            /\ new[r].there = TRUE /\ new[r].sheet = t /\ new[r].day \in worked
            /\ new[r].report = report
  <2>1. DaysMade(DaysOn(spare, t, worked, report), spare, t, worked, report)
    BY <1>4, DaysOnAre
  <2>2. DaysMade(new, spare, t, worked, report)
    BY <1>2, <2>1
  <2> QED BY <2>2 DEF DaysMade
<1>6. \A r \in Table(days) : types[r] = SheetDayTypes
  BY DayTyping, Zenon DEF RosterFits
<1>7. ASSUME NEW r \in DOMAIN new PROVE r \in DOMAIN rows /\ MayWrite(new[r], types[r])
  <2>1. r \in DOMAIN rows /\ types[r] = SheetDayTypes
    BY <1>3, <1>5, <1>6, <1>7
  <2>2. PICK row : row = new[r]
    OBVIOUS
  <2>3. /\ DOMAIN row = {"there", "sheet", "day", "report"} /\ row = [c \in DOMAIN row |-> row[c]]
        /\ row.there = TRUE /\ row.sheet = t /\ row.day \in Days /\ row.report = report
    BY <1>5, <1>7, <2>2
  <2>4. IsRow(row, SheetDayTypes)
    BY <2>3, SheetDayColumns DEF IsRow
  <2> QED BY <2>1, <2>2, <2>4 DEF MayWrite
<1>8. AreDays(new, days, t, report, types)
  BY <1>1, <1>5, <1>7 DEF Proper, AreDays
<1> QED BY <1>0, <1>8

\* Of an employee's timesheets, and the days of one: what a request finds.
LEMMA TimesheetWrites ==
    ASSUME NEW types, NEW sound, RosterFits(types, sound), desk = "timesheets",
           NEW s \in Sessions, SaveTimesheet(s)
    PROVE  WritesSound(s, types, sound)
<1>1. /\ Shape /\ DOMAIN rows = RosterIds /\ types = RosterTypes /\ Typed(types)
      /\ \A name : \A r \in Table(name) : r[2] \in Nat
  BY RosterNumbers DEF RosterFits
<1>2. PICK days : days = "sheet days"
  OBVIOUS
<1>3. PICK e \in Live("employees"), worked \in SUBSET Days, report \in Names :
          LET sheet == CHOOSE t \in SheetsOf(e) : TRUE
              t == IF SheetsOf(e) = {} THEN NewRow("timesheets") ELSE sheet
              header == IF SheetsOf(e) = {} THEN Insert("timesheets", [of |-> e, report |-> report])
                                            ELSE Set(t, [report |-> report])
              erased == IF SheetsOf(e) = {} THEN {} ELSE DaysOf(t)
          IN /\ SheetsOf(e) = {} => Spare("timesheets") # {}
             /\ Stage(s, Over(Over(header, NewDays(t, worked, report)), SetAll(erased, Absent)))
  BY Zenon DEF SaveTimesheet
<1>4. PICK t, header, erased, new :
          /\ t = IF SheetsOf(e) = {} THEN NewRow("timesheets") ELSE CHOOSE u \in SheetsOf(e) : TRUE
          /\ header = IF SheetsOf(e) = {}
                      THEN Insert("timesheets", [of |-> e, report |-> report])
                      ELSE Set(t, [report |-> report])
          /\ erased = IF SheetsOf(e) = {} THEN {} ELSE DaysOf(t)
          /\ new = NewDays(t, worked, report)
  OBVIOUS
<1>5. /\ SheetsOf(e) = {} => Spare("timesheets") # {}
      /\ Stage(s, Over(Over(header, new), SetAll(erased, Absent)))
  BY <1>3, <1>4, Zenon
<1>6. PICK writes : writes = Over(Over(header, new), SetAll(erased, Absent))
  OBVIOUS
<1>7. \A r \in Table("timesheets") : types[r] = SheetTypes
  BY <1>1, RosterTyping
<1>8. \A d \in erased : d \in Table(days) /\ There(d) /\ rows[d].sheet = t
  <2>1. \A d \in DaysOf(t) : d \in Live(days) /\ rows[d].sheet = t
    BY <1>2, Zenon DEF DaysOf
  <2> QED BY <1>4, <2>1 DEF Live
<1>9. t \in Table("timesheets") /\ Proper(header, types)
      /\ \E cols : /\ header = Set(t, cols) /\ "report" \in DOMAIN cols /\ cols.report = report
                   /\ IF SheetsOf(e) = {} THEN ~There(t) /\ "there" \in DOMAIN cols /\ cols.there
                      ELSE There(t) /\ "there" \notin DOMAIN cols
  <2>1. CASE SheetsOf(e) = {}
    <3>1. t = NewRow("timesheets") /\ t \in Table("timesheets") /\ ~There(t)
      BY <1>1, <1>4, <1>5, <2>1, NewRowIsSpare
    <3>2. PICK given, cols : given = [of |-> e, report |-> report]
                             /\ cols = Over([there |-> TRUE], given)
      OBVIOUS
    <3>3. /\ DOMAIN given = {"of", "report"} /\ given.of = e /\ given.report = report
          /\ "there" \in DOMAIN cols /\ cols.there = TRUE
          /\ "report" \in DOMAIN cols /\ cols.report = report
      BY <3>2 DEF Over
    <3>4. e \in Table("employees")
      BY DEF Live
    <3>5. /\ DOMAIN SheetTypes = {"there"} \cup DOMAIN given
          /\ \A c \in DOMAIN given \ {"there"} : given[c] \in SheetTypes[c]
      BY <3>3, <3>4, SheetColumns
    <3>6. Proper(Insert("timesheets", given), types)
      BY <1>1, <1>5, <1>7, <2>1, <3>5, ProperInsert
    <3>7. header = Insert("timesheets", given)
      BY <1>4, <2>1, <3>2
    <3>8. header = Set(t, cols)
      BY <3>1, <3>2, <3>7 DEF Insert
    <3> QED BY <2>1, <3>1, <3>3, <3>6, <3>7, <3>8
  <2>2. CASE SheetsOf(e) # {}
    <3>1. t \in SheetsOf(e)
      BY <1>4, <2>2
    <3>2. t \in Table("timesheets") /\ There(t) /\ t \in DOMAIN rows
      BY <3>1 DEF SheetsOf, Live, Table
    <3>3. PICK cols : cols = [report |-> report]
      OBVIOUS
    <3>4. header = Set(t, cols)
      BY <1>4, <2>2, <3>3
    <3>5. DOMAIN cols = {"report"} /\ cols.report = report
      BY <3>3
    <3>6. MayWrite(cols, types[t])
      BY <1>7, <3>2, <3>5, SheetColumns DEF MayWrite
    <3>7. Proper(header, types)
      BY <3>2, <3>4, <3>6, ProperSet
    <3> QED BY <2>2, <3>2, <3>4, <3>5, <3>7
  <2> QED BY <2>1, <2>2
<1>10. PICK cols : /\ header = Set(t, cols) /\ "report" \in DOMAIN cols /\ cols.report = report
                   /\ IF SheetsOf(e) = {} THEN ~There(t) /\ "there" \in DOMAIN cols /\ cols.there
                      ELSE There(t) /\ "there" \notin DOMAIN cols
  BY <1>9
<1>11. /\ DOMAIN new \subseteq Spare(days) /\ Proper(new, types)
       /\ \A r \in DOMAIN new : /\ "there" \in DOMAIN new[r] /\ new[r].there = TRUE
                                /\ "sheet" \in DOMAIN new[r] /\ new[r].sheet = t
                                /\ "report" \in DOMAIN new[r] /\ new[r].report = report
  <2>1. AreDays(NewDays(t, worked, report), days, t, report, types)
    BY <1>2, <1>9, NewDaysAre, Zenon
  <2>2. AreDays(new, days, t, report, types)
    BY <1>4, <2>1, Zenon
  <2> QED BY <2>2 DEF AreDays
<1>12. Proper(SetAll(erased, Absent), types)
  <2>1. \A d \in erased : MayWrite(Absent, types[d])
    BY DEF MayWrite, Absent
  <2>2. erased \in SUBSET DOMAIN rows
    BY <1>8 DEF Table
  <2> QED BY <2>1, <2>2, ProperSetAll
<1>13. Proper(writes, types)
  BY <1>9, <1>11, ProperOver, <1>6, <1>12
<1>14. /\ \A d \in DOMAIN new : d \in Table(days) /\ ~There(d)
       /\ \A d \in Table(days) : d # t
  BY <1>2, <1>9, <1>11 DEF Spare, Table
<1>15. /\ DOMAIN writes = {t} \cup DOMAIN new \cup erased
       /\ writes[t] = cols
       /\ \A d \in DOMAIN new : writes[d] = new[d]
       /\ \A d \in erased : writes[d] = Absent
  BY <1>10, <1>14, <1>6, <1>8 DEF Set, Over, SetAll
<1>16. ASSUME DaysAgree(rows), NEW now, IsTable(now, types), Laid(rows, now, writes)
       PROVE  DaysAgree(now)
  <2>1. t \in DOMAIN rows /\ \A d \in Table(days) : d \in DOMAIN rows
    BY <1>9 DEF Table
  <2>2. LaidRow(now[t], cols, rows[t])
    BY <1>15, <1>16, <2>1 DEF Laid
  <2>3. now[t].there /\ now[t].report = report
    BY <1>10, <2>2 DEF LaidRow, There
  <2>4. ASSUME NEW u \in Table("timesheets"), NEW d \in Table(days), now[d].there, now[d].sheet = u
        PROVE  now[u].there /\ now[d].report = now[u].report
    <3>1. CASE d \in DOMAIN new
      BY <1>15, <1>16, <2>1, <3>1, <1>11, <2>3, <2>4 DEF Laid, LaidRow
    <3>2. CASE d \in erased
      BY <1>15, <1>16, <2>1, <3>2, <2>4 DEF Laid, LaidRow, Absent
    <3>3. CASE d \notin DOMAIN new /\ d \notin erased
      <4>1. now[d] = rows[d]
        BY <1>14, <1>15, <1>16, <2>1, <3>3 DEF Laid
      <4>2. rows[u].there /\ rows[d].report = rows[u].report
        BY <1>2, <1>16, <2>4, <4>1, Zenon DEF DaysAgree
      <4>3. u # t
        <5>1. SUFFICES ASSUME u = t PROVE FALSE
          OBVIOUS
        <5>2. There(t)
          BY <4>2, <5>1 DEF There
        <5>3. SheetsOf(e) # {}
          BY <1>10, <5>2
        <5>4. d \in Live(days) /\ rows[d].sheet = t
          BY <2>4, <4>1, <5>1 DEF Live, There
        <5>5. d \in DaysOf(t)
          BY <1>2, <5>4, Zenon DEF DaysOf
        <5> QED BY <1>4, <3>3, <5>3, <5>5
      <4>4. u \in DOMAIN rows /\ u \notin Table(days)
        BY <1>2 DEF Table
      <4>5. now[u] = rows[u]
        BY <1>8, <1>14, <1>15, <1>16, <4>3, <4>4 DEF Laid
      <4> QED BY <4>1, <4>2, <4>5
    <3> QED BY <3>1, <3>2, <3>3
  <2> QED BY <1>2, <2>4, Zenon DEF DaysAgree
<1>17. LaysSound(writes, types, sound)
  BY <1>1, TypedTables, <1>16, RosterAsks DEF LaysSound
<1>18. StageLocked(s, {}, writes) /\ {} \subseteq DOMAIN rows \cup Advisory
  BY <1>5, <1>6 DEF Stage
<1> QED BY <1>13, <1>17, <1>18 DEF WritesSound

\* Every request of the roster.
LEMMA RosterWrites ==
    ASSUME NEW types, NEW sound, RosterFits(types, sound), NEW s \in Sessions, RosterStep(s)
    PROVE  WritesSound(s, types, sound)
  BY RosterAsks, AllSound, AssignmentWrites, RotationWrites, AuthorizationWrites,
     TimesheetWrites, TimeLogWrites DEF AssignmentDesks, RosterStep

\* The roster as it is.
RosterInv == RosterFits(RosterTypes, RosterSound)

\* It begins with employees who work nowhere.
LEMMA RosterBegins == RosterInit => RosterInv
<1> SUFFICES ASSUME RosterInit PROVE RosterInv
  OBVIOUS
<1>1. /\ desk \in DOMAIN RosterTables /\ DOMAIN rows = RosterIds /\ StoreInit
      /\ rows = [r \in DOMAIN rows |-> rows[r]]
  BY Zenon DEF RosterInit
<1>2. PICK types, sound : types = RosterTypes /\ sound = RosterSound
  OBVIOUS
<1>3. ASSUME NEW r \in DOMAIN rows
      PROVE  \/ rows[r] = Absent
             \/ /\ There(r) /\ IsRow(rows[r], types[r])
                /\ r[1] = "assignments" => ~rows[r].primary
                /\ r[1] \in {"employees", "assignments"}
  <2>1. PICK owner \in [Numbers -> Employees] :
            rows[r] = IF r[1] = "employees" \/ (desk = "rotations" /\ r[1] = "assignments")
                      THEN RosterFirst(r, owner) ELSE Absent
    BY <1>1, Zenon DEF RosterInit
  <2>2. r[2] \in Numbers
    <3>1. RosterIds \subseteq RosterTables[desk] \X Numbers
      BY Zenon DEF RosterIds
    <3> QED BY <1>1, <3>1
  <2>3. CASE r[1] = "employees"
    <3>1. PICK row : row = [there |-> TRUE, active |-> TRUE]
      OBVIOUS
    <3>2. rows[r] = row
      BY <2>1, <2>3, <3>1 DEF RosterFirst
    <3>3. types[r] = StaffTypes
      BY <2>3, <1>2, RosterTyping DEF Table
    <3>4. /\ DOMAIN row = {"there", "active"} /\ row = [c \in DOMAIN row |-> row[c]]
          /\ row.there = TRUE /\ row.active = TRUE
      BY <3>1
    <3>5. \A c \in DOMAIN StaffTypes : row[c] \in StaffTypes[c]
      BY <3>4, StaffColumns
    <3>6. IsRow(row, StaffTypes)
      BY <3>4, <3>5, StaffColumns DEF IsRow
    <3> QED BY <2>3, <3>2, <3>3, <3>4, <3>6 DEF There
  <2>4. CASE desk = "rotations" /\ r[1] = "assignments"
    <3>1. PICK e \in Employees : e = owner[r[2]]
      BY <2>1, <2>2
    <3>2. PICK row : row = [there |-> TRUE, of |-> e, from |-> Today, until |-> NoDay,
                            primary |-> FALSE, status |-> "ACTIVE"]
      OBVIOUS
    <3>3. rows[r] = row
      BY <2>1, <2>4, <3>1, <3>2 DEF RosterFirst
    <3>4. types[r] = AssignmentTypes
      BY <2>4, <1>2, RosterTyping DEF Table
    <3>5. /\ DOMAIN row = {"there", "of", "from", "until", "primary", "status"}
          /\ row = [c \in DOMAIN row |-> row[c]]
          /\ row.there = TRUE /\ row.of = e /\ row.from = Today /\ row.until = NoDay
          /\ row.primary = FALSE /\ row.status = "ACTIVE"
      BY <3>2
    <3>7. \A c \in DOMAIN AssignmentTypes : row[c] \in AssignmentTypes[c]
      <4>1. /\ row.from \in Days /\ row.until \in Dates /\ row.primary \in BOOLEAN
            /\ row.status \in AssignmentStatuses /\ row.of \in Employees /\ row.there \in {TRUE}
        BY <3>5, RowStoreAssumption DEF RowStoreAssumption, Dates, AssignmentStatuses
      <4>2. AssignmentTypes.of = Employees
        BY <2>4, AssignmentColumns
      <4> QED BY <4>1, <4>2, AssignmentColumns
    <3>6. IsRow(row, AssignmentTypes)
      BY <3>5, <3>7, AssignmentColumns DEF IsRow
    <3> QED BY <2>4, <3>3, <3>4, <3>5, <3>6 DEF There
  <2> QED BY <2>1, <2>3, <2>4
<1>4. Shape
  BY <1>1, <1>3, InitShape
<1>5. Typed(types)
  BY <1>1, <1>2, <1>3, RosterThere, TypedStarts
<1>6. rows \in sound
  <2>1. rows \in Tables(types)
    BY <1>4, <1>5, TypedTables, TablesAre
  <2>2. OneActive(rows)
    BY <1>3 DEF OneActive, Working, There, Absent
  <2>3. DaysAgree(rows)
    <3>1. PICK days : days = "sheet days"
      OBVIOUS
    <3>2. days \notin {"employees", "assignments"}
      BY <3>1, Zenon
    <3>3. \A d \in Table(days) : d \in DOMAIN rows /\ d[1] = days
      BY DEF Table
    <3>4. \A d \in Table(days) : rows[d] = Absent
      BY <1>3, <3>2, <3>3
    <3>5. ~Absent.there
      BY DEF Absent
    <3>6. \A d \in Table(days) : ~rows[d].there
      BY <3>4, <3>5
    <3> QED BY <3>1, <3>6, Zenon DEF DaysAgree
  <2> QED BY <1>2, <2>1, <2>2, <2>3 DEF RosterSound
<1>7. StaySound(sound)
  BY <1>1, <1>4, <1>6, SoundStarts
<1>8. RosterFits(types, sound)
  BY <1>1, <1>2, <1>4, <1>5, <1>7 DEF RosterFits
<1> QED BY <1>2, <1>8 DEF RosterInv

\* Types and what is sound do not change.
LEMMA RosterStays ==
    ASSUME Alike
    PROVE  /\ RosterTypes' = RosterTypes /\ RosterSound' = RosterSound
           /\ RosterIds' = RosterIds /\ RosterTables' = RosterTables
<1>1. desk' = desk /\ DOMAIN rows' = DOMAIN rows
  BY DEF Alike
<1>2. \A name : Table(name)' = Table(name)
  BY <1>1 DEF Table
<1>3. /\ AssignmentTypes' = AssignmentTypes /\ RotationTypes' = RotationTypes
      /\ SheetTypes' = SheetTypes
  BY <1>1, <1>2 DEF AssignmentTypes, RotationTypes, SheetTypes, Dates, NoDay, NoRef,
     AssignmentStatuses
<1>4. SheetDayTypes' = SheetDayTypes
  BY <1>1, <1>2 DEF SheetDayTypes
<1>5. RosterTypes' = RosterTypes
  BY <1>1, <1>3, <1>4 DEF RosterTypes, StaffTypes, PatternTypes, AuthorizationTypes,
     TimeLogTypes, Dates, NoDay
<1>6. RosterIds' = RosterIds /\ RosterTables' = RosterTables
  <2>1. RosterTables' = RosterTables
    BY Zenon DEF RosterTables
  <2> QED BY <1>1, <2>1, Zenon DEF RosterIds
<1>7. PICK types : types = RosterTypes
  OBVIOUS
<1>8. Tables(types)' = Tables(types)
  BY <1>1, TablesStay
<1>9. \A tab : OneActive(tab)' = OneActive(tab)
  BY <1>1 DEF OneActive, Working
<1>10. \A tab : DaysAgree(tab)' = DaysAgree(tab)
  BY <1>2, Zenon DEF DaysAgree
<1>11. RosterSound = {tab \in Tables(types) : (desk \in AssignmentDesks => OneActive(tab))
                                              /\ (desk = "timesheets" => DaysAgree(tab))}
  BY <1>7 DEF RosterSound
<1>12. RosterSound' = {tab \in Tables(types)' : (desk' \in AssignmentDesks => OneActive(tab)')
                                              /\ (desk' = "timesheets" => DaysAgree(tab)')}
  BY <1>5, <1>7 DEF RosterSound, AssignmentDesks
<1>13. RosterSound' = RosterSound
  BY <1>1, <1>8, <1>9, <1>10, <1>11, <1>12
<1> QED BY <1>5, <1>6, <1>13

\* Every step keeps it.
LEMMA RosterGoesOn == RosterInv /\ [RosterNext]_storeVars => RosterInv'
  BY RosterWrites, SoundMoves, RosterStays DEF RosterInv, RosterFits, SoundMove,
     RosterCommit, RosterNext, Alike

\* What it says of each table.
LEMMA RosterSays == RosterInv => RosterTypeOK /\ RosterIsSound
<1> SUFFICES ASSUME RosterInv PROVE RosterTypeOK /\ RosterIsSound
  OBVIOUS
<1>1. PICK types, sound : types = RosterTypes /\ sound = RosterSound
  OBVIOUS
<1>2. /\ RosterFits(types, sound) /\ Shape /\ desk \in DOMAIN RosterTables
      /\ DOMAIN rows = RosterIds /\ Typed(types) /\ StaySound(sound) /\ types = RosterTypes
  BY <1>1 DEF RosterInv, RosterFits
<1>3. PICK logs, days : logs = "time logs" /\ days = "sheet days"
  OBVIOUS
<1>4. ASSUME NEW r \in DOMAIN rows, There(r) PROVE rows[r] \in RosterRows(r)
  <2>1. r \in Live(r[1]) /\ r \in Table(r[1])
    BY <1>4 DEF Live, Table
  <2>2. IsRow(rows[r], types[r])
    BY <1>2, <2>1, RosterRow
  <2>3. /\ r[1] = "employees" => types[r] = StaffTypes
        /\ r[1] = "assignments" => types[r] = AssignmentTypes
        /\ r[1] = "patterns" => types[r] = PatternTypes
        /\ r[1] = "rotations" => types[r] = RotationTypes
        /\ r[1] = "authorizations" => types[r] = AuthorizationTypes
        /\ r[1] = "timesheets" => types[r] = SheetTypes
    BY <1>2, <2>1, RosterTyping
  <2>4. /\ r[1] = logs => types[r] = TimeLogTypes
        /\ r[1] = days => types[r] = SheetDayTypes
    <3>1. /\ \A q \in Table(logs) : types[q] = TimeLogTypes
          /\ \A q \in Table(days) : types[q] = SheetDayTypes
      BY <1>2, <1>3, DayTyping, Zenon
    <3> QED BY <2>1, <3>1
  <2>5. /\ r[1] = "employees" => rows[r] \in StaffRows
        /\ r[1] = "assignments" =>
              rows[r] \in (IF desk # "rotations" THEN AssignmentRows ELSE {rows[r]})
        /\ r[1] = "patterns" => rows[r] \in PatternRows
        /\ r[1] = "rotations" => rows[r] \in RotationRows
        /\ r[1] = "authorizations" => rows[r] \in AuthorizationRows
        /\ r[1] = "timesheets" => rows[r] \in SheetRows
    BY <2>2, <2>3, RosterRowsAre
  <2>6. /\ r[1] = logs => rows[r] \in TimeLogRows
        /\ r[1] = days => rows[r] \in SheetDayRows
    BY <2>2, <2>4, RosterRowsAre
  <2>7. r[1] \in {"employees", "assignments", "patterns", "rotations", "authorizations",
                  logs, "timesheets", days}
    BY <1>2, <1>3, RosterNames, Zenon
  <2>8. CASE r[1] = "employees"
    BY <2>5, <2>8, Zenon DEF RosterRows
  <2>9. CASE r[1] = "assignments"
    BY <2>5, <2>9, Zenon DEF RosterRows
  <2>10. CASE r[1] = "patterns"
    BY <2>5, <2>10, Zenon DEF RosterRows
  <2>11. CASE r[1] = "rotations"
    BY <2>5, <2>11, Zenon DEF RosterRows
  <2>12. CASE r[1] = "authorizations"
    BY <2>5, <2>12, Zenon DEF RosterRows
  <2>13. CASE r[1] = logs
    BY <1>3, <2>6, <2>13, Zenon DEF RosterRows
  <2>14. CASE r[1] = "timesheets"
    BY <2>5, <2>14, Zenon DEF RosterRows
  <2>15. CASE r[1] = days
    BY <1>3, <2>6, <2>15, Zenon DEF RosterRows
  <2> QED BY <2>7, <2>8, <2>9, <2>10, <2>11, <2>12, <2>13, <2>14, <2>15, Zenon
<1>5. RosterTypeOK
  BY <1>4 DEF RosterTypeOK
<1>6. ASSUME ~torn, desk \in AssignmentDesks, NEW e PROVE Cardinality(ActivePrimary(e)) <= 1
  <2>1. OneActive(rows)
    BY <1>2, TypedTables, <1>6, RosterAsks DEF StaySound
  <2>2. PICK S : S = ActivePrimary(e)
    OBVIOUS
  <2>3. \A a, b \in S : a = b
    BY <2>1, <2>2 DEF OneActive, Working, ActivePrimary, Live, Table, There
  <2>4. CASE S = {}
    BY <2>2, <2>4, FS_EmptySet
  <2>5. CASE S # {}
    <3>1. PICK a : S = {a}
      BY <2>3, <2>5
    <3> QED BY <2>2, <3>1, FS_Singleton
  <2> QED BY <2>4, <2>5
<1>7. ASSUME ~torn, "employees" \in RosterTables[desk], desk # "timesheets"
      PROVE  desk \in AssignmentDesks
  <2>1. CASE desk = "rotations"
    BY <1>7, <2>1, Zenon DEF RosterTables
  <2>2. CASE desk = "authorizations"
    BY <1>7, <2>2, Zenon DEF RosterTables
  <2>3. CASE desk = "timelogs"
    BY <1>7, <2>3, Zenon DEF RosterTables
  <2> QED BY <1>2, <1>7, <2>1, <2>2, <2>3, OfficeDesks DEF AssignmentDesks
<1>8. ASSUME ~torn, NEW d \in Live(days)
      PROVE  There(rows[d].sheet) /\ rows[d].report = rows[rows[d].sheet].report
  <2>1. d \in Table(days) /\ There(d) /\ IsRow(rows[d], types[d]) /\ d \in DOMAIN rows
    BY <1>2, <1>8, RosterRow
  <2>2. desk = "timesheets"
    <3>1. d[1] = days
      BY <2>1 DEF Table
    <3> QED BY <1>2, <1>3, <2>1, <3>1, RosterNames, Zenon
  <2>3. types[d] = SheetDayTypes
    BY <1>2, <1>3, <2>1, DayTyping, Zenon
  <2>4. rows[d].sheet \in Table("timesheets")
    BY <2>1, <2>3, SheetDayColumns DEF IsRow
  <2>5. DaysAgree(rows)
    BY <1>2, TypedTables, <1>8, <2>2, RosterAsks DEF StaySound
  <2>6. PICK t \in Table("timesheets") : t = rows[d].sheet
    BY <2>4
  <2>7. rows[d].there
    BY <2>1 DEF There
  <2>8. rows[t].there /\ rows[d].report = rows[t].report
    BY <1>3, <2>1, <2>5, <2>6, <2>7, Zenon DEF DaysAgree
  <2> QED BY <2>6, <2>8 DEF There
<1>9. \A e : ~torn /\ desk \in AssignmentDesks => Cardinality(ActivePrimary(e)) <= 1
  BY <1>6
<1>10. RosterIsSound
  BY <1>3, <1>7, <1>8, <1>9, Zenon DEF RosterIsSound
<1> QED BY <1>5, <1>10
-----------------------------------------------------------------------------
(* Accounts. *)

\* The types of the columns of each table.
PersonTypes ==
    [there |-> {TRUE}, work |-> MaybeMail, personal |-> MaybeMail,
     user |-> {NoRef} \cup Table("users"), boss |-> Bosses]
UserTypes == [there |-> {TRUE}, mail |-> Mails, active |-> BOOLEAN]
PortalTypes == [there |-> {TRUE}, portal |-> Portals, fieldonly |-> BOOLEAN]
LoginTypes == [there |-> {TRUE}, active |-> BOOLEAN, setup |-> BOOLEAN]
TokenTypes ==
    [there |-> {TRUE}, user |-> Table("logins"), chain |-> Nat, live |-> BOOLEAN]

AccountTypes ==
    [r \in DOMAIN rows |->
        IF r[1] = "people" THEN PersonTypes ELSE IF r[1] = "users" THEN UserTypes
        ELSE IF r[1] = "portals" THEN PortalTypes ELSE IF r[1] = "logins" THEN LoginTypes
        ELSE TokenTypes]

\* Their columns.
LEMMA PersonColumns ==
    /\ DOMAIN PersonTypes = {"there", "work", "personal", "user", "boss"}
    /\ PersonTypes.there = {TRUE} /\ PersonTypes.work = MaybeMail
    /\ PersonTypes.personal = MaybeMail /\ PersonTypes.user = {NoRef} \cup Table("users")
    /\ PersonTypes.boss = Bosses
  BY DEF PersonTypes

LEMMA UserColumns ==
    /\ DOMAIN UserTypes = {"there", "mail", "active"}
    /\ UserTypes.there = {TRUE} /\ UserTypes.mail = Mails /\ UserTypes.active = BOOLEAN
  BY DEF UserTypes

LEMMA PortalColumns ==
    /\ DOMAIN PortalTypes = {"there", "portal", "fieldonly"}
    /\ PortalTypes.there = {TRUE} /\ PortalTypes.portal = Portals
    /\ PortalTypes.fieldonly = BOOLEAN
  BY DEF PortalTypes

LEMMA LoginColumns ==
    /\ DOMAIN LoginTypes = {"there", "active", "setup"}
    /\ LoginTypes.there = {TRUE} /\ LoginTypes.active = BOOLEAN /\ LoginTypes.setup = BOOLEAN
  BY DEF LoginTypes

LEMMA TokenColumns ==
    /\ DOMAIN TokenTypes = {"there", "user", "chain", "live"}
    /\ TokenTypes.there = {TRUE} /\ TokenTypes.user = Table("logins")
    /\ TokenTypes.chain = Nat /\ TokenTypes.live = BOOLEAN
  BY DEF TokenTypes

\* Every table says that its rows are there.
LEMMA AccountThere ==
    ASSUME NEW r \in DOMAIN rows
    PROVE  "there" \in DOMAIN AccountTypes[r] /\ AccountTypes[r].there = {TRUE}
  BY PersonColumns, UserColumns, PortalColumns, LoginColumns, TokenColumns DEF AccountTypes

\* Each has its types.
LEMMA AccountTyping ==
    ASSUME NEW types, types = AccountTypes
    PROVE  /\ \A r \in Table("people") : types[r] = PersonTypes
           /\ \A r \in Table("users") : types[r] = UserTypes
           /\ \A r \in Table("portals") : types[r] = PortalTypes
           /\ \A r \in Table("logins") : types[r] = LoginTypes
           /\ \A r \in Table("tokens") : types[r] = TokenTypes
  BY DEF Table, AccountTypes

\* An employee's account is one nobody else has, with the e-mail they work with.
SignsIn(tab) ==
    /\ \A p \in Table("people") :
          tab[p].there /\ tab[p].user # NoRef =>
              tab[tab[p].user].there /\ tab[p].work \in {NoMail, tab[tab[p].user].mail}
    /\ \A p, q \in Table("people") :
          tab[p].there /\ tab[q].there /\ tab[p].user # NoRef /\ tab[p].user = tab[q].user
              => p = q

AccountSound == {tab \in Tables(AccountTypes) : desk = "accounts" => SignsIn(tab)}

\* At a desk for accounts, rows and writes are typed and sound.
AccountFits(types, sound) ==
    /\ Shape /\ desk \in DOMAIN AccountTables /\ DOMAIN rows = AccountIds
    /\ types = AccountTypes /\ sound = AccountSound
    /\ Typed(types) /\ StaySound(sound)

\* A row that is there has the columns of its table.
LEMMA AccountRow ==
    ASSUME NEW types, NEW sound, AccountFits(types, sound), NEW name, NEW r \in Live(name)
    PROVE  /\ r \in Table(name) /\ r \in DOMAIN rows /\ There(r) /\ rows[r].there
           /\ IsRow(rows[r], types[r])
<1>1. r \in Table(name) /\ r \in DOMAIN rows /\ There(r)
  BY DEF Live, Table
<1>2. rows[r] # Absent /\ rows[r].there
  BY <1>1 DEF There, Absent
<1> QED BY <1>1, <1>2 DEF AccountFits, Typed

\* What is asked of the tables of a desk.
LEMMA AccountAsks ==
    ASSUME NEW types, NEW sound, AccountFits(types, sound), NEW tab, IsTable(tab, types)
    PROVE  /\ desk = "accounts" => (tab \in sound <=> SignsIn(tab))
           /\ desk # "accounts" => tab \in sound
  BY TablesAre DEF AccountFits, AccountSound

\* Which tables a desk has.
LEMMA AccountNames ==
    ASSUME desk \in DOMAIN AccountTables, DOMAIN rows = AccountIds, NEW r \in DOMAIN rows
    PROVE  /\ r[1] = "people" => desk \in {"accounts", "reporting"}
           /\ r[1] = "users" => desk = "accounts"
           /\ r[1] = "portals" => desk = "portals"
           /\ r[1] \in {"logins", "tokens"} => desk = "logins"
           /\ r[1] \in {"people", "users", "portals", "logins", "tokens"}
  BY DEF AccountIds, AccountTables

\* Columns laid over a row of its types make one.
LEMMA OverIsRow ==
    ASSUME NEW ty, NEW old, IsRow(old, ty), NEW cols, DOMAIN cols \subseteq DOMAIN ty,
           \A c \in DOMAIN cols : cols[c] \in ty[c]
    PROVE  /\ IsRow(Over(cols, old), ty)
           /\ \A c \in DOMAIN ty :
                 Over(cols, old)[c] = IF c \in DOMAIN cols THEN cols[c] ELSE old[c]
  BY DEF IsRow, Over

\* Who changes alone, with an account nobody else has, leaves the others as they were.
LEMMA OthersSignIn ==
    ASSUME NEW types, NEW sound, AccountFits(types, sound), SignsIn(rows),
           NEW p \in Table("people"), NEW u \in Table("users") \cup {NoRef},
           NEW now, IsTable(now, types), \A r \in DOMAIN rows \ {p, u} : now[r] = rows[r],
           now[p].there /\ now[p].user # NoRef =>
               now[p].user = u /\ now[u].there /\ now[p].work \in {NoMail, now[u].mail},
           \A q \in Table("people") \ {p} :
               rows[q].there /\ rows[q].user # NoRef => rows[q].user # u
    PROVE  SignsIn(now)
<1>1. ASSUME NEW q \in Table("people") \ {p}, now[q].there, now[q].user # NoRef
      PROVE  /\ now[q] = rows[q] /\ rows[q].user # u
             /\ now[now[q].user].there /\ now[q].work \in {NoMail, now[now[q].user].mail}
  <2>1. q \in DOMAIN rows /\ p \in DOMAIN rows /\ q[1] = "people" /\ p[1] = "people"
    BY DEF Table
  <2>2. q # u
    BY <2>1 DEF Table, NoRef
  <2>3. now[q] = rows[q] /\ rows[q].there
    BY <1>1, <2>1, <2>2
  <2>4. rows[q].user # u
    BY <1>1, <2>3
  <2>5. PICK a : a = rows[q].user
    OBVIOUS
  <2>6. a \in Table("users")
    <3>1. q \in Live("people")
      BY <2>3 DEF Live, There
    <3>2. IsRow(rows[q], PersonTypes)
      BY <3>1, AccountRow, AccountTyping DEF AccountFits
    <3> QED BY <1>1, <2>3, <2>5, <3>2, PersonColumns DEF IsRow
  <2>7. a \in DOMAIN rows /\ a # p /\ a # u
    BY <2>1, <2>4, <2>5, <2>6 DEF Table
  <2>8. now[a] = rows[a]
    BY <2>7
  <2>9. rows[a].there /\ rows[q].work \in {NoMail, rows[a].mail}
    BY <1>1, <2>3, <2>5 DEF SignsIn
  <2> QED BY <2>3, <2>4, <2>5, <2>8, <2>9
<1>2. ASSUME NEW q \in Table("people"), NEW x \in Table("people"), now[q].there, now[x].there,
             now[q].user # NoRef, now[q].user = now[x].user
      PROVE  q = x
  BY <1>1, <1>2 DEF SignsIn
<1>3. ASSUME NEW q \in Table("people"), now[q].there, now[q].user # NoRef
      PROVE  now[now[q].user].there /\ now[q].work \in {NoMail, now[now[q].user].mail}
  BY <1>3, <1>1
<1> QED BY <1>2, <1>3 DEF SignsIn

\* An employee without an account is linked to one nobody has, or to a new one.
LEMMA LinkWrites ==
    ASSUME NEW types, NEW sound, AccountFits(types, sound),
           NEW s \in Sessions, NEW p \in Table("people"), NEW row, IsRow(row, PersonTypes),
           row.user = NoRef, Linkable(row, p), NEW locked, locked \subseteq DOMAIN rows \cup Advisory,
           StageLocked(s, locked, LinkAccount(row, p))
    PROVE  WritesSound(s, types, sound)
<1>1. /\ Shape /\ DOMAIN rows = AccountIds /\ types = AccountTypes /\ Typed(types)
      /\ \A name : \A r \in Table(name) : r[2] \in Nat
  BY AccountNumbers DEF AccountFits
<1>2. /\ DOMAIN row = {"there", "work", "personal", "user", "boss"} /\ row.there = TRUE
      /\ row.work \in MaybeMail /\ row.personal \in MaybeMail /\ row.boss \in Bosses
  BY PersonColumns DEF IsRow
<1>3. p \in DOMAIN rows /\ p[1] = "people" /\ types[p] = PersonTypes
  BY <1>1, AccountTyping DEF Table
<1>4. PICK mail : mail = IF row.work # NoMail THEN row.work ELSE row.personal
  OBVIOUS
<1>5. PICK writes : writes = LinkAccount(row, p)
  OBVIOUS
<1>6. IsTable(rows, types)
  BY <1>1, TypedTables
<1>7. CASE mail = NoMail
  <2>1. writes = Set(p, row)
    BY <1>4, <1>5, <1>7 DEF LinkAccount
  <2>2. DOMAIN writes = {p} /\ writes[p] = row
    BY <2>1 DEF Set
  <2>3. Proper(writes, types)
    BY <1>3, <2>2 DEF Proper, MayWrite
  <2>4. ASSUME SignsIn(rows), NEW now, IsTable(now, types), Laid(rows, now, writes)
        PROVE  SignsIn(now)
    BY <1>3, <2>2, <2>4, <1>2, OthersSignIn DEF Laid, LaidRow
  <2>5. LaysSound(writes, types, sound)
    BY <1>6, <2>4, AccountAsks DEF LaysSound
  <2> QED BY <1>5, <2>3, <2>5 DEF WritesSound
<1>8. CASE mail # NoMail
  <2>1. mail \in MaybeMail /\ mail \in Mails
    BY <1>2, <1>4, <1>8 DEF MaybeMail
  <2>2. PICK known : known = UserWith(mail)
    OBVIOUS
  <2>3. /\ known = {} => Spare("users") # {}
        /\ \A u \in known : \A q \in Live("people") \ {p} : rows[q].user # u
    BY <1>4, <1>8, <2>2 DEF Linkable
  <2>4. PICK u : u = IF known = {} THEN NewRow("users") ELSE CHOOSE x \in known : TRUE
    OBVIOUS
  <2>5. PICK mine, theirs :
            /\ mine = Over([work |-> mail, user |-> u], row)
            /\ theirs = IF known = {} THEN Over([there |-> TRUE], [mail |-> mail, active |-> TRUE])
                        ELSE [active |-> TRUE]
    OBVIOUS
  <2>6. /\ u \in Table("users") /\ u \in DOMAIN rows /\ u # p
        /\ known = {} => ~There(u)
        /\ known # {} => u \in known /\ There(u) /\ rows[u].mail = mail
    BY <1>1, <2>3, <2>4, NewRowIsSpare, <1>3, <2>2 DEF Table, UserWith, Live
  <2>7. writes = Over(Set(p, mine), Set(u, theirs))
    <3>1. LinkAccount(row, p) = Over(Set(p, mine),
                                     IF known = {} THEN Insert("users", [mail |-> mail, active |-> TRUE])
                                     ELSE Set(u, [active |-> TRUE]))
      BY <1>4, <1>8, <2>2, <2>4, <2>5, Zenon DEF LinkAccount
    <3>2. known = {} => Insert("users", [mail |-> mail, active |-> TRUE]) = Set(u, theirs)
      BY <2>4, <2>5 DEF Insert
    <3>3. known # {} => Set(u, [active |-> TRUE]) = Set(u, theirs)
      BY <2>5
    <3> QED BY <1>5, <3>1, <3>2, <3>3
  <2>8. DOMAIN writes = {p, u} /\ writes[p] = mine /\ writes[u] = theirs
    BY <2>6, <2>7 DEF Over, Set
  <2>9. /\ IsRow(mine, PersonTypes) /\ mine.there = TRUE /\ mine.user = u /\ mine.work = mail
        /\ DOMAIN mine = DOMAIN row
    BY <2>1, <2>6, PersonColumns, <2>5, OverIsRow, <1>2 DEF IsRow
  <2>10. /\ MayWrite(theirs, UserTypes)
         /\ known = {} => /\ {"there", "mail"} \subseteq DOMAIN theirs
                          /\ theirs.there = TRUE /\ theirs.mail = mail
         /\ known # {} => DOMAIN theirs = {"active"}
    <3>1. CASE known = {}
      <4>1. PICK given : given = [mail |-> mail, active |-> TRUE]
        OBVIOUS
      <4>2. DOMAIN given = {"mail", "active"} /\ given.mail = mail /\ given.active = TRUE
        BY <4>1
      <4>3. /\ DOMAIN UserTypes = {"there"} \cup DOMAIN given
            /\ \A c \in DOMAIN given \ {"there"} : given[c] \in UserTypes[c]
        BY <2>1, <4>2, UserColumns
      <4>4. theirs = Over([there |-> TRUE], given)
        BY <2>5, <3>1, <4>1
      <4>5. MayWrite(theirs, UserTypes)
        BY <4>3, <4>4, MayInsert, UserColumns
      <4>6. {"there", "mail"} \subseteq DOMAIN theirs /\ theirs.there = TRUE /\ theirs.mail = mail
        BY <4>2, <4>4 DEF Over
      <4> QED BY <3>1, <4>5, <4>6
    <3>2. CASE known # {}
      <4>1. theirs = [active |-> TRUE]
        BY <2>5, <3>2
      <4>2. DOMAIN theirs = {"active"} /\ theirs.active = TRUE
        BY <4>1
      <4>3. MayWrite(theirs, UserTypes)
        BY <4>2, UserColumns DEF MayWrite
      <4> QED BY <3>2, <4>2, <4>3
    <3> QED BY <3>1, <3>2
  <2>11. Proper(writes, types)
    BY <1>1, <2>6, AccountTyping, <1>3, <2>8, <2>9, <2>10 DEF Proper, MayWrite
  <2>12. ASSUME SignsIn(rows), NEW now, IsTable(now, types), Laid(rows, now, writes)
         PROVE  SignsIn(now)
    <3>1. LaidRow(now[p], mine, rows[p]) /\ LaidRow(now[u], theirs, rows[u])
      BY <1>3, <2>6, <2>8, <2>12 DEF Laid
    <3>2. now[p].user = u /\ now[p].work = mail
      BY <1>2, <2>9, <3>1 DEF LaidRow
    <3>3. now[u].there /\ now[u].mail = mail
      <4>1. CASE known = {}
        BY <2>10, <3>1, <4>1 DEF LaidRow
      <4>2. CASE known # {}
        <5>1. rows[u].there /\ DOMAIN theirs = {"active"} /\ rows[u].mail = mail
          BY <2>6, <2>10, <4>2 DEF There
        <5>2. now[u].there /\ \A c \in DOMAIN rows[u] \ DOMAIN theirs : now[u][c] = rows[u][c]
          BY <3>1, <5>1 DEF LaidRow
        <5>3. "mail" \in DOMAIN rows[u]
          <6>1. u \in Live("users")
            BY <2>6, <4>2 DEF Live
          <6>2. IsRow(rows[u], UserTypes)
            BY <1>1, <2>6, <6>1, AccountRow, AccountTyping
          <6> QED BY <6>2, UserColumns DEF IsRow
        <5> QED BY <5>1, <5>2, <5>3
      <4> QED BY <4>1, <4>2
    <3>4. \A r \in DOMAIN rows \ {p, u} : now[r] = rows[r]
      BY <2>8, <2>12 DEF Laid
    <3>5. ASSUME NEW q \in Table("people") \ {p}, rows[q].there, rows[q].user # NoRef
          PROVE  rows[q].user # u
      BY <3>5, <2>6, <2>12, <2>3 DEF Live, There, SignsIn
    <3> QED BY <2>6, <2>12, <3>2, <3>3, <3>4, <3>5, OthersSignIn
  <2>13. LaysSound(writes, types, sound)
    BY <1>6, <2>12, AccountAsks DEF LaysSound
  <2> QED BY <1>5, <2>11, <2>13 DEF WritesSound
<1> QED BY <1>7, <1>8

\* What a request to link locks, and what an employee's columns may be.
LEMMA LinkLocksAre ==
    ASSUME NEW row, IsRow(row, PersonTypes)
    PROVE  LinkLocks(row) \subseteq DOMAIN rows \cup Advisory
  BY PersonColumns DEF IsRow, MaybeMail, Mails, Account, Advisory, UserWith, Live, Table,
     LinkLocks

LEMMA PersonBodies ==
    ASSUME NEW p
    PROVE  /\ MaybePersonal(p) \subseteq MaybeMail
           /\ \A body \in PersonChanges(p) :
                 /\ DOMAIN body \in {{"work"}, {"personal"}, {"boss"}}
                 /\ \A c \in DOMAIN body : body[c] \in PersonTypes[c]
  BY PersonColumns DEF MaybePersonal, MaybeMail, PersonChanges

\* An employee is added,
LEMMA EmployeeCreated ==
    ASSUME NEW types, NEW sound, AccountFits(types, sound), NEW s \in Sessions, EmployeeCreate(s)
    PROVE  WritesSound(s, types, sound)
<1>1. Spare("people") # {}
  BY DEF EmployeeCreate
<1>2. PICK p : p = NewRow("people")
  OBVIOUS
<1>3. PICK body \in [work : MaybeMail, personal : MaybePersonal(p), boss : Bosses] :
          /\ Linkable(Over([there |-> TRUE, user |-> NoRef], body), p)
          /\ StageLocked(s, LinkLocks(Over([there |-> TRUE, user |-> NoRef], body)),
                         LinkAccount(Over([there |-> TRUE, user |-> NoRef], body), p))
  BY <1>2, Zenon DEF EmployeeCreate
<1>4. p \in Table("people")
  BY <1>1, <1>2, AccountNumbers, NewRowIsSpare DEF AccountFits
<1>5. PICK row : row = Over([there |-> TRUE, user |-> NoRef], body)
  OBVIOUS
<1>6. /\ DOMAIN row = {"there", "work", "personal", "user", "boss"}
      /\ row = [c \in DOMAIN row |-> row[c]]
      /\ row.there = TRUE /\ row.user = NoRef /\ row.work = body.work
      /\ row.personal = body.personal /\ row.boss = body.boss
  BY <1>5 DEF Over
<1>7. body.work \in MaybeMail /\ body.personal \in MaybeMail /\ body.boss \in Bosses
  BY PersonBodies
<1>8. \A c \in DOMAIN PersonTypes : row[c] \in PersonTypes[c]
  BY <1>6, <1>7, PersonColumns
<1>9. IsRow(row, PersonTypes)
  BY <1>6, <1>8, PersonColumns DEF IsRow
<1> QED BY <1>3, <1>4, <1>5, <1>6, <1>9, LinkWrites, LinkLocksAre

\* changed,
LEMMA EmployeeUpdated ==
    ASSUME NEW types, NEW sound, AccountFits(types, sound), NEW s \in Sessions, EmployeeUpdate(s)
    PROVE  WritesSound(s, types, sound)
<1>1. PICK p \in Live("people") : \E body \in PersonChanges(p) :
          LET row == Over(body, rows[p])
              moved == "work" \in DOMAIN body /\ body.work \notin {NoMail, rows[p].work}
          IN /\ IF row.user # NoRef
                THEN Stage(s, Over(Set(p, body),
                                   SetAll(IF moved THEN {row.user} ELSE {}, [mail |-> row.work])))
                ELSE /\ Linkable(row, p)
                     /\ StageLocked(s, LinkLocks(row), Over(LinkAccount(row, p), Set(p, body)))
  BY DEF EmployeeUpdate
<1>2. PICK body \in PersonChanges(p) :
          LET row == Over(body, rows[p])
              moved == "work" \in DOMAIN body /\ body.work \notin {NoMail, rows[p].work}
          IN /\ IF row.user # NoRef
                THEN Stage(s, Over(Set(p, body),
                                   SetAll(IF moved THEN {row.user} ELSE {}, [mail |-> row.work])))
                ELSE /\ Linkable(row, p)
                     /\ StageLocked(s, LinkLocks(row), Over(LinkAccount(row, p), Set(p, body)))
  BY <1>1
<1>3. /\ p \in Table("people") /\ p \in DOMAIN rows /\ rows[p].there
      /\ types[p] = PersonTypes /\ IsRow(rows[p], PersonTypes) /\ types = AccountTypes
      /\ Shape /\ Typed(types) /\ p[1] = "people"
  BY AccountRow, AccountTyping DEF AccountFits, Table
<1>4. /\ DOMAIN body \in {{"work"}, {"personal"}, {"boss"}}
      /\ \A c \in DOMAIN body : body[c] \in PersonTypes[c]
  BY PersonBodies
<1>5. PICK row, old : row = Over(body, rows[p]) /\ old = rows[p]
  OBVIOUS
<1>6. /\ IsRow(row, PersonTypes)
      /\ \A c \in DOMAIN PersonTypes : row[c] = IF c \in DOMAIN body THEN body[c] ELSE old[c]
  BY <1>4, PersonColumns, <1>3, <1>5, OverIsRow
<1>7. row.user = old.user /\ old.user \in {NoRef} \cup Table("users")
  BY <1>3, <1>4, <1>5, <1>6, PersonColumns DEF IsRow
<1>8. CASE row.user = NoRef
  <2>1. /\ Linkable(row, p)
        /\ StageLocked(s, LinkLocks(row), Over(LinkAccount(row, p), Set(p, body)))
    BY <1>2, <1>5, <1>8
  <2>2. Over(LinkAccount(row, p), Set(p, body)) = LinkAccount(row, p)
    BY DEF LinkAccount, Over, Set, Insert
  <2> QED BY <1>3, <1>6, <1>8, <2>1, <2>2, LinkWrites, LinkLocksAre
<1>9. CASE row.user # NoRef
  <2>1. PICK u \in Table("users") : u = old.user
    BY <1>7, <1>9
  <2>2. PICK moved \in BOOLEAN : moved <=> "work" \in DOMAIN body /\ body.work \notin {NoMail, old.work}
    OBVIOUS
  <2>3. PICK cols, users, writes :
            /\ cols = [mail |-> row.work] /\ users = IF moved THEN {u} ELSE {}
            /\ writes = Over(Set(p, body), SetAll(users, cols))
    OBVIOUS
  <2>4. Stage(s, writes)
    BY <1>2, <1>5, <1>7, <1>9, <2>1, <2>2, <2>3
  <2>5. u \in DOMAIN rows /\ u # p /\ types[u] = UserTypes
    BY <1>3, <2>1, AccountTyping DEF Table
  <2>6. /\ DOMAIN writes = {p} \cup users /\ writes[p] = body
        /\ moved => writes[u] = cols
    BY <2>3, <2>5 DEF Over, Set, SetAll
  <2>7. moved => row.work \in Mails /\ row.work = body.work
    BY <1>4, <1>6, <2>2, PersonColumns DEF MaybeMail
  <2>8. DOMAIN cols = {"mail"} /\ cols.mail = row.work
    BY <2>3
  <2>9. Proper(writes, types)
    <3>1. MayWrite(body, types[p])
      BY <1>3, <1>4, PersonColumns DEF MayWrite
    <3>2. moved => MayWrite(cols, types[u])
      BY <2>5, <2>7, <2>8, UserColumns DEF MayWrite
    <3> QED BY <1>3, <2>3, <2>5, <2>6, <3>1, <3>2 DEF Proper
  <2>10. ASSUME SignsIn(rows), NEW now, IsTable(now, types), Laid(rows, now, writes)
         PROVE  SignsIn(now)
    <3>1. LaidRow(now[p], body, old)
      BY <1>3, <1>5, <2>6, <2>10 DEF Laid
    <3>2. "there" \notin DOMAIN body /\ DOMAIN old = DOMAIN PersonTypes /\ old.there
      BY <1>3, <1>4, <1>5 DEF IsRow
    <3>3. now[p].there /\ \A c \in DOMAIN PersonTypes : now[p][c] = row[c]
      BY <1>4, <1>6, <3>1, <3>2 DEF LaidRow
    <3>4. now[p].user = u /\ now[p].work = row.work
      BY <1>7, <2>1, <3>3, PersonColumns
    <3>5. rows[u].there /\ old.work \in {NoMail, rows[u].mail}
      BY <1>3, <1>5, <1>7, <1>9, <2>1, <2>10 DEF SignsIn
    <3>6. now[u].there /\ now[p].work \in {NoMail, now[u].mail}
      <4>1. CASE moved
        <5>1. LaidRow(now[u], cols, rows[u])
          BY <2>3, <2>5, <2>6, <2>10, <4>1 DEF Laid
        <5>2. now[u].there /\ now[u].mail = row.work
          BY <2>8, <3>5, <5>1 DEF LaidRow
        <5> QED BY <3>4, <5>2
      <4>2. CASE ~moved
        BY <2>3, <2>5, <2>6, <2>10, <4>2, <1>6, <2>2, PersonColumns, <3>4, <3>5 DEF Laid
      <4> QED BY <4>1, <4>2
    <3>7. \A r \in DOMAIN rows \ {p, u} : now[r] = rows[r]
      BY <2>3, <2>6, <2>10 DEF Laid
    <3>8. \A q \in Table("people") \ {p} :
              rows[q].there /\ rows[q].user # NoRef => rows[q].user # u
      BY <1>3, <1>5, <1>7, <1>9, <2>1, <2>10 DEF SignsIn
    <3> QED BY <1>3, <2>1, <2>10, <3>4, <3>6, <3>7, <3>8, OthersSignIn
  <2>11. LaysSound(writes, types, sound)
    BY <1>3, TypedTables, <2>10, AccountAsks DEF LaysSound
  <2> QED BY <2>4, <2>9, <2>11 DEF WritesSound, Stage
<1> QED BY <1>8, <1>9

\* or linked to the account there is.
LEMMA ExistingLinked ==
    ASSUME NEW types, NEW sound, AccountFits(types, sound), NEW s \in Sessions, LinkExisting(s)
    PROVE  WritesSound(s, types, sound)
  BY AccountRow, AccountTyping, LinkLocksAre, LinkWrites DEF LinkExisting, AccountFits

\* An account moves to an e-mail, and so does who works with it.
LEMMA EmailChanged ==
    ASSUME NEW types, NEW sound, AccountFits(types, sound), NEW s \in Sessions, ChangeEmail(s)
    PROVE  WritesSound(s, types, sound)
<1>1. PICK p \in Live("people") : \E mail \in Mails :
          LET user == rows[p].user
              old == rows[user].mail
              follows == IF rows[p].work = old THEN [work |-> mail]
                         ELSE IF rows[p].personal = old THEN [personal |-> mail] ELSE <<>>
          IN /\ user # NoRef
             /\ StageLocked(s, {p, user}, Over(Set(user, [mail |-> mail]), Set(p, follows)))
  BY DEF ChangeEmail
<1>2. PICK mail \in Mails :
          LET user == rows[p].user
              old == rows[user].mail
              follows == IF rows[p].work = old THEN [work |-> mail]
                         ELSE IF rows[p].personal = old THEN [personal |-> mail] ELSE <<>>
          IN /\ user # NoRef
             /\ StageLocked(s, {p, user}, Over(Set(user, [mail |-> mail]), Set(p, follows)))
  BY <1>1
<1>3. /\ p \in Table("people") /\ p \in DOMAIN rows /\ rows[p].there
      /\ types[p] = PersonTypes /\ IsRow(rows[p], PersonTypes) /\ types = AccountTypes
      /\ Shape /\ Typed(types) /\ p[1] = "people"
  BY AccountRow, AccountTyping DEF AccountFits, Table
<1>4. PICK u, old, work : u = rows[p].user /\ old = rows[u].mail /\ work = rows[p].work
  OBVIOUS
<1>5. PICK follows : follows = IF work = old THEN [work |-> mail]
                               ELSE IF rows[p].personal = old THEN [personal |-> mail] ELSE <<>>
  OBVIOUS
<1>6. PICK cols, writes : /\ cols = [mail |-> mail]
                          /\ writes = Over(Set(u, cols), Set(p, follows))
  OBVIOUS
<1>7. u # NoRef /\ StageLocked(s, {p, u}, writes)
  BY <1>2, <1>4, <1>5, <1>6
<1>8. u \in Table("users") /\ u \in DOMAIN rows /\ u # p /\ types[u] = UserTypes
  BY <1>3, <1>4, <1>7, PersonColumns, AccountTyping DEF IsRow, Table
<1>9. /\ DOMAIN follows \subseteq {"work", "personal"}
      /\ \A c \in DOMAIN follows : follows[c] = mail
      /\ work = old <=> "work" \in DOMAIN follows
  BY <1>5
<1>10. DOMAIN writes = {p, u} /\ writes[u] = cols /\ writes[p] = follows
  BY <1>6, <1>8 DEF Over, Set
<1>11. DOMAIN cols = {"mail"} /\ cols.mail = mail
  BY <1>6
<1>12. desk \in {"accounts", "reporting"} /\ desk = "accounts"
  BY <1>3, <1>8, AccountNames DEF AccountFits, Table
<1>13. Proper(writes, types)
  BY <1>8, <1>11, UserColumns, <1>12, <1>3, <1>9, PersonColumns, <1>10 DEF MayWrite,
     MaybeMail, Proper
<1>14. ASSUME SignsIn(rows), NEW now, IsTable(now, types), Laid(rows, now, writes)
       PROVE  SignsIn(now)
  BY <1>3, <1>8, <1>10, <1>14, <1>4, <1>7, <1>11, <1>9, PersonColumns, OthersSignIn DEF
     Laid, SignsIn, LaidRow, IsRow
<1>15. LaysSound(writes, types, sound)
  BY <1>3, TypedTables, <1>14, AccountAsks DEF LaysSound
<1> QED BY <1>3, <1>7, <1>8, <1>13, <1>15 DEF WritesSound

\* The columns of a new account.
LEMMA NewAccount ==
    ASSUME NEW mail \in Mails, NEW cols,
           cols = Over([there |-> TRUE], [mail |-> mail, active |-> TRUE])
    PROVE  /\ MayWrite(cols, UserTypes) /\ {"there", "mail"} \subseteq DOMAIN cols
           /\ cols.there = TRUE /\ cols.mail = mail
<1>1. PICK given : given = [mail |-> mail, active |-> TRUE]
  OBVIOUS
<1>2. DOMAIN given = {"mail", "active"} /\ given.mail = mail /\ given.active = TRUE
  BY <1>1
<1>3. /\ DOMAIN UserTypes = {"there"} \cup DOMAIN given
      /\ \A c \in DOMAIN given \ {"there"} : given[c] \in UserTypes[c]
  BY <1>2, UserColumns
<1>4. cols = Over([there |-> TRUE], given)
  BY <1>1
<1>5. MayWrite(cols, UserTypes)
  <2>1. "there" \in DOMAIN UserTypes /\ UserTypes.there = {TRUE}
    BY UserColumns
  <2>2. MayWrite(Over([there |-> TRUE], given), UserTypes)
    BY <1>3, <2>1, MayInsert
  <2> QED BY <1>4, <2>2
<1>6. {"there", "mail"} \subseteq DOMAIN cols /\ cols.there = TRUE /\ cols.mail = mail
  BY <1>2, <1>4 DEF Over
<1> QED BY <1>5, <1>6

\* A new account, for an employee or for nobody.
LEMMA UserCreated ==
    ASSUME NEW types, NEW sound, AccountFits(types, sound), NEW s \in Sessions, UserCreate(s)
    PROVE  WritesSound(s, types, sound)
<1>1. PICK mail \in Mails :
          /\ Spare("users") # {}
          /\ \/ Stage(s, Insert("users", [mail |-> mail, active |-> TRUE]))
             \/ \E p \in Live("people") :
                   StageLocked(s, {p}, Over(Insert("users", [mail |-> mail, active |-> TRUE]),
                                            Set(p, [user |-> NewRow("users"), work |-> mail])))
  BY DEF UserCreate
<1>2. /\ Shape /\ DOMAIN rows = AccountIds /\ types = AccountTypes /\ Typed(types)
      /\ \A name : \A r \in Table(name) : r[2] \in Nat
  BY AccountNumbers DEF AccountFits
<1>3. PICK u : u = NewRow("users")
  OBVIOUS
<1>4. u \in Table("users") /\ ~There(u)
  BY <1>1, <1>2, <1>3, NewRowIsSpare
<1>5. u \in DOMAIN rows /\ u[1] = "users" /\ types[u] = UserTypes
  BY <1>2, <1>4, AccountTyping DEF Table
<1>6. PICK theirs : theirs = Over([there |-> TRUE], [mail |-> mail, active |-> TRUE])
  OBVIOUS
<1>7. /\ MayWrite(theirs, UserTypes) /\ {"there", "mail"} \subseteq DOMAIN theirs
      /\ theirs.there = TRUE /\ theirs.mail = mail
  BY <1>6, NewAccount
<1>8. Insert("users", [mail |-> mail, active |-> TRUE]) = Set(u, theirs)
  BY <1>3, <1>6 DEF Insert
<1>9. IsTable(rows, types)
  BY <1>2, TypedTables
<1>10. desk = "accounts"
  BY <1>2, <1>5, AccountNames DEF AccountFits
<1>11. ASSUME SignsIn(rows), NEW q \in Table("people"), rows[q].there, rows[q].user # NoRef
       PROVE  rows[q].user # u
  BY <1>4, <1>11 DEF SignsIn, There
<1>12. CASE Stage(s, Set(u, theirs))
  <2>1. PICK writes : writes = Set(u, theirs)
    OBVIOUS
  <2>2. DOMAIN writes = {u} /\ writes[u] = theirs
    BY <2>1 DEF Set
  <2>3. Proper(writes, types)
    BY <1>5, <1>7, <2>2 DEF Proper
  <2>4. ASSUME SignsIn(rows), NEW now, IsTable(now, types), Laid(rows, now, writes)
        PROVE  SignsIn(now)
    BY <2>2, <2>4, <1>5, <1>2, AccountRow, AccountTyping, PersonColumns, <1>11 DEF Laid,
       Table, Live, There, IsRow, SignsIn
  <2>5. LaysSound(writes, types, sound)
    BY <1>9, <2>4, AccountAsks DEF LaysSound
  <2> QED BY <1>12, <2>1, <2>3, <2>5 DEF WritesSound, Stage
<1>13. ASSUME NEW p \in Live("people"),
              StageLocked(s, {p}, Over(Set(u, theirs), Set(p, [user |-> u, work |-> mail])))
       PROVE  WritesSound(s, types, sound)
  <2>1. PICK mine, writes :
            mine = [user |-> u, work |-> mail] /\ writes = Over(Set(u, theirs), Set(p, mine))
    OBVIOUS
  <2>2. /\ p \in Table("people") /\ p \in DOMAIN rows /\ rows[p].there
        /\ types[p] = PersonTypes /\ p # u
    BY AccountRow, <1>2, <1>5, AccountTyping DEF Table
  <2>3. DOMAIN writes = {p, u} /\ writes[u] = theirs /\ writes[p] = mine
    BY <2>1, <2>2 DEF Over, Set
  <2>4. DOMAIN mine = {"user", "work"} /\ mine.user = u /\ mine.work = mail
    BY <2>1
  <2>5. Proper(writes, types)
    BY <1>10, <1>4, <2>2, <2>4, PersonColumns, <1>5, <1>7, <2>3 DEF MaybeMail, MayWrite,
       Proper
  <2>6. ASSUME SignsIn(rows), NEW now, IsTable(now, types), Laid(rows, now, writes)
        PROVE  SignsIn(now)
    BY <1>5, <2>2, <2>3, <2>6, <2>4, <1>7, <1>11, <1>4, OthersSignIn DEF Laid, LaidRow
  <2>7. LaysSound(writes, types, sound)
    BY <1>9, <2>6, AccountAsks DEF LaysSound
  <2> QED BY <1>13, <2>1, <2>2, <2>5, <2>7 DEF WritesSound
<1>14. \/ Stage(s, Set(u, theirs))
       \/ \E p \in Live("people") :
             StageLocked(s, {p}, Over(Set(u, theirs), Set(p, [user |-> u, work |-> mail])))
  BY <1>1, <1>3, <1>8
<1> QED BY <1>12, <1>13, <1>14

\* An account is opened or closed.
LEMMA UserActivated ==
    ASSUME NEW types, NEW sound, AccountFits(types, sound), NEW s \in Sessions, UserActivate(s)
    PROVE  WritesSound(s, types, sound)
<1>1. PICK u \in Live("users"), active \in BOOLEAN : Stage(s, Set(u, [active |-> active]))
  BY DEF UserActivate
<1>2. PICK cols, writes : cols = [active |-> active] /\ writes = Set(u, cols)
  OBVIOUS
<1>3. /\ u \in Table("users") /\ u \in DOMAIN rows /\ rows[u].there /\ types[u] = UserTypes
      /\ IsRow(rows[u], UserTypes) /\ u[1] = "users"
      /\ Shape /\ Typed(types) /\ types = AccountTypes
  BY AccountRow, AccountTyping DEF AccountFits, Table
<1>4. DOMAIN writes = {u} /\ writes[u] = cols /\ DOMAIN cols = {"active"} /\ cols.active = active
  BY <1>2 DEF Set
<1>5. Proper(writes, types)
  BY <1>3, <1>4, UserColumns DEF Proper, MayWrite
<1>6. ASSUME SignsIn(rows), NEW now, IsTable(now, types), Laid(rows, now, writes)
      PROVE  SignsIn(now)
  BY <1>3, <1>4, <1>6, UserColumns, AccountRow, AccountTyping, PersonColumns DEF Laid,
     IsRow, LaidRow, Table, Live, There, SignsIn
<1>7. LaysSound(writes, types, sound)
  BY <1>3, TypedTables, <1>6, AccountAsks DEF LaysSound
<1> QED BY <1>1, <1>2, <1>5, <1>7 DEF WritesSound, Stage

\* A portal is chosen, or the old flag.
LEMMA PortalWrites ==
    ASSUME NEW types, NEW sound, AccountFits(types, sound), NEW s \in Sessions, PortalStep(s)
    PROVE  Writes(s, types)
<1>1. /\ Typed(types) /\ types = AccountTypes /\ \A r \in Table("portals") : r[2] \in Nat
      /\ \A r \in Table("portals") : types[r] = PortalTypes
  BY AccountNumbers, AccountTyping DEF AccountFits
<1>2. CASE PortalCreate(s)
  <2>1. PICK portal \in Portals : /\ Spare("portals") # {}
                                  /\ Stage(s, Insert("portals", [portal |-> portal,
                                                                 fieldonly |-> portal = "FIELD"]))
    BY <1>2 DEF PortalCreate
  <2>2. PICK flag \in BOOLEAN : flag = (portal = "FIELD")
    OBVIOUS
  <2>3. PICK given : given = [portal |-> portal, fieldonly |-> flag]
    OBVIOUS
  <2>4. DOMAIN given = {"portal", "fieldonly"} /\ given.portal = portal /\ given.fieldonly = flag
    BY <2>3
  <2>5. /\ DOMAIN PortalTypes = {"there"} \cup DOMAIN given
        /\ \A c \in DOMAIN given \ {"there"} : given[c] \in PortalTypes[c]
    BY <2>4, PortalColumns
  <2>6. Stage(s, Insert("portals", given))
    BY <2>1, <2>2, <2>3
  <2> QED BY <1>1, <2>1, <2>5, <2>6, WritesInsert
<1>3. CASE PortalUpdate(s)
  <2>1. PICK u \in Live("portals"), flag \in BOOLEAN, portal \in Portals :
            Stage(s, Set(u, [fieldonly |-> flag, portal |-> portal]))
    <3>1. PICK u \in Live("portals") :
            \/ \E flag \in BOOLEAN :
                  Stage(s, Set(u, [fieldonly |-> flag,
                                   portal |-> IF flag /\ rows[u].portal = "FULL" THEN "FIELD"
                                              ELSE rows[u].portal]))
            \/ \E portal \in Portals :
                  Stage(s, Set(u, [portal |-> portal, fieldonly |-> portal = "FIELD"]))
      BY <1>3 DEF PortalUpdate
    <3>2. rows[u].portal \in Portals
      <4>1. u \in Table("portals") /\ IsRow(rows[u], types[u])
        BY AccountRow
      <4> QED BY <1>1, <4>1, PortalColumns DEF IsRow
    <3>3. ASSUME NEW flag \in BOOLEAN,
                 Stage(s, Set(u, [fieldonly |-> flag,
                                  portal |-> IF flag /\ rows[u].portal = "FULL" THEN "FIELD"
                                             ELSE rows[u].portal]))
          PROVE  \E portal \in Portals : Stage(s, Set(u, [fieldonly |-> flag, portal |-> portal]))
      BY <3>2, <3>3 DEF Portals
    <3>4. ASSUME NEW portal \in Portals,
                 Stage(s, Set(u, [portal |-> portal, fieldonly |-> portal = "FIELD"]))
          PROVE  \E flag \in BOOLEAN : Stage(s, Set(u, [fieldonly |-> flag, portal |-> portal]))
      BY <3>4
    <3> QED BY <3>1, <3>3, <3>4
  <2>2. PICK cols : cols = [fieldonly |-> flag, portal |-> portal]
    OBVIOUS
  <2>3. DOMAIN cols = {"portal", "fieldonly"} /\ cols.portal = portal /\ cols.fieldonly = flag
    BY <2>2
  <2>4. u \in DOMAIN rows /\ types[u] = PortalTypes
    BY <1>1, AccountRow
  <2>5. MayWrite(cols, types[u])
    BY <2>1, <2>3, <2>4, PortalColumns DEF MayWrite
  <2> QED BY <2>1, <2>2, <2>4, <2>5, WritesSet DEF Stage
<1> QED BY <1>2, <1>3 DEF PortalStep

\* A row of the logins or of their tokens.
LEMMA LoginRow ==
    ASSUME NEW types, NEW sound, AccountFits(types, sound)
    PROVE  /\ Typed(types) /\ types = AccountTypes
           /\ \A name : \A r \in Table(name) : r[2] \in Nat
           /\ \A u \in Live("logins") :
                 u \in DOMAIN rows /\ u \in Table("logins") /\ types[u] = LoginTypes
           /\ \A t \in Live("tokens") :
                 /\ t \in DOMAIN rows /\ t \in Table("tokens") /\ types[t] = TokenTypes
                 /\ rows[t].user \in Table("logins") /\ rows[t].chain \in Nat
<1>1. ASSUME NEW t \in Live("tokens")
      PROVE  /\ t \in DOMAIN rows /\ t \in Table("tokens") /\ types[t] = TokenTypes
             /\ rows[t].user \in Table("logins") /\ rows[t].chain \in Nat
  <2>1. t \in DOMAIN rows /\ t \in Table("tokens") /\ IsRow(rows[t], types[t])
    BY AccountRow
  <2>2. types[t] = TokenTypes
    BY <2>1, AccountTyping DEF AccountFits
  <2> QED BY <2>1, <2>2, TokenColumns DEF IsRow
<1>2. ASSUME NEW u \in Live("logins")
      PROVE  u \in DOMAIN rows /\ u \in Table("logins") /\ types[u] = LoginTypes
  BY AccountRow, AccountTyping DEF AccountFits
<1> QED BY <1>1, <1>2, AccountNumbers DEF AccountFits

\* One column of a login, or of a token, may be written.
LEMMA LoginColumn ==
    ASSUME NEW b \in BOOLEAN
    PROVE  /\ MayWrite([setup |-> b], LoginTypes) /\ MayWrite([active |-> b], LoginTypes)
           /\ MayWrite([live |-> b], TokenTypes)
  BY LoginColumns, TokenColumns DEF MayWrite

\* A new token.
LEMMA TokenGiven ==
    ASSUME NEW u \in Table("logins"), NEW n \in Nat, NEW given,
           given = [user |-> u, chain |-> n, live |-> TRUE]
    PROVE  /\ DOMAIN TokenTypes = {"there"} \cup DOMAIN given
           /\ \A c \in DOMAIN given \ {"there"} : given[c] \in TokenTypes[c]
<1>1. /\ DOMAIN given = {"user", "chain", "live"}
      /\ given.user = u /\ given.chain = n /\ given.live = TRUE
  OBVIOUS
<1> QED BY <1>1, TokenColumns

\* Logins and their tokens.
LEMMA LoginWrites ==
    ASSUME NEW types, NEW sound, AccountFits(types, sound), NEW s \in Sessions, LoginStep(s)
    PROVE  Writes(s, types)
<1>1. /\ Typed(types) /\ types = AccountTypes
      /\ \A name : \A r \in Table(name) : r[2] \in Nat
      /\ \A u \in Live("logins") :
            u \in DOMAIN rows /\ u \in Table("logins") /\ types[u] = LoginTypes
      /\ \A t \in Live("tokens") :
            /\ t \in DOMAIN rows /\ t \in Table("tokens") /\ types[t] = TokenTypes
            /\ rows[t].user \in Table("logins") /\ rows[t].chain \in Nat
      /\ \A t \in Table("tokens") : types[t] = TokenTypes
  BY LoginRow, AccountTyping
<1>2. CASE Login(s)
  <2>1. PICK u \in Live("logins") :
            /\ Spare("tokens") # {}
            /\ Stage(s, Insert("tokens", [user |-> u, chain |-> NewRow("tokens")[2],
                                          live |-> TRUE]))
    BY <1>2 DEF Login
  <2>2. NewRow("tokens") \in Table("tokens")
    BY <1>1, <2>1, NewRowIsSpare
  <2>3. PICK n \in Nat : n = NewRow("tokens")[2]
    BY <1>1, <2>2
  <2>4. PICK given : given = [user |-> u, chain |-> n, live |-> TRUE]
    OBVIOUS
  <2>5. /\ DOMAIN TokenTypes = {"there"} \cup DOMAIN given
        /\ \A c \in DOMAIN given \ {"there"} : given[c] \in TokenTypes[c]
    BY <1>1, <2>4, TokenGiven
  <2> QED BY <1>1, <2>1, <2>3, <2>4, <2>5, WritesInsert
<1>3. CASE Refresh(s)
  <2>1. PICK t \in Live("tokens") :
            /\ Spare("tokens") # {}
            /\ StageLocked(s, {t}, Over(Set(t, [live |-> FALSE]),
                                        Insert("tokens", [user |-> rows[t].user,
                                                          chain |-> rows[t].chain,
                                                          live |-> TRUE])))
    BY <1>3 DEF Refresh
  <2>2. PICK given : given = [user |-> rows[t].user, chain |-> rows[t].chain, live |-> TRUE]
    OBVIOUS
  <2>3. /\ DOMAIN TokenTypes = {"there"} \cup DOMAIN given
        /\ \A c \in DOMAIN given \ {"there"} : given[c] \in TokenTypes[c]
    BY <1>1, <2>2, TokenGiven
  <2>4. Proper(Insert("tokens", given), types)
    BY <1>1, <2>1, <2>3, ProperInsert
  <2>5. Proper(Set(t, [live |-> FALSE]), types)
    BY <1>1, LoginColumn, ProperSet
  <2> QED BY <1>1, <2>1, <2>2, <2>4, <2>5, ProperOver DEF Writes
<1>4. CASE Logout(s)
  BY <1>4, <1>1, LoginColumn, WritesSet DEF Logout
<1>5. CASE InvalidateAccount(s)
  BY <1>5, <1>1, LoginColumn, ProperSetAll, ProperSet, ProperOver DEF InvalidateAccount,
     Writes
<1>6. CASE CompleteReset(s)
  BY <1>6, <1>1, LoginColumn, WritesSet DEF CompleteReset
<1>7. CASE Deactivate(s)
  <2>1. PICK u \in Live("logins"), active \in BOOLEAN : StageLocked(s, {}, Set(u, [active |-> active]))
    BY <1>7 DEF Deactivate, Stage
  <2>2. {} \subseteq DOMAIN rows \cup Advisory /\ MayWrite([active |-> active], types[u])
    BY <1>1, LoginColumn
  <2> QED BY <1>1, <2>1, <2>2, WritesSet
<1> QED BY <1>2, <1>3, <1>4, <1>5, <1>6, <1>7 DEF LoginStep

\* Every request about accounts.
LEMMA AccountWrites ==
    ASSUME NEW types, NEW sound, AccountFits(types, sound), NEW s \in Sessions, AccountsStep(s)
    PROVE  WritesSound(s, types, sound)
  BY AccountAsks, AllSound, EmployeeCreated, EmployeeUpdated, ExistingLinked, EmailChanged,
     UserCreated, UserActivated, PortalWrites, LoginWrites DEF AccountStep, AccountsStep

\* The accounts as they are.
AccountsInv == AccountFits(AccountTypes, AccountSound)

\* They begin with a user who may sign in, or with nobody.
LEMMA AccountsBegin == AccountInit => AccountsInv
<1> SUFFICES ASSUME AccountInit PROVE AccountsInv
  OBVIOUS
<1>1. /\ desk \in DOMAIN AccountTables /\ DOMAIN rows = AccountIds /\ StoreInit
      /\ rows = [r \in DOMAIN rows |-> rows[r]]
      /\ \A r \in DOMAIN rows :
            rows[r] = IF r[1] = "logins" THEN [there |-> TRUE, active |-> TRUE, setup |-> FALSE]
                      ELSE Absent
  BY DEF AccountInit
<1>2. PICK types, sound : types = AccountTypes /\ sound = AccountSound
  OBVIOUS
<1>3. ASSUME NEW r \in DOMAIN rows
      PROVE  \/ rows[r] = Absent
             \/ There(r) /\ IsRow(rows[r], types[r]) /\ r[1] = "logins"
  <2>1. CASE r[1] = "logins"
    <3>1. PICK row : row = [there |-> TRUE, active |-> TRUE, setup |-> FALSE]
      OBVIOUS
    <3>2. rows[r] = row
      BY <1>1, <2>1, <3>1
    <3>3. types[r] = LoginTypes
      BY <1>2, <2>1, AccountTyping DEF Table
    <3>4. /\ DOMAIN row = {"there", "active", "setup"} /\ row = [c \in DOMAIN row |-> row[c]]
          /\ row.there = TRUE /\ row.active = TRUE /\ row.setup = FALSE
      BY <3>1
    <3>5. \A c \in DOMAIN LoginTypes : row[c] \in LoginTypes[c]
      BY <3>4, LoginColumns
    <3>6. IsRow(row, LoginTypes)
      BY <3>4, <3>5, LoginColumns DEF IsRow
    <3> QED BY <2>1, <3>2, <3>3, <3>4, <3>6 DEF There
  <2>2. CASE r[1] # "logins"
    BY <1>1, <2>2
  <2> QED BY <2>1, <2>2
<1>4. Shape
  BY <1>1, <1>3, InitShape
<1>5. Typed(types)
  BY <1>1, <1>2, <1>3, AccountThere, TypedStarts
<1>6. rows \in sound
  BY <1>4, <1>5, TypedTables, TablesAre, <1>1, <1>2 DEF Table, Absent, SignsIn, AccountSound
<1>7. StaySound(sound)
  BY <1>1, <1>4, <1>6, SoundStarts
<1>8. AccountFits(types, sound)
  BY <1>1, <1>2, <1>4, <1>5, <1>7 DEF AccountFits
<1> QED BY <1>2, <1>8 DEF AccountsInv

\* Types and what is sound do not change.
LEMMA AccountsStay ==
    ASSUME Alike
    PROVE  /\ AccountTypes' = AccountTypes /\ AccountSound' = AccountSound
           /\ AccountIds' = AccountIds
<1>1. desk' = desk /\ DOMAIN rows' = DOMAIN rows
  BY DEF Alike
<1>2. \A name : Table(name)' = Table(name)
  BY <1>1 DEF Table
<1>3. MaybeMail' = MaybeMail /\ Bosses' = Bosses
  BY <1>1, <1>2 DEF MaybeMail, Bosses, Mails, NoMail, NoRef
<1>4. PersonTypes' = PersonTypes /\ TokenTypes' = TokenTypes
  BY <1>2, <1>3 DEF PersonTypes, TokenTypes, NoRef
<1>5. AccountTypes' = AccountTypes
  BY <1>1, <1>4 DEF AccountTypes, UserTypes, PortalTypes, LoginTypes, Mails, Portals
<1>6. AccountIds' = AccountIds
  BY <1>1 DEF AccountIds, AccountTables
<1>7. PICK types : types = AccountTypes
  OBVIOUS
<1>8. Tables(types)' = Tables(types)
  BY <1>1, TablesStay
<1>9. \A tab : SignsIn(tab)' = SignsIn(tab)
  BY <1>2 DEF SignsIn, NoRef, NoMail
<1>10. AccountSound = {tab \in Tables(types) : desk = "accounts" => SignsIn(tab)}
  BY <1>7 DEF AccountSound
<1>11. AccountSound' = {tab \in Tables(types)' : desk' = "accounts" => SignsIn(tab)'}
  BY <1>5, <1>7 DEF AccountSound
<1>12. AccountSound' = AccountSound
  BY <1>1, <1>8, <1>9, <1>10, <1>11
<1> QED BY <1>5, <1>6, <1>12

\* Every step keeps them.
LEMMA AccountsGoOn == AccountsInv /\ [AccountsNext]_storeVars => AccountsInv'
  BY AccountWrites, SoundMoves, AccountsStay DEF AccountsInv, AccountFits, SoundMove,
     AccountsCommit, AccountsNext, Alike, AccountTables

\* The rows of each table as records.
LEMMA AccountRowsAre ==
    ASSUME NEW row
    PROVE  /\ IsRow(row, PersonTypes) => row \in PersonRows
           /\ IsRow(row, UserTypes) => row \in UserRows
           /\ IsRow(row, PortalTypes) => row \in PortalRows
           /\ IsRow(row, LoginTypes) => row \in LoginRows
           /\ IsRow(row, TokenTypes) => row \in TokenRows
<1>1. IsRow(row, PersonTypes) => row \in PersonRows
  BY PersonColumns DEF IsRow, PersonRows
<1>2. IsRow(row, UserTypes) => row \in UserRows
  BY UserColumns DEF IsRow, UserRows
<1>3. IsRow(row, PortalTypes) => row \in PortalRows
  BY PortalColumns DEF IsRow, PortalRows
<1>4. IsRow(row, LoginTypes) => row \in LoginRows
  BY LoginColumns DEF IsRow, LoginRows
<1>5. IsRow(row, TokenTypes) => row \in TokenRows
  BY TokenColumns DEF IsRow, TokenRows
<1> QED BY <1>1, <1>2, <1>3, <1>4, <1>5

\* What they say of each table.
LEMMA AccountsSay == AccountsInv => AccountsTypeOK /\ SignsInWithWorkMail
  BY AccountRow, AccountTyping, AccountNames, AccountRowsAre, TypedTables, AccountAsks DEF
     AccountsInv, AccountFits, Live, Table, AccountsTypeOK, SignsInWithWorkMail, StaySound,
     SignsIn, There
-----------------------------------------------------------------------------
(* Workbooks: what their rows can hold. *)

\* The types of the columns of each table.
Histories == UNION {[1..n -> Contents] : n \in 0..(MaxRevision - 1)}
VersionTypes ==
    [there |-> {TRUE}, owner |-> Users, base |-> Bases, saves |-> Operations \cup {"upload"},
     active |-> BOOLEAN, member |-> BOOLEAN]
ShareTypes ==
    [there |-> {TRUE}, workbook |-> Contents, revision |-> 1..MaxRevision,
     revoked |-> BOOLEAN, history |-> Histories]
WorkbookTypes == [r \in DOMAIN rows |-> IF desk = "versions" THEN VersionTypes ELSE ShareTypes]

LEMMA VersionColumns ==
    /\ DOMAIN VersionTypes = {"there", "owner", "base", "saves", "active", "member"}
    /\ VersionTypes.there = {TRUE} /\ VersionTypes.owner = Users /\ VersionTypes.base = Bases
    /\ VersionTypes.saves = Operations \cup {"upload"}
    /\ VersionTypes.active = BOOLEAN /\ VersionTypes.member = BOOLEAN
  BY DEF VersionTypes

LEMMA ShareColumns ==
    /\ DOMAIN ShareTypes = {"there", "workbook", "revision", "revoked", "history"}
    /\ ShareTypes.there = {TRUE} /\ ShareTypes.workbook = Contents
    /\ ShareTypes.revision = 1..MaxRevision /\ ShareTypes.revoked = BOOLEAN
    /\ ShareTypes.history = Histories
  BY DEF ShareTypes

\* A shared copy of a revision remembers fewer than that.
Remembers(row) == \E n \in 0..(row.revision - 1) : row.history \in [1..n -> Contents]

\* A request that gives a shared copy a revision gives it the history, and only then.
Revises(cols) ==
    /\ "history" \in DOMAIN cols <=> "revision" \in DOMAIN cols
    /\ "history" \in DOMAIN cols => cols.revision \in 1..MaxRevision /\ Remembers(cols)

Shelved ==
    /\ \A r \in DOMAIN rows : There(r) => Remembers(rows[r])
    /\ \A s \in Sessions : \A r \in DOMAIN open[s].writes : Revises(open[s].writes[r])

\* At a desk of workbooks, rows and writes are typed and histories are short enough.
ShelfFits(types) ==
    /\ Shape /\ desk \in WorkbookDesks /\ DOMAIN rows = BookIds
    /\ types = WorkbookTypes /\ Typed(types)
    /\ desk = "shares" => Shelved

ShelfInv == ShelfFits(WorkbookTypes)

\* The rows of a desk of workbooks.
LEMMA ShelfRow ==
    ASSUME NEW types, ShelfFits(types)
    PROVE  /\ \A r \in DOMAIN rows : types[r] = IF desk = "versions" THEN VersionTypes ELSE ShareTypes
           /\ \A name : \A r \in Table(name) : r \in DOMAIN rows /\ r[2] \in Nat /\ name = desk
           /\ \A name : \A r \in Live(name) :
                 /\ r \in Table(name) /\ r \in DOMAIN rows /\ There(r) /\ rows[r].there
                 /\ IsRow(rows[r], types[r])
<1>1. \A r \in DOMAIN rows : types[r] = IF desk = "versions" THEN VersionTypes ELSE ShareTypes
  BY DEF ShelfFits, WorkbookTypes
<1>2. \A name : \A r \in Table(name) : r \in DOMAIN rows /\ r[2] \in Nat /\ name = desk
  BY DEF ShelfFits, BookIds, Table
<1>3. ASSUME NEW name, NEW r \in Live(name)
      PROVE  /\ r \in Table(name) /\ r \in DOMAIN rows /\ There(r) /\ rows[r].there
             /\ IsRow(rows[r], types[r])
  <2>1. r \in Table(name) /\ r \in DOMAIN rows /\ There(r)
    BY <1>3 DEF Live, Table
  <2>2. rows[r] # Absent /\ rows[r].there
    BY <2>1 DEF There, Absent
  <2> QED BY <2>1, <2>2 DEF ShelfFits, Typed
<1> QED BY <1>1, <1>2, <1>3

\* The latest version is one of them, if there is any.
LEMMA LatestIsBase ==
    ASSUME DOMAIN rows = BookIds, desk = "versions"
    PROVE  LatestVersion(rows) \in Bases
  BY DEF Members, Table, BookIds, LatestVersion, Bases

\* A version is added on a base the workbook has.
LEMMA VersionAdded ==
    ASSUME NEW types, ShelfFits(types), desk = "versions", NEW s \in Sessions, NEW who \in Users,
           NEW base \in Bases, NEW op \in Operations \cup {"upload"}, Spare("versions") # {},
           StageLocked(s, BookLock, Version(who, base, op))
    PROVE  Writes(s, types)
<1>1. /\ \A r \in Table("versions") : r[2] \in Nat /\ types[r] = VersionTypes
      /\ Typed(types)
  BY ShelfRow DEF ShelfFits
<1>2. PICK given : given = [owner |-> who, base |-> base, saves |-> op,
                            active |-> TRUE, member |-> TRUE]
  OBVIOUS
<1>3. /\ DOMAIN given = {"owner", "base", "saves", "active", "member"}
      /\ given.owner = who /\ given.base = base /\ given.saves = op
      /\ given.active = TRUE /\ given.member = TRUE
  BY <1>2
<1>4. /\ DOMAIN VersionTypes = {"there"} \cup DOMAIN given
      /\ \A c \in DOMAIN given \ {"there"} : given[c] \in VersionTypes[c]
  BY <1>3, VersionColumns
<1>5. Proper(Insert("versions", given), types)
  BY <1>1, <1>4, ProperInsert
<1>6. Version(who, base, op) = Insert("versions", given)
  BY <1>2 DEF Version
<1>7. BookLock \subseteq DOMAIN rows \cup Advisory
  BY DEF BookLock, Advisory
<1> QED BY <1>5, <1>6, <1>7 DEF Writes

\* Every request about versions.
LEMMA VersionWrites ==
    ASSUME NEW types, ShelfFits(types), desk = "versions", NEW s \in Sessions, VersionStep(s)
    PROVE  Writes(s, types)
<1>1. /\ BookLock \subseteq DOMAIN rows \cup Advisory
      /\ \A r \in Table("versions") : r \in DOMAIN rows /\ types[r] = VersionTypes
  BY ShelfRow DEF BookLock, Advisory
<1>2. CASE SaveWorkbook(s)
  BY <1>2, VersionAdded DEF SaveWorkbook
<1>3. CASE UploadWorkbook(s)
  BY LatestIsBase, <1>3, VersionAdded DEF ShelfFits, UploadWorkbook
<1>4. CASE DeleteWorkbook(s)
  <2>1. PICK S : /\ S = {r \in Members(rows) : rows[r].active}
                 /\ StageLocked(s, BookLock, SetAll(S, [active |-> FALSE]))
    BY <1>4 DEF DeleteWorkbook
  <2>2. PICK cols : cols = [active |-> FALSE]
    OBVIOUS
  <2>3. DOMAIN cols = {"active"} /\ cols.active = FALSE
    BY <2>2
  <2>4. S \subseteq Table("versions")
    BY <2>1 DEF Members
  <2>5. S \in SUBSET DOMAIN rows /\ \A r \in S : MayWrite(cols, types[r])
    BY <1>1, <2>3, <2>4, VersionColumns DEF MayWrite
  <2> QED BY <1>1, <2>1, <2>2, <2>5, WritesSetAll
<1>5. CASE EditTags(s)
  <2>1. PICK r \in Live("versions") : Stage(s, Set(r, [member |-> FALSE]))
    BY <1>5 DEF EditTags
  <2>2. PICK cols : cols = [member |-> FALSE]
    OBVIOUS
  <2>3. DOMAIN cols = {"member"} /\ cols.member = FALSE
    BY <2>2
  <2>4. r \in DOMAIN rows /\ types[r] = VersionTypes
    BY <1>1 DEF Live
  <2>5. MayWrite(cols, types[r])
    BY <2>3, <2>4, VersionColumns DEF MayWrite
  <2> QED BY <2>1, <2>2, <2>4, <2>5, WritesSet DEF Stage
<1> QED BY <1>2, <1>3, <1>4, <1>5 DEF VersionStep

\* One more thing remembered.
LEMMA Prepended ==
    ASSUME NEW n \in Nat, NEW h \in [1..n -> Contents], NEW a \in Contents
    PROVE  /\ <<a>> \o h \in [1..(n + 1) -> Contents] /\ Len(<<a>> \o h) = n + 1
           /\ <<a>> \o h # h
<1>1. h \in Seq(Contents) /\ Len(h) = n
  OBVIOUS
<1>2. <<a>> \in Seq(Contents) /\ Len(<<a>>) = 1
  OBVIOUS
<1>3. <<a>> \o h \in Seq(Contents) /\ Len(<<a>> \o h) = n + 1
  BY <1>1, <1>2
<1>4. PICK g : g = <<a>> \o h
  OBVIOUS
<1>5. g \in [1..(n + 1) -> Contents]
  <2>1. g \in Seq(Contents) /\ Len(g) = n + 1
    BY <1>3, <1>4
  <2>2. g \in [1..Len(g) -> Contents]
    BY <2>1
  <2>3. PICK m : m = n + 1
    OBVIOUS
  <2>4. g \in [1..m -> Contents]
    BY <2>1, <2>2, <2>3
  <2> QED BY <2>3, <2>4
<1>6. g # h
  BY <1>1, <1>3, <1>4
<1> QED BY <1>3, <1>4, <1>5, <1>6

\* A shared copy that a request stages columns for stays one that remembers, as long as
\* its revision and its history are both changed or neither.
LEMMA ShareStaged ==
    ASSUME NEW types, ShelfFits(types), desk = "shares", NEW s \in Sessions, NEW locked,
           NEW r \in DOMAIN rows, NEW cols, locked \subseteq DOMAIN rows \cup Advisory,
           MayWrite(cols, types[r]), StageLocked(s, locked, Set(r, cols)),
           Revises(Dirty(r, cols))
    PROVE  Shape' /\ Typed(types)' /\ Shelved' /\ Alike
<1>1. PICK writes : writes = Set(r, cols)
  OBVIOUS
<1>2. DOMAIN writes = {r} /\ writes[r] = cols
  BY <1>1 DEF Set
<1>3. Proper(writes, types)
  BY <1>1, ProperSet
<1>4. /\ Shape' /\ OthersStay(s) /\ UNCHANGED <<desk, rows, torn>>
      /\ DOMAIN open'[s].writes \subseteq {r}
      /\ \A x \in DOMAIN open'[s].writes : open'[s].writes[x] = Dirty(r, cols)
  BY <1>1, <1>2, StageShape DEF ShelfFits
<1>5. Typed(types)'
  BY <1>1, <1>3, TypedStages DEF ShelfFits
<1>6. \A x \in DOMAIN rows : There(x)' = There(x) /\ rows'[x] = rows[x]
  BY <1>4 DEF There
<1>7. \A x \in DOMAIN rows' : There(x)' => Remembers(rows'[x])
  BY <1>4, <1>6 DEF ShelfFits, Shelved
<1>8. ASSUME NEW t \in Sessions, NEW x \in DOMAIN open'[t].writes
      PROVE  Revises(open'[t].writes[x])
  BY <1>4, <1>8 DEF OthersStay, ShelfFits, Shelved
<1>9. Shelved'
  BY <1>7, <1>8 DEF Shelved, Remembers, Revises
<1> QED BY <1>4, <1>5, <1>9 DEF Alike

\* Every request about a shared copy.
LEMMA ShareWrites ==
    ASSUME NEW types, ShelfFits(types), desk = "shares", NEW s \in Sessions, ShareStep(s)
    PROVE  Shape' /\ Typed(types)' /\ Shelved' /\ Alike
<1>1. /\ \A r \in DOMAIN rows : types[r] = ShareTypes
      /\ \A r \in Table("shares") : r \in DOMAIN rows /\ r[2] \in Nat
      /\ \A r \in Live("shares") : r \in DOMAIN rows /\ There(r) /\ IsRow(rows[r], ShareTypes)
  BY ShelfRow
<1>2. CASE CreateShare(s)
  <2>1. PICK book \in Contents :
            /\ Spare("shares") # {}
            /\ Stage(s, Insert("shares", [workbook |-> book, revision |-> 1, revoked |-> FALSE,
                                          history |-> <<>>]))
    BY <1>2 DEF CreateShare
  <2>2. PICK r : r = NewRow("shares")
    OBVIOUS
  <2>3. r \in Table("shares") /\ ~There(r)
    BY <1>1, <2>1, <2>2, NewRowIsSpare
  <2>4. r \in DOMAIN rows /\ rows[r] = Absent
    BY <1>1, <2>3 DEF ShelfFits, Shape
  <2>5. PICK given, cols : /\ given = [workbook |-> book, revision |-> 1, revoked |-> FALSE,
                                       history |-> <<>>]
                           /\ cols = Over([there |-> TRUE], given)
    OBVIOUS
  <2>6. /\ DOMAIN given = {"workbook", "revision", "revoked", "history"}
        /\ given.workbook = book /\ given.revision = 1 /\ given.revoked = FALSE
        /\ given.history = <<>>
    BY <2>5
  <2>7. <<>> \in [1..0 -> Contents] /\ 0 \in 0..(MaxRevision - 1) /\ 1 \in 1..MaxRevision
    BY DEF MaxRevision
  <2>8. <<>> \in Histories
    BY <2>7 DEF Histories
  <2>9. /\ DOMAIN ShareTypes = {"there"} \cup DOMAIN given
        /\ \A c \in DOMAIN given \ {"there"} : given[c] \in ShareTypes[c]
    BY <2>6, <2>7, <2>8, ShareColumns
  <2>10. MayWrite(cols, ShareTypes)
    BY ShareColumns, <2>9, MayInsert, <2>5
  <2>11. /\ DOMAIN cols = {"there", "workbook", "revision", "revoked", "history"}
         /\ cols = [c \in DOMAIN cols |-> cols[c]]
         /\ cols.there = TRUE /\ cols.revision = 1 /\ cols.history = <<>>
    BY <2>5, <2>6 DEF Over
  <2>12. Dirty(r, cols) = cols
    BY <2>4, <2>11, NewRowDirty
  <2>13. Revises(cols)
    BY <2>7, <2>11 DEF Remembers, Revises
  <2>14. StageLocked(s, {}, Set(r, cols))
    BY <2>1, <2>2, <2>5 DEF Insert, Stage
  <2>15. {} \subseteq DOMAIN rows \cup Advisory /\ MayWrite(cols, types[r]) /\ Revises(Dirty(r, cols))
    BY <1>1, <2>4, <2>10, <2>12, <2>13
  <2> QED BY <2>4, <2>14, <2>15, ShareStaged
<1>3. CASE UpdateShare(s)
  <2>1. PICK r \in Live("shares"), book \in Contents, revision \in 1..MaxRevision :
            /\ rows[r].revision = revision
            /\ revision < MaxRevision
            /\ StageLocked(s, {r}, Set(r, [workbook |-> book, revision |-> revision + 1,
                                           history |-> Earlier(rows[r])]))
    BY <1>3 DEF UpdateShare
  <2>2. PICK old, h, now : old = rows[r] /\ h = old.history /\ now = Earlier(old)
    OBVIOUS
  <2>3. /\ r \in DOMAIN rows /\ There(r) /\ old.workbook \in Contents
        /\ DOMAIN old = {"there", "workbook", "revision", "revoked", "history"}
    BY <1>1, <2>2, ShareColumns DEF IsRow
  <2>4. PICK n \in 0..(revision - 1) : h \in [1..n -> Contents]
    BY <2>2, <2>3, <2>1 DEF ShelfFits, Shelved, Remembers
  <2>5. revision \in 1..2 /\ n \in 0..1 /\ n + 1 \in 0..revision /\ n + 1 \in 0..(MaxRevision - 1)
    BY <2>1, <2>4 DEF MaxRevision
  <2>6. now \in [1..(n + 1) -> Contents] /\ now # h
    BY <2>3, <2>4, <2>5, Prepended, <2>2 DEF KeptRevisions, Earlier
  <2>7. PICK cols : cols = [workbook |-> book, revision |-> revision + 1, history |-> now]
    OBVIOUS
  <2>8. /\ DOMAIN cols = {"workbook", "revision", "history"}
        /\ cols.workbook = book /\ cols.revision = revision + 1 /\ cols.history = now
    BY <2>7
  <2>9. now \in Histories /\ revision + 1 \in 1..MaxRevision
    BY <2>5, <2>6 DEF Histories, MaxRevision
  <2>10. MayWrite(cols, types[r])
    BY <1>1, <2>3, <2>8, <2>9, ShareColumns DEF MayWrite
  <2>11. Revises(Dirty(r, cols))
    BY <2>2, <2>1, <2>5, <2>6, <2>8, <2>9 DEF Dirty, Remembers, Revises
  <2>12. StageLocked(s, {r}, Set(r, cols))
    BY <2>1, <2>2, <2>7
  <2> QED BY <2>3, <2>10, <2>11, <2>12, ShareStaged
<1>4. CASE RevokeShare(s)
  <2>1. PICK r \in Live("shares") : StageLocked(s, {r}, Set(r, [revoked |-> TRUE]))
    BY <1>4 DEF RevokeShare
  <2>2. PICK cols : cols = [revoked |-> TRUE]
    OBVIOUS
  <2>3. DOMAIN cols = {"revoked"} /\ cols.revoked = TRUE
    BY <2>2
  <2>4. r \in DOMAIN rows /\ MayWrite(cols, types[r])
    BY <1>1, <2>3, ShareColumns DEF MayWrite
  <2>5. Revises(Dirty(r, cols))
    BY <2>3 DEF Dirty, Revises
  <2> QED BY <2>1, <2>2, <2>4, <2>5, ShareStaged
<1> QED BY <1>2, <1>3, <1>4 DEF ShareStep

\* A commit leaves shared copies that remember.
LEMMA ShareCommits ==
    ASSUME NEW types, ShelfFits(types), desk = "shares", NEW s \in Sessions, Commit(s, TRUE)
    PROVE  Shelved'
<1>1. /\ OthersStay(s) /\ DOMAIN rows' = DOMAIN rows /\ DOMAIN open[s].writes \subseteq DOMAIN rows
      /\ \A r \in DOMAIN rows :
            /\ r \in DOMAIN open[s].writes => rows'[r] = Written(rows[r], open[s].writes[r])
            /\ r \notin DOMAIN open[s].writes => rows'[r] = rows[r]
      /\ DOMAIN open'[s].writes = {}
  BY CommitShape DEF ShelfFits, Shape
<1>2. ASSUME NEW r \in DOMAIN rows, rows'[r].there PROVE Remembers(rows'[r])
  <2>1. CASE r \notin DOMAIN open[s].writes
    BY <1>1, <1>2, <2>1 DEF ShelfFits, Shelved, There
  <2>2. CASE r \in DOMAIN open[s].writes
    <3>1. PICK cols, old, new : cols = open[s].writes[r] /\ old = rows[r] /\ new = Over(cols, old)
      OBVIOUS
    <3>2. rows'[r] = IF new.there THEN new ELSE Absent
      BY <1>1, <2>2, <3>1 DEF Written
    <3>3. rows'[r] = new /\ new.there
      BY <1>2, <3>2 DEF Absent
    <3>4. /\ DOMAIN new = DOMAIN cols \cup DOMAIN old
          /\ \A c \in DOMAIN new : new[c] = IF c \in DOMAIN cols THEN cols[c] ELSE old[c]
      BY <3>1 DEF Over
    <3>5. Revises(cols) /\ MayWrite(cols, ShareTypes) /\ (old = Absent \/ IsRow(old, ShareTypes))
      <4>1. types[r] = ShareTypes /\ Typed(types) /\ Shelved
        BY ShelfRow DEF ShelfFits
      <4>2. Revises(cols)
        BY <2>2, <3>1, <4>1 DEF Shelved
      <4>3. MayWrite(cols, types[r]) /\ (old = Absent \/ IsRow(old, types[r]))
        BY <2>2, <3>1, <4>1 DEF Typed
      <4> QED BY <4>1, <4>2, <4>3
    <3>6. CASE "history" \in DOMAIN cols
      BY <3>4, <3>5, <3>6, <3>3 DEF Revises, Remembers
    <3>7. CASE "history" \notin DOMAIN cols
      <4>1. "revision" \notin DOMAIN cols /\ ~IsRow(cols, ShareTypes)
        BY <3>5, <3>7, ShareColumns DEF Revises, IsRow
      <4>2. "there" \in DOMAIN cols => cols.there = FALSE
        BY <3>5, <4>1 DEF MayWrite
      <4>3. old.there /\ IsRow(old, ShareTypes)
        BY <3>5, ShareColumns, <3>3, <3>4, <4>2 DEF IsRow, Absent
      <4>4. new.history = old.history /\ new.revision = old.revision
        BY <3>4, <3>7, <4>1, <4>3, ShareColumns DEF IsRow
      <4>5. Remembers(old)
        BY <3>1, <4>3 DEF ShelfFits, Shelved, There
      <4> QED BY <3>3, <4>4, <4>5 DEF Remembers
    <3> QED BY <3>6, <3>7
  <2> QED BY <2>1, <2>2
<1>3. ASSUME NEW t \in Sessions, NEW x \in DOMAIN open'[t].writes
      PROVE  Revises(open'[t].writes[x])
  BY <1>1, <1>3 DEF OthersStay, ShelfFits, Shelved
<1>4. \A r \in DOMAIN rows' : There(r)' => Remembers(rows'[r])
  BY <1>1, <1>2 DEF There
<1> QED BY <1>3, <1>4 DEF Shelved, Remembers, Revises

\* At the beginning nothing is there.
LEMMA ShelfBegins == WorkbookInit => ShelfInv
<1> SUFFICES ASSUME WorkbookInit PROVE ShelfInv
  OBVIOUS
<1>1. /\ desk \in WorkbookDesks /\ DOMAIN rows = BookIds /\ StoreInit
      /\ rows = [r \in DOMAIN rows |-> rows[r]] /\ \A r \in DOMAIN rows : rows[r] = Absent
  BY DEF WorkbookInit, BookIds
<1>2. \A r \in DOMAIN rows : ~There(r)
  BY <1>1 DEF There, Absent
<1>3. Shape /\ \A s \in Sessions : DOMAIN open[s].writes = {}
  BY <1>1, InitShape
<1>4. PICK types : types = WorkbookTypes
  OBVIOUS
<1>5. \A r \in DOMAIN rows : "there" \in DOMAIN types[r] /\ types[r].there = {TRUE}
  BY <1>4, VersionColumns, ShareColumns DEF WorkbookTypes
<1>6. Typed(types)
  BY <1>1, <1>5, TypedStarts
<1>7. Shelved
  BY <1>2, <1>3 DEF Shelved
<1>8. ShelfFits(types)
  BY <1>1, <1>3, <1>4, <1>6, <1>7 DEF ShelfFits
<1> QED BY <1>4, <1>8 DEF ShelfInv

\* Types do not change.
LEMMA ShelfStays ==
    ASSUME Alike
    PROVE  WorkbookTypes' = WorkbookTypes /\ BookIds' = BookIds
  BY DEF Alike, Bases, Table, NoRef, VersionTypes, ShareTypes, Users, Operations, Contents,
     Histories, MaxRevision, WorkbookTypes, BookIds

\* Every step keeps it.
LEMMA ShelfGoesOn == ShelfInv /\ [WorkbookNext]_storeVars => ShelfInv'
  BY TypedMoves, VersionWrites, ShareWrites, ShareCommits, AbortShape, ShelfStays DEF
     ShelfInv, ShelfFits, Moves, WorkbookRequest, Shelved, There, OthersStay, Remembers,
     Revises, storeVars, WorkbookNext, Alike, WorkbookDesks

\* What it says of each table.
LEMMA ShelfSays == ShelfInv => WorkbookTypeOK
<1> SUFFICES ASSUME ShelfInv PROVE WorkbookTypeOK
  OBVIOUS
<1>1. PICK types : types = WorkbookTypes
  OBVIOUS
<1>2. ShelfFits(types)
  BY <1>1 DEF ShelfInv
<1>3. ASSUME NEW row, IsRow(row, VersionTypes) PROVE row \in VersionRows
  BY <1>3, VersionColumns DEF IsRow, VersionRows
<1>4. ASSUME NEW row, IsRow(row, ShareTypes) PROVE row \in ShareRows
  <2>1. Histories = UNION {[1..n -> Contents] : n \in 0..(MaxRevision - 1)}
    BY DEF Histories
  <2>2. PICK all : all = Histories
    OBVIOUS
  <2>3. ShareRows = [there : {TRUE}, workbook : Contents, revision : 1..MaxRevision,
                     revoked : BOOLEAN, history : all]
    BY <2>1, <2>2, Zenon DEF ShareRows
  <2> QED BY <1>4, <2>2, <2>3, ShareColumns DEF IsRow
<1>5. \A r \in Live("versions") : rows[r] \in VersionRows
  BY <1>2, <1>3, ShelfRow
<1>6. \A r \in Live("shares") : rows[r] \in ShareRows
  BY <1>2, <1>4, ShelfRow
<1> QED BY <1>5, <1>6 DEF WorkbookTypeOK
-----------------------------------------------------------------------------
(* Locks and sessions at the desks of bookings. *)

\* What a session has locked is there to be locked.
Stored ==
    /\ torn \in BOOLEAN
    /\ \A s \in Sessions : /\ open[s].fresh \in BOOLEAN
                           /\ open[s].locks \subseteq DOMAIN rows \cup Advisory

\* So it stays when a handler locks what there is, and when a request ends.
LEMMA StoredStages ==
    ASSUME Shape, Stored, NEW s \in Sessions, NEW locked, NEW writes,
           locked \subseteq DOMAIN rows \cup Advisory, StageLocked(s, locked, writes)
    PROVE  Stored'
  BY DEF StageLocked, Shape, Stored, Advisory

LEMMA StoredEnds ==
    ASSUME Shape, Stored, NEW s \in Sessions, Commit(s, TRUE) \/ Abort(s)
    PROVE  Stored'
<1>1. CASE Commit(s, TRUE)
  <2>1. /\ DOMAIN rows' = DOMAIN rows /\ Shape'
        /\ torn' = (torn \/ ~open[s].fresh)
    BY <1>1, CommitShape, CommitAfter
  <2>2. ASSUME NEW t \in Sessions
        PROVE  /\ open'[t].fresh \in BOOLEAN
               /\ open'[t].locks = {} \/ open'[t].locks = open[t].locks
    BY <1>1 DEF Commit, Shape, Idle
  <2>3. torn' \in BOOLEAN
    BY <2>1 DEF Stored
  <2>4. Advisory' = Advisory
    BY DEF Advisory
  <2>5. \A t \in Sessions : /\ open'[t].fresh \in BOOLEAN
                            /\ open'[t].locks \subseteq DOMAIN rows' \cup Advisory'
    BY <2>1, <2>2, <2>4 DEF Stored
  <2> QED BY <2>3, <2>5 DEF Stored
<1>2. CASE Abort(s)
  BY <1>2 DEF Abort, Shape, Idle, Stored, Advisory
<1> QED BY <1>1, <1>2

\* Every step of the bookings leaves locks on rows of their tables.
LEMMA BookingsStored ==
    ASSUME BookingInv, Stored, [BookingNext]_storeVars
    PROVE  Stored'
<1>1. Shape /\ desk \in BookingDesks
  BY DEF BookingInv
<1>2. ASSUME NEW name, NEW r \in Live(name) PROVE {r} \subseteq DOMAIN rows \cup Advisory
  BY <1>2 DEF Live, Table
<1>3. ASSUME NEW s \in Sessions, BookingStep(s) PROVE Stored'
  <2>1. CASE LeaveCreate(s)
    BY <1>1, <1>2, <2>1, StoredStages DEF LeaveCreate
  <2>2. CASE LeaveDecide(s)
    BY <1>1, <1>2, <2>2, StoredStages DEF LeaveDecide
  <2>3. CASE AddSalary(s)
    BY <1>1, <1>2, <2>3, StoredStages DEF AddSalary
  <2>4. CASE desk = "salaries" /\ EndSalary(s)
    <3>1. PICK r \in Live("salaries"), day \in Days :
              StageLocked(s, {rows[r].of}, Set(r, [until |-> day]))
      BY <2>4 DEF EndSalary
    <3>2. rows[r] \in SalaryRows
      BY <2>4 DEF BookingInv, BookingTypeOK, BookingDesks, Live
    <3>3. {rows[r].of} \subseteq DOMAIN rows \cup Advisory
      BY <3>2 DEF SalaryRows, Table
    <3> QED BY <1>1, <3>1, <3>3, StoredStages
  <2> QED BY <1>3, <2>1, <2>2, <2>3, <2>4 DEF BookingStep, LeaveStep, SalaryStep
<1>4. CASE UNCHANGED storeVars
  BY <1>4 DEF storeVars, Stored, Advisory
<1> QED BY <1>1, <1>3, <1>4, StoredEnds DEF BookingNext

\* The store is as it should be where sessions are.
LEMMA StoredIs == Shape /\ Stored => StoreTypeOK
  BY DEF Shape, Stored, StoreTypeOK

LEMMA StoredBegins == StoreInit => Stored
<1> SUFFICES ASSUME StoreInit PROVE Stored
  OBVIOUS
<1>1. torn = FALSE /\ \A s \in Sessions : open[s] = Idle
  BY DEF StoreInit
<1>2. Idle.fresh = TRUE /\ Idle.locks = {}
  BY DEF Idle
<1> QED BY <1>1, <1>2 DEF Stored
-----------------------------------------------------------------------------
(* What the head office keeps. *)

\* The types of the columns of each table.
RoleTypes == [there |-> {TRUE}, name |-> Names]
RequestTypes ==
    [there |-> {TRUE}, by |-> Employees, token |-> BOOLEAN,
     status |-> {"PENDING", "APPROVED", "REJECTED"}]
ContractTypes == [there |-> {TRUE}, expiry |-> Expiries, rejected |-> BOOLEAN]
RuleTypes == [there |-> {TRUE}, lead |-> 0..1, active |-> BOOLEAN]
LeaveTypes == [there |-> {TRUE}, status |-> {"PENDING", "APPROVED", "REJECTED"}]
LetterTypes == [there |-> {TRUE}, expiry |-> Expiries]
NoticeTypes == [there |-> {TRUE}, read |-> BOOLEAN]
InboxTypes ==
    [there |-> {TRUE}, of |-> Employees, mailed |-> BOOLEAN, read |-> BOOLEAN,
     resolved |-> BOOLEAN, forwarded |-> BOOLEAN]
CopyTypes == [there |-> {TRUE}, to |-> Employees]
ScorecardTypes ==
    [there |-> {TRUE}, grade |-> {"A", "B", "C", "D", "F"}, from |-> Days, until |-> Days]
OpportunityTypes == [there |-> {TRUE}, stage |-> TenderStages]
MarkTypes == [there |-> {TRUE}]

AdministrationTypes ==
    [r \in DOMAIN rows |->
        IF r[1] = "roles" THEN RoleTypes ELSE IF r[1] = "requests" THEN RequestTypes
        ELSE IF r[1] = "contracts" THEN ContractTypes ELSE IF r[1] = "rules" THEN RuleTypes
        ELSE IF r[1] = "leaves" THEN LeaveTypes ELSE IF r[1] = "letters" THEN LetterTypes
        ELSE IF r[1] = "inbox" THEN InboxTypes ELSE IF r[1] = "copies" THEN CopyTypes
        ELSE IF r[1] = "scorecards" THEN ScorecardTypes
        ELSE IF r[1] = "reminders" THEN NoticeTypes
        ELSE IF r[1] = "opportunities" THEN OpportunityTypes ELSE MarkTypes]

\* Their columns.
LEMMA RoleColumns ==
    /\ DOMAIN RoleTypes = {"there", "name"}
    /\ RoleTypes.there = {TRUE} /\ RoleTypes.name = Names
  BY DEF RoleTypes

LEMMA RequestColumns ==
    /\ DOMAIN RequestTypes = {"there", "by", "token", "status"}
    /\ RequestTypes.there = {TRUE} /\ RequestTypes.by = Employees
    /\ RequestTypes.token = BOOLEAN
    /\ RequestTypes.status = {"PENDING", "APPROVED", "REJECTED"}
  BY DEF RequestTypes

LEMMA ContractColumns ==
    /\ DOMAIN ContractTypes = {"there", "expiry", "rejected"}
    /\ ContractTypes.there = {TRUE} /\ ContractTypes.expiry = Expiries
    /\ ContractTypes.rejected = BOOLEAN
  BY DEF ContractTypes

LEMMA RuleColumns ==
    /\ DOMAIN RuleTypes = {"there", "lead", "active"}
    /\ RuleTypes.there = {TRUE} /\ RuleTypes.lead = 0..1 /\ RuleTypes.active = BOOLEAN
  BY DEF RuleTypes

LEMMA LeaveColumns ==
    /\ DOMAIN LeaveTypes = {"there", "status"}
    /\ LeaveTypes.there = {TRUE}
    /\ LeaveTypes.status = {"PENDING", "APPROVED", "REJECTED"}
  BY DEF LeaveTypes

LEMMA LetterColumns ==
    /\ DOMAIN LetterTypes = {"there", "expiry"}
    /\ LetterTypes.there = {TRUE} /\ LetterTypes.expiry = Expiries
  BY DEF LetterTypes

LEMMA NoticeColumns ==
    /\ DOMAIN NoticeTypes = {"there", "read"}
    /\ NoticeTypes.there = {TRUE} /\ NoticeTypes.read = BOOLEAN
  BY DEF NoticeTypes

LEMMA InboxColumns ==
    /\ DOMAIN InboxTypes = {"there", "of", "mailed", "read", "resolved", "forwarded"}
    /\ InboxTypes.there = {TRUE} /\ InboxTypes.of = Employees
    /\ InboxTypes.mailed = BOOLEAN /\ InboxTypes.read = BOOLEAN
    /\ InboxTypes.resolved = BOOLEAN /\ InboxTypes.forwarded = BOOLEAN
  BY DEF InboxTypes

LEMMA CopyColumns ==
    /\ DOMAIN CopyTypes = {"there", "to"}
    /\ CopyTypes.there = {TRUE} /\ CopyTypes.to = Employees
  BY DEF CopyTypes

LEMMA ScorecardColumns ==
    /\ DOMAIN ScorecardTypes = {"there", "grade", "from", "until"}
    /\ ScorecardTypes.there = {TRUE} /\ ScorecardTypes.grade = {"A", "B", "C", "D", "F"}
    /\ ScorecardTypes.from = Days /\ ScorecardTypes.until = Days
  BY DEF ScorecardTypes

LEMMA OpportunityColumns ==
    /\ DOMAIN OpportunityTypes = {"there", "stage"}
    /\ OpportunityTypes.there = {TRUE} /\ OpportunityTypes.stage = TenderStages
  BY DEF OpportunityTypes

LEMMA MarkColumns == DOMAIN MarkTypes = {"there"} /\ MarkTypes.there = {TRUE}
  BY DEF MarkTypes

\* Every table says that its rows are there.
LEMMA AdministrationThere ==
    ASSUME NEW r \in DOMAIN rows
    PROVE  "there" \in DOMAIN AdministrationTypes[r] /\ AdministrationTypes[r].there = {TRUE}
  BY RoleColumns, RequestColumns, ContractColumns, RuleColumns, LeaveColumns, LetterColumns,
     InboxColumns, CopyColumns, ScorecardColumns, OpportunityColumns, NoticeColumns,
     MarkColumns DEF AdministrationTypes

\* Each has its types.
MarkTables == {"permissions", "grants", "documents", "answers", "expiries", "access", "artifacts"}

LEMMA AdministrationTyping ==
    ASSUME NEW types, types = AdministrationTypes
    PROVE  /\ \A r \in Table("roles") : types[r] = RoleTypes
           /\ \A r \in Table("requests") : types[r] = RequestTypes
           /\ \A r \in Table("contracts") : types[r] = ContractTypes
           /\ \A r \in Table("rules") : types[r] = RuleTypes
           /\ \A r \in Table("leaves") : types[r] = LeaveTypes
           /\ \A r \in Table("letters") : types[r] = LetterTypes
           /\ \A r \in Table("inbox") : types[r] = InboxTypes
           /\ \A r \in Table("copies") : types[r] = CopyTypes
           /\ \A r \in Table("scorecards") : types[r] = ScorecardTypes
           /\ \A r \in Table("reminders") : types[r] = NoticeTypes
           /\ \A r \in Table("opportunities") : types[r] = OpportunityTypes
           /\ \A name \in MarkTables : \A r \in Table(name) : types[r] = MarkTypes
  BY DEF Table, AdministrationTypes, MarkTables

\* Rows and where they are.
LEMMA AdministrationNames ==
    ASSUME desk \in DOMAIN AdministrationIds, DOMAIN rows = AdministrationIds[desk]
    PROVE  /\ \A name : \A r \in Table(name) : r \in DOMAIN rows /\ r[2] \in Nat /\ r[1] = name
           /\ desk = "roles" => DOMAIN rows = {"permissions", "grants", "roles"} \X Numbers
           /\ desk = "downloads" =>
                 DOMAIN rows = ({"documents"} \X {1}) \cup ({"requests"} \X Numbers)
           /\ desk = "reminders" =>
                 DOMAIN rows = ({"contracts", "rules"} \X {1}) \cup ({"letters"} \X (1..3))
                                   \cup ({"reminders"} \X Expiries)
           /\ desk = "answers" =>
                 DOMAIN rows = ({"contracts", "leaves"} \X {1}) \cup ({"answers"} \X (1..3))
                                   \cup ({"expiries"} \X Expiries)
           /\ desk = "inbox" => DOMAIN rows = {"inbox", "copies"} \X (1..3)
           /\ desk = "tower" => DOMAIN rows = {"scorecards", "opportunities"} \X {1}
           /\ desk = "clients" => DOMAIN rows = {"access", "artifacts"} \X {1}
<1>1. Numbers \subseteq Nat /\ Expiries \subseteq Nat
  BY RowStoreAssumption DEF RowStoreAssumption, Expiries
<1>2. /\ desk = "roles" => DOMAIN rows = {"permissions", "grants", "roles"} \X Numbers
      /\ desk = "downloads" =>
            DOMAIN rows = ({"documents"} \X {1}) \cup ({"requests"} \X Numbers)
      /\ desk = "reminders" =>
            DOMAIN rows = ({"contracts", "rules"} \X {1}) \cup ({"letters"} \X (1..3))
                              \cup ({"reminders"} \X Expiries)
      /\ desk = "answers" =>
            DOMAIN rows = ({"contracts", "leaves"} \X {1}) \cup ({"answers"} \X (1..3))
                              \cup ({"expiries"} \X Expiries)
      /\ desk = "inbox" => DOMAIN rows = {"inbox", "copies"} \X (1..3)
      /\ desk = "tower" => DOMAIN rows = {"scorecards", "opportunities"} \X {1}
      /\ desk = "clients" => DOMAIN rows = {"access", "artifacts"} \X {1}
  BY DEF AdministrationIds, OneOf
<1>3. desk \in {"roles", "downloads", "reminders", "answers", "inbox", "tower", "clients"}
  BY OfficeDesks
<1>4. ASSUME NEW r \in DOMAIN rows PROVE r[2] \in Nat
  <2>0. PICK n : n = r[2]
    OBVIOUS
  <2>1. \A S, T : r \in S \X T => r[2] \in T
    OBVIOUS
  <2>2. CASE desk \in {"roles", "inbox"}
    <3>1. DOMAIN rows \in {{"permissions", "grants", "roles"} \X Numbers,
                           {"inbox", "copies"} \X (1..3)}
      BY <1>2, <2>2
    <3>2. r[2] \in Numbers \/ r[2] \in 1..3
      BY <2>1, <3>1
    <3>3. n \in Numbers \/ n \in 1..3
      BY <2>0, <3>2
    <3>4. n \in Nat
      BY <1>1, <3>3
    <3> QED BY <2>0, <3>4
  <2>3. CASE desk \in {"tower", "clients"}
    BY <1>2, <2>3, <2>1
  <2>4. CASE desk = "downloads"
    <3>1. r[2] \in {1} \/ r[2] \in Numbers
      BY <1>2, <2>1, <2>4
    <3>2. n \in {1} \/ n \in Numbers
      BY <2>0, <3>1
    <3>3. n \in Nat
      BY <1>1, <3>2
    <3> QED BY <2>0, <3>3
  <2>5. CASE desk \in {"reminders", "answers"}
    <3>1. r[2] \in {1} \/ r[2] \in 1..3 \/ r[2] \in Expiries
      BY <1>2, <2>1, <2>5
    <3>2. n \in {1} \/ n \in 1..3 \/ n \in Expiries
      BY <2>0, <3>1
    <3>3. n \in Nat
      BY <1>1, <3>2
    <3> QED BY <2>0, <3>3
  <2> QED BY <1>3, <2>2, <2>3, <2>4, <2>5
<1>5. \A name : \A r \in Table(name) : r \in DOMAIN rows /\ r[2] \in Nat /\ r[1] = name
  BY <1>4 DEF Table
<1> QED BY <1>2, <1>5

\* Nobody has two requests pending.
OnePending(tab) ==
    \A q, p \in Table("requests") :
        /\ tab[q].there /\ tab[p].there /\ tab[q].by = tab[p].by
        /\ tab[q].status = "PENDING" /\ tab[p].status = "PENDING"
        => q = p

AdministrationSound ==
    {tab \in Tables(AdministrationTypes) : desk = "downloads" => OnePending(tab)}

\* At a desk of the head office, rows and writes are typed and sound.
AdministrationFits(types, sound) ==
    /\ Shape /\ desk \in DOMAIN AdministrationIds /\ DOMAIN rows = AdministrationIds[desk]
    /\ types = AdministrationTypes /\ sound = AdministrationSound
    /\ Typed(types) /\ StaySound(sound)

\* A row that is there has the columns of its table.
LEMMA AdministrationRow ==
    ASSUME NEW types, NEW sound, AdministrationFits(types, sound), NEW name, NEW r \in Live(name)
    PROVE  /\ r \in Table(name) /\ r \in DOMAIN rows /\ There(r) /\ rows[r].there
           /\ IsRow(rows[r], types[r])
<1>1. r \in Table(name) /\ r \in DOMAIN rows /\ There(r)
  BY DEF Live, Table
<1>2. rows[r] # Absent /\ rows[r].there
  BY <1>1 DEF There, Absent
<1> QED BY <1>1, <1>2 DEF AdministrationFits, Typed

\* What is asked of the tables of a desk.
LEMMA AdministrationAsks ==
    ASSUME NEW types, NEW sound, AdministrationFits(types, sound), NEW tab, IsTable(tab, types)
    PROVE  /\ desk = "downloads" => (tab \in sound <=> OnePending(tab))
           /\ desk # "downloads" => tab \in sound
  BY TablesAre DEF AdministrationFits, AdministrationSound

\* What the lemmas below need of it.
LEMMA AdministrationHas ==
    ASSUME NEW types, NEW sound, AdministrationFits(types, sound)
    PROVE  /\ Shape /\ Typed(types) /\ types = AdministrationTypes
           /\ desk \in DOMAIN AdministrationIds /\ DOMAIN rows = AdministrationIds[desk]
           /\ \A name : \A r \in Table(name) : r \in DOMAIN rows /\ r[2] \in Nat /\ r[1] = name
           /\ \A name : Live(name) \subseteq Table(name) /\ Table(name) \subseteq DOMAIN rows
  BY AdministrationNames DEF AdministrationFits, Live, Table

\* A mark is made or taken away.
LEMMA MarkWritten ==
    ASSUME NEW b \in BOOLEAN
    PROVE  MayWrite([there |-> b], MarkTypes)
<1>1. PICK row : row = [there |-> b]
  OBVIOUS
<1>2. DOMAIN row = {"there"} /\ row = [c \in DOMAIN row |-> row[c]] /\ row.there = b
  BY <1>1
<1>3. CASE b
  BY <1>2, <1>3, MarkColumns, <1>1 DEF IsRow, MayWrite
<1>4. CASE ~b
  BY <1>1, <1>2, <1>4 DEF MayWrite
<1> QED BY <1>3, <1>4

\* Nothing is written.
LEMMA NothingWritten ==
    ASSUME NEW types
    PROVE  Proper(<<>>, types) /\ DOMAIN <<>> = {}
  BY DEF Proper

\* Roles and what they permit.
LEMMA RoleWrites ==
    ASSUME NEW types, NEW sound, AdministrationFits(types, sound), NEW s \in Sessions,
           desk = "roles", RoleStep(s)
    PROVE  Writes(s, types)
<1>1. /\ Shape /\ Typed(types) /\ types = AdministrationTypes
      /\ \A name : \A r \in Table(name) : r \in DOMAIN rows /\ r[2] \in Nat
      /\ \A name : Live(name) \subseteq Table(name) /\ Table(name) \subseteq DOMAIN rows
      /\ DOMAIN rows = {"permissions", "grants", "roles"} \X Numbers
      /\ \A r \in Table("permissions") : types[r] = MarkTypes
      /\ \A r \in Table("grants") : types[r] = MarkTypes
      /\ \A r \in Table("roles") : types[r] = RoleTypes
  BY AdministrationHas, AdministrationNames, AdministrationTyping DEF MarkTables
<1>2. CASE SeedPermissions(s)
  <2>1. PICK S : /\ S = Table("permissions") \ Live("permissions")
                 /\ Stage(s, SetAll(S, [there |-> TRUE]))
    BY <1>2 DEF SeedPermissions
  <2>2. S \in SUBSET DOMAIN rows /\ \A r \in S : MayWrite([there |-> TRUE], types[r])
    BY <1>1, <2>1, MarkWritten
  <2>3. StageLocked(s, {}, SetAll(S, [there |-> TRUE]))
    BY <2>1 DEF Stage
  <2>4. {} \subseteq DOMAIN rows \cup Advisory
    OBVIOUS
  <2> QED BY <2>2, <2>3, <2>4, WritesSetAll
<1>3. CASE CreateRole(s)
  BY <1>3, RoleColumns, <1>1, WritesInsert DEF CreateRole
<1>4. CASE UpdateRolePermissions(s)
  <2>1. PICK wanted \in SUBSET Numbers :
            Stage(s, [r \in {Granted(n) : n \in Changed(wanted)} |-> [there |-> r[2] \in wanted]])
    BY <1>4 DEF UpdateRolePermissions
  <2>2. PICK S : S = {Granted(n) : n \in Changed(wanted)}
    OBVIOUS
  <2>3. PICK writes : writes = [r \in S |-> [there |-> r[2] \in wanted]]
    OBVIOUS
  <2>4. ASSUME NEW r \in S PROVE r \in Table("grants")
    <3>1. PICK n \in Numbers : r = <<"grants", n>>
      BY <2>2, <2>4 DEF Granted, Changed
    <3>2. r \in DOMAIN rows /\ r[1] = "grants"
      BY <1>1, <3>1
    <3> QED BY <3>2 DEF Table
  <2>5. ASSUME NEW r \in S PROVE MayWrite(writes[r], types[r])
    <3>1. writes[r] = [there |-> r[2] \in wanted]
      BY <2>3, <2>5
    <3>2. CASE r[2] \in wanted
      BY <3>2, <3>1, <1>1, <2>4, MarkWritten
    <3>3. CASE r[2] \notin wanted
      <4>1. (r[2] \in wanted) = FALSE
        BY <3>3
      <4>2. writes[r] = [there |-> FALSE]
        BY <3>1, <4>1
      <4> QED BY <1>1, <2>4, <4>2, MarkWritten
    <3> QED BY <3>2, <3>3
  <2>6. DOMAIN writes = S /\ S \subseteq DOMAIN rows
    BY <1>1, <2>3, <2>4
  <2>7. Proper(writes, types)
    BY <2>5, <2>6 DEF Proper
  <2>8. StageLocked(s, {}, writes)
    BY <2>1, <2>2, <2>3 DEF Stage
  <2>9. {} \subseteq DOMAIN rows \cup Advisory
    OBVIOUS
  <2> QED BY <2>7, <2>8, <2>9 DEF Writes
<1> QED BY <1>2, <1>3, <1>4 DEF RoleStep

\* What the control tower keeps.
LEMMA TowerWrites ==
    ASSUME NEW types, NEW sound, AdministrationFits(types, sound), NEW s \in Sessions, TowerStep(s)
    PROVE  Writes(s, types)
<1>1. /\ Shape /\ Typed(types) /\ types = AdministrationTypes
      /\ \A name : \A r \in Table(name) : r \in DOMAIN rows /\ r[2] \in Nat
      /\ \A name : Live(name) \subseteq Table(name) /\ Table(name) \subseteq DOMAIN rows
  BY AdministrationHas
<1>2. /\ \A r \in Table("scorecards") : types[r] = ScorecardTypes
      /\ \A r \in Table("opportunities") : types[r] = OpportunityTypes
  BY <1>1, AdministrationTyping
<1>3. CASE CreateScorecard(s)
  BY <1>3, ScorecardColumns, <1>1, <1>2, WritesInsert DEF CreateScorecard, Grade, Totals
<1>4. CASE CreateOpportunity(s)
  BY <1>4, OpportunityColumns, <1>1, <1>2, WritesInsert DEF CreateOpportunity
<1>5. CASE UpdateOpportunity(s)
  <2>1. PICK o \in Live("opportunities"), stage \in TenderStages :
            StageLocked(s, {}, Set(o, [stage |-> stage]))
    BY <1>5 DEF UpdateOpportunity, Stage
  <2>2. PICK cols : cols = [stage |-> stage]
    OBVIOUS
  <2>3. DOMAIN cols = {"stage"} /\ cols.stage = stage
    BY <2>2
  <2>4. o \in DOMAIN rows /\ types[o] = OpportunityTypes
    BY <1>1, <1>2
  <2>5. MayWrite(cols, types[o])
    BY <2>1, <2>3, <2>4, OpportunityColumns DEF MayWrite
  <2>6. {} \subseteq DOMAIN rows \cup Advisory
    OBVIOUS
  <2> QED BY <2>1, <2>2, <2>4, <2>5, <2>6, WritesSet
<1> QED BY <1>3, <1>4, <1>5 DEF TowerStep

\* What a client may see.
LEMMA ClientWrites ==
    ASSUME NEW types, NEW sound, AdministrationFits(types, sound), NEW s \in Sessions,
           desk = "clients", ClientStep(s)
    PROVE  Writes(s, types)
<1>1. /\ Shape /\ Typed(types) /\ types = AdministrationTypes
      /\ desk \in DOMAIN AdministrationIds /\ DOMAIN rows = AdministrationIds[desk]
      /\ \A name : \A r \in Table(name) : r \in DOMAIN rows /\ r[2] \in Nat
  BY AdministrationHas
<1>2. /\ \A r \in Table("access") : types[r] = MarkTypes
      /\ \A r \in Table("artifacts") : types[r] = MarkTypes
  BY <1>1, AdministrationTyping DEF MarkTables
<1>3. DOMAIN rows = {"access", "artifacts"} \X {1}
  BY <1>1, AdministrationNames
<1>4. CASE GrantAccess(s)
  <2>1. PICK r : r = <<"access", 1>>
    OBVIOUS
  <2>2. StageLocked(s, {}, Set(r, [there |-> TRUE]))
    BY <1>4, <2>1 DEF GrantAccess, Stage
  <2>3. r \in DOMAIN rows /\ r[1] = "access"
    BY <1>3, <2>1
  <2>4. types[r] = MarkTypes
    BY <1>2, <2>3 DEF Table
  <2>5. MayWrite([there |-> TRUE], types[r])
    BY <2>4, MarkWritten
  <2>6. {} \subseteq DOMAIN rows \cup Advisory
    OBVIOUS
  <2> QED BY <2>2, <2>3, <2>5, <2>6, WritesSet
<1>5. CASE PublishArtifact(s)
  BY <1>5, NothingWritten, MarkColumns, <1>1, <1>2, WritesInsert DEF PublishArtifact
<1> QED BY <1>4, <1>5 DEF ClientStep

\* A request to download a document, or the answer to one.
LEMMA RequestGiven ==
    ASSUME NEW who \in Employees, NEW given,
           given = [by |-> who, token |-> FALSE, status |-> "PENDING"]
    PROVE  /\ DOMAIN RequestTypes = {"there"} \cup DOMAIN given
           /\ \A c \in DOMAIN given \ {"there"} : given[c] \in RequestTypes[c]
           /\ DOMAIN given = {"by", "token", "status"}
           /\ given.by = who /\ given.status = "PENDING"
<1>1. /\ DOMAIN given = {"by", "token", "status"}
      /\ given.by = who /\ given.token = FALSE /\ given.status = "PENDING"
  OBVIOUS
<1>2. DOMAIN RequestTypes = {"there"} \cup DOMAIN given
  BY <1>1, RequestColumns
<1>3. /\ given.by \in RequestTypes.by /\ given.token \in RequestTypes.token
      /\ given.status \in RequestTypes.status
  BY <1>1, RequestColumns
<1>4. \A c \in DOMAIN given : given[c] \in RequestTypes[c]
  BY <1>1, <1>3
<1> QED BY <1>1, <1>2, <1>4

LEMMA RequestWrites ==
    ASSUME NEW types, NEW sound, AdministrationFits(types, sound), NEW s \in Sessions,
           desk = "downloads", RequestDownload(s)
    PROVE  WritesSound(s, types, sound)
<1>1. /\ Shape /\ Typed(types) /\ types = AdministrationTypes
      /\ desk \in DOMAIN AdministrationIds /\ DOMAIN rows = AdministrationIds[desk]
      /\ \A name : \A r \in Table(name) : r \in DOMAIN rows /\ r[2] \in Nat /\ r[1] = name
      /\ \A name : Live(name) \subseteq Table(name) /\ Table(name) \subseteq DOMAIN rows
  BY AdministrationHas
<1>2. /\ \A r \in Table("documents") : types[r] = MarkTypes
      /\ \A r \in Table("requests") : types[r] = RequestTypes
  BY <1>1, AdministrationTyping DEF MarkTables
<1>3. Document \in Table("documents")
  BY <1>1, AdministrationNames DEF Table, Document
<1>4. PICK who \in Employees :
          /\ Spare("requests") # {} /\ PendingOf(who) = {}
          /\ Stage(s, Over(Insert("requests", [by |-> who, token |-> FALSE, status |-> "PENDING"]),
                           IF There(Document) THEN <<>> ELSE Set(Document, [there |-> TRUE])))
  BY DEF RequestDownload
<1>5. PICK given : given = [by |-> who, token |-> FALSE, status |-> "PENDING"]
  OBVIOUS
<1>6. PICK more : more = IF There(Document) THEN <<>> ELSE Set(Document, [there |-> TRUE])
  OBVIOUS
<1>7. PICK writes : writes = Over(Insert("requests", given), more)
  OBVIOUS
<1>8. StageLocked(s, {}, writes)
  BY <1>4, <1>5, <1>6, <1>7 DEF Stage
<1>9. /\ DOMAIN RequestTypes = {"there"} \cup DOMAIN given
      /\ \A c \in DOMAIN given \ {"there"} : given[c] \in RequestTypes[c]
      /\ DOMAIN given = {"by", "token", "status"}
      /\ given.by = who /\ given.status = "PENDING"
  BY <1>5, RequestGiven
<1>10. Proper(more, types) /\ DOMAIN more \subseteq {Document}
  <2>1. CASE There(Document)
    BY <1>6, <2>1, NothingWritten
  <2>2. CASE ~There(Document)
    <3>1. more = Set(Document, [there |-> TRUE])
      BY <1>6, <2>2
    <3>2. MayWrite([there |-> TRUE], types[Document])
      BY <1>2, <1>3, MarkWritten
    <3>3. DOMAIN more = {Document}
      BY <3>1 DEF Set
    <3> QED BY <1>1, <1>3, <3>1, <3>2, <3>3, ProperSet
  <2> QED BY <2>1, <2>2
<1>11. Proper(Insert("requests", given), types)
  BY <1>1, <1>2, <1>4, <1>9, ProperInsert
<1>12. Proper(writes, types)
  BY <1>7, <1>10, <1>11, ProperOver
<1>13. ASSUME rows \in sound, NEW now, IsTable(now, types), Laid(rows, now, writes)
       PROVE  now \in sound
  <2>1. PICK r : r = NewRow("requests")
    OBVIOUS
  <2>2. r \in Table("requests") /\ ~There(r) /\ r # Document
    BY <1>1, <1>3, <1>4, <2>1, NewRowIsSpare
  <2>3. PICK row : row = Over([there |-> TRUE], given)
    OBVIOUS
  <2>4. DOMAIN writes = {r} \cup DOMAIN more /\ writes[r] = row
    BY <1>7, <2>1, <2>3 DEF Over, Insert, Set
  <2>5. /\ "there" \in DOMAIN row /\ row.there /\ "by" \in DOMAIN row /\ row.by = who
    BY <1>9, <2>3 DEF Over
  <2>6. now[r].by = who
    BY <1>1, <1>13, <2>2, <2>4, <2>5 DEF Laid, LaidRow
  <2>7. ASSUME NEW q \in Table("requests"), q # r PROVE now[q] = rows[q]
    BY <1>1, <1>3, <1>10, <2>4, <2>7, <1>13 DEF Laid
  <2>8. OnePending(rows)
    BY <1>1, TypedTables, <1>13, AdministrationAsks
  <2>9. \A q \in Table("requests") :
            rows[q].there => ~(rows[q].by = who /\ rows[q].status = "PENDING")
    BY <1>4 DEF PendingOf, Live, There
  <2>10. OnePending(now)
    BY <2>6, <2>7, <2>8, <2>9 DEF OnePending
  <2> QED BY <1>13, <2>10, AdministrationAsks
<1>14. LaysSound(writes, types, sound)
  BY <1>13 DEF LaysSound
<1> QED BY <1>8, <1>12, <1>14 DEF WritesSound

LEMMA ReviewWrites ==
    ASSUME NEW types, NEW sound, AdministrationFits(types, sound), NEW s \in Sessions,
           desk = "downloads", ReviewDownload(s)
    PROVE  WritesSound(s, types, sound)
<1>1. /\ Shape /\ Typed(types) /\ types = AdministrationTypes
      /\ \A name : Live(name) \subseteq Table(name) /\ Table(name) \subseteq DOMAIN rows
      /\ \A r \in Table("requests") : types[r] = RequestTypes
  BY AdministrationHas, AdministrationTyping
<1>2. PICK q \in Live("requests"), status \in {"APPROVED", "REJECTED"} :
          Stage(s, Set(q, IF status = "APPROVED" THEN [status |-> status, token |-> TRUE]
                          ELSE [status |-> status]))
  BY DEF ReviewDownload
<1>3. PICK cols : cols = IF status = "APPROVED" THEN [status |-> status, token |-> TRUE]
                         ELSE [status |-> status]
  OBVIOUS
<1>4. /\ DOMAIN cols \subseteq {"status", "token"} /\ "status" \in DOMAIN cols
      /\ cols.status = status
      /\ "token" \in DOMAIN cols => cols.token = TRUE
  BY <1>3
<1>5. q \in DOMAIN rows /\ q \in Table("requests") /\ types[q] = RequestTypes
  BY <1>1
<1>6. \A c \in DOMAIN cols : cols[c] \in RequestTypes[c]
  BY <1>2, <1>4, RequestColumns
<1>7. MayWrite(cols, types[q])
  BY <1>4, <1>5, <1>6, RequestColumns DEF MayWrite
<1>8. PICK writes : writes = Set(q, cols)
  OBVIOUS
<1>9. StageLocked(s, {}, writes) /\ Proper(writes, types)
  BY <1>2, <1>3, <1>5, <1>7, <1>8, ProperSet DEF Stage
<1>10. ASSUME rows \in sound, NEW now, IsTable(now, types), Laid(rows, now, writes)
       PROVE  now \in sound
  BY <1>8, <1>5, <1>10, <1>4, <1>2, <1>1, TypedTables, AdministrationAsks DEF Set, Laid,
     Live, There, LaidRow, OnePending
<1>11. LaysSound(writes, types, sound)
  BY <1>10 DEF LaysSound
<1> QED BY <1>9, <1>11 DEF WritesSound

\* A contract is changed.
LEMMA ContractWrites ==
    ASSUME NEW types, NEW sound, AdministrationFits(types, sound), NEW s \in Sessions,
           Contract \in Table("contracts"), ChangeContract(s)
    PROVE  Writes(s, types)
<1>1. types[Contract] = ContractTypes /\ Contract \in DOMAIN rows
  BY AdministrationHas, AdministrationTyping DEF Table
<1>2. PICK cols \in [expiry : Expiries] \cup [rejected : BOOLEAN] :
          StageLocked(s, {}, Set(Contract, cols))
  BY DEF ChangeContract, Stage
<1>3. MayWrite(cols, ContractTypes)
  BY ContractColumns, <1>2 DEF MayWrite
<1>4. {} \subseteq DOMAIN rows \cup Advisory
  OBVIOUS
<1> QED BY <1>1, <1>2, <1>3, <1>4, WritesSet

\* What the tables of the reminders are.
LEMMA ReminderTables ==
    ASSUME NEW types, NEW sound, AdministrationFits(types, sound), desk = "reminders"
    PROVE  /\ Shape /\ Typed(types)
           /\ \A name : \A r \in Table(name) : r \in DOMAIN rows /\ r[2] \in Nat /\ r[1] = name
           /\ \A name : Live(name) \subseteq Table(name) /\ Table(name) \subseteq DOMAIN rows
           /\ Contract \in Table("contracts") /\ Rule \in Table("rules")
           /\ \A day \in Expiries : <<"reminders", day>> \in Table("reminders")
           /\ \A r \in Table("contracts") : types[r] = ContractTypes
           /\ \A r \in Table("rules") : types[r] = RuleTypes
           /\ \A r \in Table("letters") : types[r] = LetterTypes
           /\ \A r \in Table("reminders") : types[r] = NoticeTypes
  BY AdministrationHas, AdministrationNames, AdministrationTyping DEF Table, Contract, Rule

\* The day a contract that is there expires.
LEMMA ContractExpires ==
    ASSUME NEW types, NEW sound, AdministrationFits(types, sound),
           Contract \in Table("contracts"), There(Contract)
    PROVE  rows[Contract].expiry \in Expiries
<1>1. Contract \in Live("contracts")
  BY DEF Live
<1>2. IsRow(rows[Contract], types[Contract])
  BY <1>1, AdministrationRow
<1>3. types[Contract] = ContractTypes
  BY AdministrationHas, AdministrationTyping
<1> QED BY <1>2, <1>3, ContractColumns DEF IsRow

\* A notice that nobody has read.
LEMMA NoticeGiven ==
    ASSUME NEW b \in BOOLEAN
    PROVE  MayWrite([there |-> TRUE, read |-> b], NoticeTypes) /\ MayWrite([read |-> b], NoticeTypes)
<1>1. PICK row, cols : row = [there |-> TRUE, read |-> b] /\ cols = [read |-> b]
  OBVIOUS
<1>2. /\ DOMAIN row = {"there", "read"} /\ row = [c \in DOMAIN row |-> row[c]]
      /\ row.there = TRUE /\ row.read = b /\ DOMAIN cols = {"read"} /\ cols.read = b
  BY <1>1
<1>3. \A c \in DOMAIN NoticeTypes : row[c] \in NoticeTypes[c]
  BY <1>2, NoticeColumns
<1>4. IsRow(row, NoticeTypes)
  BY <1>2, <1>3, NoticeColumns DEF IsRow
<1>5. MayWrite(cols, NoticeTypes)
  BY <1>2, NoticeColumns DEF MayWrite
<1> QED BY <1>1, <1>4, <1>5 DEF MayWrite

\* Reminders.
LEMMA ReminderWrites ==
    ASSUME NEW types, NEW sound, AdministrationFits(types, sound), NEW s \in Sessions,
           There(Contract), desk = "reminders", ReminderStep(s)
    PROVE  Writes(s, types)
<1>1. /\ Shape /\ Typed(types)
      /\ \A name : \A r \in Table(name) : r \in DOMAIN rows /\ r[2] \in Nat /\ r[1] = name
      /\ \A name : Live(name) \subseteq Table(name) /\ Table(name) \subseteq DOMAIN rows
      /\ Contract \in Table("contracts") /\ Rule \in Table("rules")
      /\ \A day \in Expiries : <<"reminders", day>> \in Table("reminders")
      /\ \A r \in Table("rules") : types[r] = RuleTypes
      /\ \A r \in Table("letters") : types[r] = LetterTypes
      /\ \A r \in Table("reminders") : types[r] = NoticeTypes
  BY ReminderTables
<1>2. {} \subseteq DOMAIN rows \cup Advisory
  OBVIOUS
<1>3. CASE ChangeContract(s)
  BY <1>1, <1>3, ContractWrites
<1>4. CASE AddRule(s)
  <2>1. PICK lead \in 0..1 : /\ Spare("rules") # {}
                             /\ Stage(s, Insert("rules", [lead |-> lead, active |-> TRUE]))
    BY <1>4 DEF AddRule
  <2>2. PICK given : given = [lead |-> lead, active |-> TRUE]
    OBVIOUS
  <2>3. DOMAIN given = {"lead", "active"} /\ given.lead = lead /\ given.active = TRUE
    BY <2>2
  <2>4. /\ DOMAIN RuleTypes = {"there"} \cup DOMAIN given
        /\ \A c \in DOMAIN given \ {"there"} : given[c] \in RuleTypes[c]
    BY <2>3, RuleColumns
  <2>5. Stage(s, Insert("rules", given))
    BY <2>1, <2>2
  <2>6. \A r \in Table("rules") : r[2] \in Nat
    BY <1>1
  <2>7. \A r \in Table("rules") : types[r] = RuleTypes
    BY <1>1
  <2> QED BY <1>1, <2>1, <2>4, <2>5, <2>6, <2>7, WritesInsert
<1>5. CASE EditRule(s)
  <2>1. PICK lead \in 0..1, active \in BOOLEAN :
            StageLocked(s, {Rule}, Set(Rule, [lead |-> lead, active |-> active]))
    BY <1>5 DEF EditRule
  <2>2. PICK cols : cols = [lead |-> lead, active |-> active]
    OBVIOUS
  <2>3. DOMAIN cols = {"lead", "active"} /\ cols.lead = lead /\ cols.active = active
    BY <2>2
  <2>4. MayWrite(cols, RuleTypes)
    BY <2>3, RuleColumns DEF MayWrite
  <2>5. Rule \in DOMAIN rows /\ types[Rule] = RuleTypes /\ {Rule} \subseteq DOMAIN rows \cup Advisory
    BY <1>1
  <2> QED BY <2>1, <2>2, <2>4, <2>5, WritesSet
<1>6. CASE GenerateAlerts(s)
  <2>1. /\ Spare("letters") # {}
        /\ StageLocked(s, ReminderLock, Reminder(rows[Contract].expiry))
    BY <1>6 DEF GenerateAlerts
  <2>2. PICK day \in Expiries : day = rows[Contract].expiry
    BY <1>1, ContractExpires
  <2>3. PICK n : n = <<"reminders", day>>
    OBVIOUS
  <2>4. ReminderLock \subseteq DOMAIN rows \cup Advisory
    BY DEF ReminderLock, Advisory
  <2>5. Proper(Reminder(day), types)
    <3>1. CASE There(n)
      BY <2>3, <3>1, NothingWritten DEF Reminder
    <3>2. CASE ~There(n)
      <4>1. PICK given : given = [expiry |-> day]
        OBVIOUS
      <4>2. DOMAIN given = {"expiry"} /\ given.expiry = day
        BY <4>1
      <4>3. /\ DOMAIN LetterTypes = {"there"} \cup DOMAIN given
            /\ \A c \in DOMAIN given \ {"there"} : given[c] \in LetterTypes[c]
        BY <4>2, LetterColumns
      <4>4. Proper(Insert("letters", given), types)
        BY <1>1, <2>1, <4>3, ProperInsert
      <4>5. n \in DOMAIN rows /\ types[n] = NoticeTypes
        BY <1>1, <2>3
      <4>6. Proper(Set(n, [there |-> TRUE, read |-> FALSE]), types)
        BY <4>5, NoticeGiven, ProperSet
      <4>7. Reminder(day) = Over(Insert("letters", given), Set(n, [there |-> TRUE, read |-> FALSE]))
        BY <2>3, <3>2, <4>1 DEF Reminder, Announced
      <4> QED BY <4>4, <4>6, <4>7, ProperOver
    <3> QED BY <3>1, <3>2
  <2> QED BY <2>1, <2>2, <2>4, <2>5 DEF Writes
<1>7. CASE ReadNotification(s)
  <2>1. PICK n \in Live("reminders") : StageLocked(s, {}, Set(n, [read |-> TRUE]))
    BY <1>7 DEF ReadNotification, Stage
  <2>2. n \in DOMAIN rows /\ types[n] = NoticeTypes
    BY <1>1
  <2>3. MayWrite([read |-> TRUE], types[n])
    BY <2>2, NoticeGiven
  <2> QED BY <1>2, <2>1, <2>2, <2>3, WritesSet
<1> QED BY <1>3, <1>4, <1>5, <1>6, <1>7 DEF ReminderStep

\* What the tables of the answers are.
LEMMA AnswerTables ==
    ASSUME NEW types, NEW sound, AdministrationFits(types, sound), desk = "answers"
    PROVE  /\ Shape /\ Typed(types)
           /\ \A name : \A r \in Table(name) : r \in DOMAIN rows /\ r[2] \in Nat /\ r[1] = name
           /\ Contract \in Table("contracts") /\ Leave \in Table("leaves")
           /\ \A day \in Expiries : <<"expiries", day>> \in Table("expiries")
           /\ \A i \in 1..3 : <<"answers", i>> \in Table("answers")
           /\ \A r \in Table("contracts") : types[r] = ContractTypes
           /\ \A r \in Table("leaves") : types[r] = LeaveTypes
           /\ \A r \in Table("answers") : types[r] = MarkTypes
           /\ \A r \in Table("expiries") : types[r] = MarkTypes
  BY AdministrationHas, AdministrationNames, AdministrationTyping DEF Table, Contract,
     Leave, MarkTables

\* Three states of a leave.
LEMMA LeaveKeys ==
    /\ DOMAIN LeaveKey = {"PENDING", "APPROVED", "REJECTED"}
    /\ \A status \in DOMAIN LeaveKey : LeaveKey[status] \in 1..3
  BY DEF LeaveKey

\* A leave, or what it has come to.
LEMMA LeaveGiven ==
    ASSUME NEW status \in {"PENDING", "APPROVED", "REJECTED"}
    PROVE  /\ MayWrite([there |-> TRUE, status |-> status], LeaveTypes)
           /\ MayWrite([status |-> status], LeaveTypes)
<1>1. PICK row, cols : row = [there |-> TRUE, status |-> status] /\ cols = [status |-> status]
  OBVIOUS
<1>2. /\ DOMAIN row = {"there", "status"} /\ row = [c \in DOMAIN row |-> row[c]]
      /\ row.there = TRUE /\ row.status = status
      /\ DOMAIN cols = {"status"} /\ cols.status = status
  BY <1>1
<1>3. \A c \in DOMAIN LeaveTypes : row[c] \in LeaveTypes[c]
  BY <1>2, LeaveColumns
<1>4. IsRow(row, LeaveTypes)
  BY <1>2, <1>3, LeaveColumns DEF IsRow
<1>5. MayWrite(cols, LeaveTypes)
  BY <1>2, LeaveColumns DEF MayWrite
<1> QED BY <1>1, <1>4, <1>5 DEF MayWrite

\* What a leave that is there has come to.
LEMMA LeaveIsOne ==
    ASSUME NEW types, NEW sound, AdministrationFits(types, sound), desk = "answers", There(Leave)
    PROVE  /\ rows[Leave].status \in {"PENDING", "APPROVED", "REJECTED"}
           /\ IsRow(rows[Leave], LeaveTypes)
  BY AnswerTables, AdministrationRow, LeaveColumns DEF Live, IsRow

\* An answer is given, or what expires is told.
LEMMA EmitWrites ==
    ASSUME NEW types, NEW name, NEW key, <<name, key>> \in Table(name),
           \A r \in Table(name) : types[r] = MarkTypes
    PROVE  Proper(Emit(name, key), types)
  BY MarkWritten, ProperSet DEF Table, Emit

\* Leaves and what is told of them.
LEMMA AnswerWrites ==
    ASSUME NEW types, NEW sound, AdministrationFits(types, sound), NEW s \in Sessions,
           There(Contract), desk = "answers", AnswerStep(s)
    PROVE  Writes(s, types)
<1>1. /\ Shape /\ Typed(types)
      /\ \A name : \A r \in Table(name) : r \in DOMAIN rows /\ r[2] \in Nat /\ r[1] = name
      /\ Contract \in Table("contracts") /\ Leave \in Table("leaves")
      /\ \A day \in Expiries : <<"expiries", day>> \in Table("expiries")
      /\ \A i \in 1..3 : <<"answers", i>> \in Table("answers")
      /\ \A r \in Table("leaves") : types[r] = LeaveTypes
      /\ \A r \in Table("answers") : types[r] = MarkTypes
      /\ \A r \in Table("expiries") : types[r] = MarkTypes
  BY AnswerTables
<1>2. {} \subseteq DOMAIN rows \cup Advisory /\ {Leave} \subseteq DOMAIN rows \cup Advisory
  BY <1>1
<1>3. \A status \in {"PENDING", "APPROVED", "REJECTED"} :
          Proper(Emit("answers", LeaveKey[status]), types)
  BY LeaveKeys, <1>1, EmitWrites
<1>4. Leave \in DOMAIN rows /\ types[Leave] = LeaveTypes
  BY <1>1
<1>5. CASE ChangeContract(s)
  BY <1>1, <1>5, ContractWrites
<1>6. CASE BookLeave(s)
  BY <1>6, <1>4, LeaveGiven, ProperSet, <1>3, <1>2, ProperOver DEF BookLeave, Stage, Writes
<1>7. CASE DecideLeave(s)
  BY <1>7, <1>4, LeaveGiven, ProperSet, <1>3, <1>2, ProperOver DEF DecideLeave, Writes
<1>8. CASE GenerateFieldAlerts(s)
  <2>1. StageLocked(s, {}, Over(PeopleAlerts, ExpiryAlerts))
    BY <1>8 DEF GenerateFieldAlerts, Stage
  <2>2. Proper(PeopleAlerts, types)
    BY LeaveIsOne, <1>3, NothingWritten DEF PeopleAlerts
  <2>3. Proper(ExpiryAlerts, types)
    <3>1. CASE rows[Contract].rejected
      BY <3>1, NothingWritten DEF ExpiryAlerts
    <3>2. CASE ~rows[Contract].rejected
      BY <1>1, ContractExpires, EmitWrites, <3>2 DEF ExpiryAlerts
    <3> QED BY <3>1, <3>2
  <2> QED BY <1>2, <2>1, <2>2, <2>3, ProperOver DEF Writes
<1> QED BY <1>5, <1>6, <1>7, <1>8 DEF AnswerStep

\* What the inbox is made of.
LEMMA InboxTables ==
    ASSUME NEW types, NEW sound, AdministrationFits(types, sound), desk = "inbox"
    PROVE  /\ Shape /\ Typed(types)
           /\ \A name : \A r \in Table(name) : r \in DOMAIN rows /\ r[2] \in Nat /\ r[1] = name
           /\ \A name : Live(name) \subseteq Table(name) /\ Table(name) \subseteq DOMAIN rows
           /\ \A r \in Table("inbox") : types[r] = InboxTypes
           /\ \A r \in Table("copies") : types[r] = CopyTypes
  BY AdministrationHas, AdministrationTyping

\* A notice, and its copy by mail.
InboxGiven(of, mailed, forwarded) ==
    [of |-> of, mailed |-> mailed, read |-> FALSE, resolved |-> FALSE, forwarded |-> forwarded]

LEMMA NoticeWritten ==
    ASSUME NEW types, NEW sound, AdministrationFits(types, sound), desk = "inbox",
           NEW who \in Employees, NEW mailed \in BOOLEAN, NEW forwarded \in BOOLEAN,
           Spare("inbox") # {}, mailed => Spare("copies") # {}
    PROVE  Proper(Notice(who, mailed, forwarded), types)
<1>1. /\ Typed(types)
      /\ \A name : \A r \in Table(name) : r \in DOMAIN rows /\ r[2] \in Nat
      /\ \A r \in Table("inbox") : types[r] = InboxTypes
      /\ \A r \in Table("copies") : types[r] = CopyTypes
  BY InboxTables
<1>2. PICK given, copy : given = InboxGiven(who, mailed, forwarded) /\ copy = [to |-> who]
  OBVIOUS
<1>3. /\ DOMAIN given = {"of", "mailed", "read", "resolved", "forwarded"}
      /\ given.of = who /\ given.mailed = mailed /\ given.read = FALSE
      /\ given.resolved = FALSE /\ given.forwarded = forwarded
      /\ DOMAIN copy = {"to"} /\ copy.to = who
  BY <1>2 DEF InboxGiven
<1>4. /\ DOMAIN InboxTypes = {"there"} \cup DOMAIN given
      /\ \A c \in DOMAIN given \ {"there"} : given[c] \in InboxTypes[c]
  BY <1>3, InboxColumns
<1>5. /\ DOMAIN CopyTypes = {"there"} \cup DOMAIN copy
      /\ \A c \in DOMAIN copy \ {"there"} : copy[c] \in CopyTypes[c]
  BY <1>3, CopyColumns
<1>6. Proper(Insert("inbox", given), types)
  BY <1>1, <1>4, ProperInsert
<1>7. PICK more : more = IF mailed THEN Insert("copies", [to |-> who]) ELSE <<>>
  OBVIOUS
<1>8. Proper(more, types)
  BY <1>2, <1>7, <1>1, <1>5, ProperInsert, NothingWritten
<1>9. Notice(who, mailed, forwarded) = Over(Insert("inbox", given), more)
  BY <1>2, <1>7 DEF Notice, InboxGiven
<1> QED BY <1>6, <1>8, <1>9, ProperOver

\* Something is done with a notice.
LEMMA InboxColumn ==
    /\ MayWrite([read |-> TRUE], InboxTypes) /\ MayWrite([resolved |-> TRUE], InboxTypes)
    /\ MayWrite([forwarded |-> TRUE], InboxTypes)
<1>1. PICK x, y, z : x = [read |-> TRUE] /\ y = [resolved |-> TRUE] /\ z = [forwarded |-> TRUE]
  OBVIOUS
<1>2. /\ DOMAIN x = {"read"} /\ x.read = TRUE /\ DOMAIN y = {"resolved"} /\ y.resolved = TRUE
      /\ DOMAIN z = {"forwarded"} /\ z.forwarded = TRUE
  BY <1>1
<1>3. MayWrite(x, InboxTypes)
  BY <1>2, InboxColumns DEF MayWrite
<1>4. MayWrite(y, InboxTypes)
  BY <1>2, InboxColumns DEF MayWrite
<1>5. MayWrite(z, InboxTypes)
  BY <1>2, InboxColumns DEF MayWrite
<1> QED BY <1>1, <1>3, <1>4, <1>5

\* The inbox.
LEMMA InboxWrites ==
    ASSUME NEW types, NEW sound, AdministrationFits(types, sound), NEW s \in Sessions,
           desk = "inbox", InboxStep(s)
    PROVE  Writes(s, types)
<1>1. /\ Shape /\ Typed(types)
      /\ \A name : \A r \in Table(name) : r \in DOMAIN rows /\ r[2] \in Nat
      /\ \A name : Live(name) \subseteq Table(name) /\ Table(name) \subseteq DOMAIN rows
      /\ \A r \in Table("inbox") : types[r] = InboxTypes
  BY InboxTables
<1>2. {} \subseteq DOMAIN rows \cup Advisory
  OBVIOUS
<1>3. CASE TellEmployee(s)
  <2>1. PICK who \in Employees, mailed \in BOOLEAN :
            /\ Spare("inbox") = Table("inbox")
            /\ mailed => Spare("copies") # {}
            /\ StageLocked(s, {}, Notice(who, mailed, FALSE))
    BY <1>3 DEF TellEmployee, Stage
  <2>2. Spare("inbox") # {}
    <3>1. DOMAIN rows = {"inbox", "copies"} \X (1..3)
      BY AdministrationHas, AdministrationNames
    <3>2. <<"inbox", 1>> \in Table("inbox")
      BY <3>1 DEF Table
    <3> QED BY <2>1, <3>2
  <2>3. Proper(Notice(who, mailed, FALSE), types)
    BY <2>1, <2>2, NoticeWritten
  <2> QED BY <1>2, <2>1, <2>3 DEF Writes
<1>4. CASE MarkRead(s)
  BY <1>4, <1>1, InboxColumn, <1>2, WritesSet DEF MarkRead, Stage
<1>5. CASE ResolveNotification(s)
  BY <1>5, <1>1, InboxColumn, <1>2, WritesSet DEF ResolveNotification, Stage
<1>6. CASE ForwardNotification(s)
  <2>1. PICK n \in Live("inbox"), target \in Employees :
            /\ Spare("inbox") # {}
            /\ rows[n].mailed => Spare("copies") # {}
            /\ StageLocked(s, {}, Over(Notice(target, rows[n].mailed, TRUE),
                                       Set(n, [forwarded |-> TRUE])))
    BY <1>6 DEF ForwardNotification, Stage
  <2>2. n \in DOMAIN rows /\ n \in Table("inbox") /\ MayWrite([forwarded |-> TRUE], types[n])
    BY <1>1, InboxColumn
  <2>3. PICK mailed \in BOOLEAN : mailed = rows[n].mailed
    <3>1. IsRow(rows[n], types[n])
      BY AdministrationRow
    <3> QED BY <1>1, <2>2, <3>1, InboxColumns DEF IsRow
  <2>4. mailed => Spare("copies") # {}
    BY <2>1, <2>3
  <2>5. Proper(Notice(target, mailed, TRUE), types)
    BY <2>1, <2>4, NoticeWritten
  <2>6. Proper(Set(n, [forwarded |-> TRUE]), types)
    BY <2>2, ProperSet
  <2>7. StageLocked(s, {}, Over(Notice(target, mailed, TRUE), Set(n, [forwarded |-> TRUE])))
    BY <2>1, <2>3
  <2> QED BY <1>2, <2>5, <2>6, <2>7, ProperOver DEF Writes
<1> QED BY <1>3, <1>4, <1>5, <1>6 DEF InboxStep

\* Every request of the head office.
LEMMA AdministrationWrites ==
    ASSUME NEW types, NEW sound, AdministrationFits(types, sound), NEW s \in Sessions,
           desk \in {"reminders", "answers"} => There(Contract), AdministrationStep(s)
    PROVE  WritesSound(s, types, sound)
  BY AdministrationAsks, AllSound, AdministrationHas, OfficeDesks, RoleWrites,
     RequestWrites, ReviewWrites, ReminderWrites, AnswerWrites, InboxWrites, TowerWrites,
     ClientWrites DEF AdministrationStep, DownloadStep

-----------------------------------------------------------------------------
(* A letter for every notice. *)

LetterTables == Table("letters") \cup Table("reminders")

\* The columns that say what letters and notices there are.
Says(s, r) ==
    Sends(s, r, "there") \/ (r \in Table("letters") /\ Sends(s, r, "expiry"))

\* A session that sends none of them,
Quiet(s) == \A r \in LetterTables : ~Says(s, r)

\* and one that has the lock and sends a notice that is not there, with its letter.
Announces(s, l, n) ==
    /\ ReminderLock \subseteq open[s].locks
    /\ l \in Table("letters") /\ n \in Table("reminders") /\ ~There(l) /\ ~There(n)
    /\ Sends(s, l, "there") /\ Sends(s, n, "there") /\ Sends(s, l, "expiry")
    /\ open[s].writes[l].expiry = n[2]
    /\ \A r \in LetterTables : Says(s, r) => r \in {l, n}

LettersAre ==
    /\ There(Contract) /\ NeverRemoves
    /\ \A l, m \in Table("letters") :
          There(l) /\ There(m) /\ rows[l].expiry = rows[m].expiry => l = m
    /\ \A n \in Table("reminders") :
          There(n) <=> \E l \in Table("letters") : There(l) /\ rows[l].expiry = n[2]
    /\ \A s \in Sessions : Quiet(s) \/ \E l, n : Announces(s, l, n)

\* Notices are told apart by the day.
LEMMA NoticeIsDay ==
    ASSUME NEW types, NEW sound, AdministrationFits(types, sound), desk = "reminders"
    PROVE  /\ \A n \in Table("reminders") : n = <<"reminders", n[2]>> /\ n[2] \in Expiries
           /\ Table("letters") \cap Table("reminders") = {}
           /\ Contract \notin LetterTables /\ Rule \notin LetterTables
           /\ LetterTables \subseteq DOMAIN rows
  BY AdministrationHas, AdministrationNames DEF Table, Contract, Rule, LetterTables

\* A handler that says nothing of them is quiet.
LEMMA QuietStages ==
    ASSUME Shape, NEW s \in Sessions, NEW locked, NEW writes, DOMAIN writes \subseteq DOMAIN rows,
           StageLocked(s, locked, writes),
           \A r \in LetterTables : r \in DOMAIN writes =>
               /\ "there" \notin DOMAIN writes[r]
               /\ r \in Table("letters") => "expiry" \notin DOMAIN writes[r]
    PROVE  Quiet(s)'
  BY StageSends DEF Table, LetterTables, Quiet, Says

\* What others say, or announce, stays as long as notices and letters do.
LEMMA SayingStays ==
    ASSUME Alike, NEW t \in Sessions, open'[t].writes = open[t].writes,
           open'[t].locks = open[t].locks, \A r, c : Sends(t, r, c)' <=> Sends(t, r, c)
    PROVE  /\ Quiet(t) => Quiet(t)'
           /\ \A l, n : Announces(t, l, n) /\ ~There(l)' /\ ~There(n)' => Announces(t, l, n)'
  BY DEF Alike, Table, LetterTables, Says, Quiet, Announces, ReminderLock

\* Only one session has the lock.
LEMMA OneAnnounces ==
    ASSUME Shape, NEW s \in Sessions, NEW t \in Sessions,
           NEW l, NEW n, Announces(s, l, n), NEW m, NEW q, Announces(t, m, q)
    PROVE  s = t
<1>1. PICK name : name \in Names
  BY RowStoreAssumption DEF RowStoreAssumption
<1>2. <<"alerts", name>> \in open[s].locks \cap open[t].locks
  BY <1>1 DEF Announces, ReminderLock
<1> QED BY <1>2 DEF Shape

\* Every request about reminders is quiet, or announces one.
LEMMA ReminderSays ==
    ASSUME NEW types, NEW sound, AdministrationFits(types, sound), NEW s \in Sessions,
           desk = "reminders", LettersAre, ReminderStep(s)
    PROVE  /\ NeverRemoves' /\ (Quiet(s)' \/ \E l, n : Announces(s, l, n)')
           /\ OthersStay(s) /\ UNCHANGED <<desk, rows, torn>>
           /\ \A t \in Sessions \ {s} : \A r, c : Sends(t, r, c)' <=> Sends(t, r, c)
<1>1. /\ Shape /\ Typed(types)
      /\ \A name : \A r \in Table(name) : r \in DOMAIN rows /\ r[2] \in Nat /\ r[1] = name
      /\ \A name : Live(name) \subseteq Table(name) /\ Table(name) \subseteq DOMAIN rows
      /\ Contract \in Table("contracts") /\ Rule \in Table("rules")
      /\ \A day \in Expiries : <<"reminders", day>> \in Table("reminders")
  BY ReminderTables
<1>2. /\ \A n \in Table("reminders") : n = <<"reminders", n[2]>> /\ n[2] \in Expiries
      /\ Table("letters") \cap Table("reminders") = {}
      /\ Contract \notin LetterTables /\ Rule \notin LetterTables
      /\ LetterTables \subseteq DOMAIN rows
  BY NoticeIsDay
<1>3. ASSUME NEW locked, NEW writes, DOMAIN writes \subseteq DOMAIN rows,
             StageLocked(s, locked, writes),
             \A r \in DOMAIN writes : "there" \in DOMAIN writes[r] => writes[r].there
      PROVE  /\ NeverRemoves' /\ OthersStay(s) /\ UNCHANGED <<desk, rows, torn>>
             /\ \A t \in Sessions \ {s} : \A r, c : Sends(t, r, c)' <=> Sends(t, r, c)
  BY <1>1, <1>3, NeverRemovesStages, StageSends DEF LettersAre
<1>4. ASSUME NEW r \in DOMAIN rows, NEW locked, NEW cols, StageLocked(s, locked, Set(r, cols)),
             "there" \notin DOMAIN cols, r \in LetterTables => "expiry" \notin DOMAIN cols
      PROVE  /\ NeverRemoves' /\ Quiet(s)' /\ OthersStay(s) /\ UNCHANGED <<desk, rows, torn>>
             /\ \A t \in Sessions \ {s} : \A q, c : Sends(t, q, c)' <=> Sends(t, q, c)
  BY <1>4, <1>1, QuietStages, <1>3 DEF Set
<1>5. CASE ChangeContract(s)
  BY <1>5, <1>1, <1>2, <1>4 DEF ChangeContract, Stage
<1>6. CASE EditRule(s)
  BY <1>6, <1>1, <1>2, <1>4 DEF EditRule
<1>7. CASE ReadNotification(s)
  BY <1>7, <1>1, <1>4 DEF ReadNotification, Stage
<1>8. CASE AddRule(s)
  BY <1>8, <1>1, NewRowIsSpare, QuietStages, <1>3 DEF AddRule, Stage, Insert, Set, Over,
     LetterTables, Table
<1>9. CASE GenerateAlerts(s)
  <2>1. /\ Spare("letters") # {}
        /\ StageLocked(s, ReminderLock, Reminder(rows[Contract].expiry))
    BY <1>9 DEF GenerateAlerts
  <2>2. PICK day \in Expiries : day = rows[Contract].expiry
    BY <1>1, ContractExpires DEF LettersAre
  <2>3. PICK l, n, writes : /\ l = NewRow("letters") /\ n = <<"reminders", day>>
                            /\ writes = Reminder(day)
    OBVIOUS
  <2>4. l \in Table("letters") /\ ~There(l) /\ n \in Table("reminders")
    BY <1>1, <2>1, <2>3, NewRowIsSpare
  <2>5. StageLocked(s, ReminderLock, writes)
    BY <2>1, <2>2, <2>3
  <2>6. CASE There(n)
    BY <2>3, <2>6, NothingWritten, <1>1, <2>5, QuietStages, <1>3 DEF Reminder
  <2>7. CASE ~There(n)
    <3>1. writes = Over(Set(l, Over([there |-> TRUE], [expiry |-> day])),
                        Set(n, [there |-> TRUE, read |-> FALSE]))
      BY <2>3, <2>7 DEF Reminder, Announced, Insert
    <3>2. PICK letter, notice : /\ letter = Over([there |-> TRUE], [expiry |-> day])
                                /\ notice = [there |-> TRUE, read |-> FALSE]
      OBVIOUS
    <3>3. /\ DOMAIN letter = {"there", "expiry"} /\ letter.there = TRUE /\ letter.expiry = day
          /\ DOMAIN notice = {"there", "read"} /\ notice.there = TRUE
      BY <3>2 DEF Over
    <3>4. l # n
      BY <1>2, <2>4
    <3>5. DOMAIN writes = {l, n} /\ writes[l] = letter /\ writes[n] = notice
      BY <3>1, <3>2, <3>4 DEF Over, Set
    <3>6. /\ \A r, c : Sends(s, r, c)' <=> /\ r \in DOMAIN writes /\ c \in DOMAIN writes[r]
                                           /\ c \in DOMAIN rows[r] => rows[r][c] # writes[r][c]
          /\ \A r, c : Sends(s, r, c)' => open'[s].writes[r][c] = writes[r][c]
          /\ open'[s].locks = ReminderLock /\ UNCHANGED rows
      BY <1>1, <2>4, <2>5, <3>5, StageSends
    <3>7. rows[l] = Absent /\ rows[n] = Absent /\ DOMAIN Absent = {"there"} /\ Absent.there = FALSE
      BY <1>1, <2>4, <2>7 DEF Shape, Absent
    <3>8. Sends(s, l, "there")' /\ Sends(s, n, "there")' /\ Sends(s, l, "expiry")'
      BY <3>3, <3>5, <3>6, <3>7
    <3>9. open'[s].writes[l].expiry = n[2]
      BY <2>3, <3>3, <3>5, <3>6, <3>8
    <3>10. \A r \in LetterTables' : Says(s, r)' => r \in {l, n}
      BY <3>5, <3>6 DEF Says
    <3>11. /\ ReminderLock' = ReminderLock /\ Table("letters")' = Table("letters")
           /\ Table("reminders")' = Table("reminders") /\ ~There(l)' /\ ~There(n)'
      BY <2>4, <2>7, <3>6 DEF ReminderLock, Table, There
    <3>12. Announces(s, l, n)'
      BY <2>4, <3>6, <3>8, <3>9, <3>10, <3>11 DEF Announces
    <3>13. \A r \in DOMAIN writes : writes[r].there
      BY <3>3, <3>5
    <3>14. DOMAIN writes \subseteq DOMAIN rows
      BY <1>1, <2>4, <3>5
    <3> QED BY <1>3, <2>5, <3>12, <3>13, <3>14
  <2> QED BY <2>6, <2>7
<1> QED BY <1>5, <1>6, <1>7, <1>8, <1>9 DEF ReminderStep

\* A step that leaves the rows alone keeps them as long as whoever took it may.
LEMMA LettersKept ==
    ASSUME Shape, LettersAre, NEW s \in Sessions, OthersStay(s), UNCHANGED <<desk, rows, torn>>,
           NeverRemoves', Quiet(s)' \/ \E l, n : Announces(s, l, n)',
           \A t \in Sessions \ {s} : \A r, c : Sends(t, r, c)' <=> Sends(t, r, c)
    PROVE  LettersAre'
  BY SayingStays DEF Alike, Table, There, OthersStay, Announces, LettersAre

\* What is committed is quiet, or a notice and its letter.
LEMMA LettersCommit ==
    ASSUME NEW types, NEW sound, AdministrationFits(types, sound), desk = "reminders", LettersAre,
           NEW s \in Sessions, NEW accepted, Commit(s, accepted)
    PROVE  LettersAre'
<1>1. /\ Shape /\ Typed(types)
      /\ \A name : \A r \in Table(name) : r \in DOMAIN rows /\ r[2] \in Nat /\ r[1] = name
      /\ Contract \in Table("contracts")
      /\ \A r \in Table("letters") : types[r] = LetterTypes
  BY ReminderTables
<1>2. /\ \A n \in Table("reminders") : n = <<"reminders", n[2]>> /\ n[2] \in Expiries
      /\ Table("letters") \cap Table("reminders") = {}
      /\ LetterTables \subseteq DOMAIN rows
  BY NoticeIsDay
<1>3. /\ There(Contract) /\ NeverRemoves
      /\ \A l, m \in Table("letters") :
            There(l) /\ There(m) /\ rows[l].expiry = rows[m].expiry => l = m
      /\ \A n \in Table("reminders") :
            There(n) <=> \E l \in Table("letters") : There(l) /\ rows[l].expiry = n[2]
      /\ \A t \in Sessions : Quiet(t) \/ \E l, n : Announces(t, l, n)
  BY DEF LettersAre
<1>4. /\ \A r \in DOMAIN rows : There(r)' <=> There(r) \/ Sends(s, r, "there")
      /\ \A r \in DOMAIN rows : \A c : There(r)' =>
            /\ Sends(s, r, c) => rows'[r][c] = open[s].writes[r][c]
            /\ c \in DOMAIN rows[r] /\ ~Sends(s, r, c) => rows'[r][c] = rows[r][c]
      /\ \A r, c : ~Sends(s, r, c)'
      /\ \A t \in Sessions \ {s} : \A r, c : Sends(t, r, c)' <=> Sends(t, r, c)
      /\ OthersStay(s) /\ Alike
  BY <1>1, <1>3, CommitSends
<1>5. /\ Table("letters")' = Table("letters") /\ Table("reminders")' = Table("reminders")
      /\ LetterTables' = LetterTables
  BY <1>4 DEF Alike, Table, LetterTables
<1>6. NeverRemoves' /\ There(Contract)'
  BY <1>1, <1>3, <1>4, NeverRemovesEnds
<1>7. ASSUME NEW l \in Table("letters"), There(l) PROVE "expiry" \in DOMAIN rows[l]
  <2>1. l \in Live("letters")
    BY <1>7 DEF Live
  <2>2. IsRow(rows[l], LetterTypes)
    BY <1>1, <2>1, AdministrationRow
  <2> QED BY <2>2, LetterColumns DEF IsRow
<1>8. Quiet(s)'
  BY <1>4 DEF Quiet, Says
<1>9. CASE Quiet(s)
  BY <1>2, <1>4, <1>9, <1>7, <1>8, SayingStays, <1>3, <1>5, <1>6 DEF Quiet, Says,
     LetterTables, OthersStay, Announces, LettersAre
<1>10. ASSUME NEW l, NEW n, Announces(s, l, n) PROVE LettersAre'
  BY <1>10, <1>1, <1>4, <1>2, <1>7, <1>3, <1>8, OneAnnounces, SayingStays, <1>5, <1>6 DEF
     Announces, Says, LetterTables, OthersStay, LettersAre
<1> QED BY <1>3, <1>9, <1>10

\* Whatever happens at the reminders' desk.
LEMMA LettersGoOn ==
    ASSUME NEW types, NEW sound, AdministrationFits(types, sound), desk = "reminders", LettersAre,
           \/ \E s \in Sessions : ReminderStep(s)
           \/ \E s \in Sessions : \E accepted : Commit(s, accepted)
           \/ \E s \in Sessions : Abort(s)
           \/ UNCHANGED storeVars
    PROVE  LettersAre'
<1>1. Shape
  BY AdministrationHas
<1>2. ASSUME NEW s \in Sessions, ReminderStep(s) PROVE LettersAre'
  BY <1>2, ReminderSays, <1>1, LettersKept
<1>3. ASSUME NEW s \in Sessions, Abort(s) PROVE LettersAre'
  BY <1>1, <1>3, AbortSends, NeverRemovesEnds, LettersKept DEF LettersAre, Quiet, Says
<1>4. CASE UNCHANGED storeVars
  BY <1>4 DEF storeVars, There, Table, Sends, LetterTables, Says, Quiet, Announces,
     ReminderLock, NeverRemoves, LettersAre
<1> QED BY <1>2, <1>3, <1>4, LettersCommit

-----------------------------------------------------------------------------
(* An answer to every leave. *)

AnswerTo(status) == <<"answers", LeaveKey[status]>>

\* Who sends a leave sends what it has come to, and its answer if it is not there.
Answers(s) ==
    /\ Sends(s, Leave, "there") => Sends(s, Leave, "status")
    /\ Sends(s, Leave, "status") =>
          \/ There(AnswerTo(open[s].writes[Leave].status))
          \/ Sends(s, AnswerTo(open[s].writes[Leave].status), "there")

AnswersAre ==
    /\ There(Contract) /\ NeverRemoves
    /\ There(Leave) => There(AnswerTo(rows[Leave].status))
    /\ \A s \in Sessions : Answers(s)

\* The answers are rows.
LEMMA AnswerIsRow ==
    ASSUME NEW types, NEW sound, AdministrationFits(types, sound), desk = "answers",
           NEW status \in {"PENDING", "APPROVED", "REJECTED"}
    PROVE  AnswerTo(status) \in Table("answers") /\ AnswerTo(status) \in DOMAIN rows
  BY LeaveKeys, AnswerTables DEF AnswerTo, Table

LEMMA AnswerSent ==
    ASSUME NEW types, NEW sound, AdministrationFits(types, sound), desk = "answers",
           NEW s \in Sessions, Sends(s, Leave, "status")
    PROVE  open[s].writes[Leave].status \in {"PENDING", "APPROVED", "REJECTED"}
<1>1. Typed(types) /\ types[Leave] = LeaveTypes
  BY AnswerTables
<1>2. PICK cols : cols = open[s].writes[Leave]
  OBVIOUS
<1>3. MayWrite(cols, LeaveTypes) /\ "status" \in DOMAIN cols
  BY <1>1, <1>2 DEF Typed, Sends
<1>4. cols.status \in LeaveTypes.status
  BY <1>3, LeaveColumns DEF MayWrite, IsRow
<1> QED BY <1>2, <1>4, LeaveColumns

\* A step that leaves the rows alone.
LEMMA AnswersKept ==
    ASSUME Shape, AnswersAre, NEW s \in Sessions, OthersStay(s), UNCHANGED <<desk, rows, torn>>,
           NeverRemoves', Answers(s)',
           \A t \in Sessions \ {s} : \A r, c : Sends(t, r, c)' <=> Sends(t, r, c)
    PROVE  AnswersAre'
  BY DEF There, OthersStay, AnswersAre, Answers, AnswerTo

\* A leave and its answer.
LEMMA LeaveSays ==
    ASSUME NEW types, NEW sound, AdministrationFits(types, sound), desk = "answers", AnswersAre,
           NEW s \in Sessions, NEW locked, NEW status \in {"PENDING", "APPROVED", "REJECTED"},
           NEW cols, cols = [c \in DOMAIN cols |-> cols[c]], "status" \in DOMAIN cols,
           DOMAIN cols \subseteq {"there", "status"}, cols.status = status,
           "there" \in DOMAIN cols => cols.there /\ ~There(Leave),
           StageLocked(s, locked, Over(Set(Leave, cols), Emit("answers", LeaveKey[status])))
    PROVE  /\ NeverRemoves' /\ Answers(s)' /\ OthersStay(s) /\ UNCHANGED <<desk, rows, torn>>
           /\ \A t \in Sessions \ {s} : \A r, c : Sends(t, r, c)' <=> Sends(t, r, c)
<1>1. Shape /\ Leave \in DOMAIN rows /\ Leave \in Table("leaves")
  BY AnswerTables DEF Table
<1>2. PICK a : a = AnswerTo(status)
  OBVIOUS
<1>3. a \in DOMAIN rows /\ a \in Table("answers") /\ a # Leave
  BY <1>2, AnswerIsRow, <1>1 DEF Table
<1>4. PICK writes : writes = Over(Set(Leave, cols), Emit("answers", LeaveKey[status]))
  OBVIOUS
<1>5. /\ DOMAIN writes = {Leave, a} /\ writes[Leave] = cols /\ writes[a] = [there |-> TRUE]
      /\ StageLocked(s, locked, writes)
  BY <1>2, <1>3, <1>4 DEF Over, Set, Emit, AnswerTo
<1>6. DOMAIN writes \subseteq DOMAIN rows
  BY <1>1, <1>3, <1>5
<1>7. /\ \A r, c : Sends(s, r, c)' <=> /\ r \in DOMAIN writes /\ c \in DOMAIN writes[r]
                                       /\ c \in DOMAIN rows[r] => rows[r][c] # writes[r][c]
      /\ \A r, c : Sends(s, r, c)' => open'[s].writes[r][c] = writes[r][c]
      /\ \A t \in Sessions \ {s} : \A r, c : Sends(t, r, c)' <=> Sends(t, r, c)
      /\ OthersStay(s) /\ UNCHANGED <<desk, rows, torn>>
  BY <1>1, <1>5, <1>6, StageSends
<1>8. \A r \in DOMAIN writes : "there" \in DOMAIN writes[r] => writes[r].there
  BY <1>5
<1>9. NeverRemoves'
  BY <1>1, <1>5, <1>6, <1>8, NeverRemovesStages DEF AnswersAre
<1>10. Sends(s, Leave, "there")' => Sends(s, Leave, "status")'
  BY <1>1, <1>5, <1>7 DEF Shape, Absent
<1>11. There(a)' \/ Sends(s, a, "there")'
  BY <1>7, <1>1, <1>3, <1>5 DEF There, Shape, Absent
<1>12. Sends(s, Leave, "status")' => AnswerTo(open[s].writes[Leave].status)' = a
  BY <1>5, <1>7, <1>2 DEF AnswerTo
<1>13. Answers(s)'
  BY <1>10, <1>11, <1>12 DEF Answers
<1> QED BY <1>7, <1>9, <1>13

\* A handler that says nothing of leaves.
LEMMA LeaveLeft ==
    ASSUME Shape, NeverRemoves, NEW s \in Sessions, NEW locked, NEW writes,
           DOMAIN writes \subseteq DOMAIN rows, StageLocked(s, locked, writes),
           Leave \notin DOMAIN writes,
           \A r \in DOMAIN writes : "there" \in DOMAIN writes[r] => writes[r].there
    PROVE  /\ NeverRemoves' /\ Answers(s)' /\ OthersStay(s) /\ UNCHANGED <<desk, rows, torn>>
           /\ \A t \in Sessions \ {s} : \A r, c : Sends(t, r, c)' <=> Sends(t, r, c)
  BY StageSends, NeverRemovesStages DEF Answers

\* Every request about leaves, and what is told of them.
LEMMA AnswerSays ==
    ASSUME NEW types, NEW sound, AdministrationFits(types, sound), desk = "answers", AnswersAre,
           NEW s \in Sessions, AnswerStep(s)
    PROVE  /\ NeverRemoves' /\ Answers(s)' /\ OthersStay(s) /\ UNCHANGED <<desk, rows, torn>>
           /\ \A t \in Sessions \ {s} : \A r, c : Sends(t, r, c)' <=> Sends(t, r, c)
<1>1. /\ Shape /\ Typed(types) /\ There(Contract) /\ NeverRemoves
      /\ \A name : \A r \in Table(name) : r \in DOMAIN rows /\ r[1] = name
      /\ Contract \in Table("contracts") /\ Leave \in Table("leaves")
      /\ \A day \in Expiries : <<"expiries", day>> \in Table("expiries")
  BY AnswerTables DEF AnswersAre
<1>2. Leave[1] = "leaves" /\ Contract[1] = "contracts"
  BY DEF Leave, Contract
<1>3. CASE ChangeContract(s)
  BY <1>3, <1>1, <1>2, LeaveLeft DEF ChangeContract, Stage, Set
<1>4. CASE BookLeave(s)
  BY <1>4, LeaveSays DEF BookLeave, Stage
<1>5. CASE DecideLeave(s)
  BY <1>5, LeaveSays DEF DecideLeave
<1>6. CASE GenerateFieldAlerts(s)
  <2>1. PICK people, expiring : people = PeopleAlerts /\ expiring = ExpiryAlerts
    OBVIOUS
  <2>2. PICK writes : writes = Over(people, expiring) /\ StageLocked(s, {}, writes)
    BY <1>6, <2>1 DEF GenerateFieldAlerts, Stage
  <2>3. /\ DOMAIN people \subseteq Table("answers")
        /\ \A r \in DOMAIN people : people[r] = [there |-> TRUE]
    BY LeaveIsOne, AnswerIsRow, <2>1, NothingWritten DEF PeopleAlerts, Emit, AnswerTo, Set
  <2>4. /\ DOMAIN expiring \subseteq Table("expiries")
        /\ \A r \in DOMAIN expiring : expiring[r] = [there |-> TRUE]
    BY <2>1, NothingWritten, <1>1, ContractExpires DEF ExpiryAlerts, Emit, Set
  <2>5. /\ DOMAIN writes = DOMAIN people \cup DOMAIN expiring
        /\ \A r \in DOMAIN writes : writes[r] = [there |-> TRUE]
    BY <2>2, <2>3, <2>4 DEF Over
  <2>6. DOMAIN writes \subseteq DOMAIN rows /\ Leave \notin DOMAIN writes
    BY <1>1, <1>2, <2>3, <2>4, <2>5
  <2>7. \A r \in DOMAIN writes : "there" \in DOMAIN writes[r] => writes[r].there
    BY <2>5
  <2> QED BY <1>1, <2>2, <2>6, <2>7, LeaveLeft
<1> QED BY <1>3, <1>4, <1>5, <1>6 DEF AnswerStep

\* Whatever happens at the desk of the answers.
LEMMA AnswersGoOn ==
    ASSUME NEW types, NEW sound, AdministrationFits(types, sound), desk = "answers", AnswersAre,
           \/ \E s \in Sessions : AnswerStep(s)
           \/ \E s \in Sessions : \E accepted : Commit(s, accepted)
           \/ \E s \in Sessions : Abort(s)
           \/ UNCHANGED storeVars
    PROVE  AnswersAre'
<1>1. /\ Shape /\ Typed(types) /\ There(Contract) /\ NeverRemoves
      /\ Contract \in DOMAIN rows /\ Leave \in DOMAIN rows
  BY AnswerTables DEF AnswersAre, Table
<1>2. ASSUME NEW s \in Sessions, AnswerStep(s) PROVE AnswersAre'
  BY <1>2, AnswerSays, <1>1, AnswersKept
<1>3. ASSUME NEW s \in Sessions, Abort(s) PROVE AnswersAre'
  BY <1>1, <1>3, AbortSends, NeverRemovesEnds, AnswersKept DEF Answers
<1>4. ASSUME NEW s \in Sessions, NEW accepted, Commit(s, accepted) PROVE AnswersAre'
  <2>1. /\ \A r \in DOMAIN rows : There(r)' <=> There(r) \/ Sends(s, r, "there")
        /\ \A r \in DOMAIN rows : \A c : There(r)' =>
              /\ Sends(s, r, c) => rows'[r][c] = open[s].writes[r][c]
              /\ c \in DOMAIN rows[r] /\ ~Sends(s, r, c) => rows'[r][c] = rows[r][c]
        /\ \A r, c : ~Sends(s, r, c)'
        /\ \A t \in Sessions \ {s} : \A r, c : Sends(t, r, c)' <=> Sends(t, r, c)
        /\ OthersStay(s) /\ Alike
    BY <1>1, <1>4, CommitSends
  <2>2. There(Contract)' /\ NeverRemoves'
    BY <1>1, <1>4, <2>1, NeverRemovesEnds
  <2>3. ASSUME There(Leave)' PROVE There(AnswerTo(rows[Leave].status))'
    <3>1. CASE Sends(s, Leave, "status")
      BY <3>1, AnswerSent, AnswerIsRow, <1>1, <2>1, <2>3 DEF AnswersAre, Answers, AnswerTo,
         There
    <3>2. CASE ~Sends(s, Leave, "status")
      <4>1. There(Leave)
        BY <1>1, <2>1, <2>3, <3>2 DEF AnswersAre, Answers
      <4>2. /\ rows[Leave].status \in {"PENDING", "APPROVED", "REJECTED"}
            /\ "status" \in DOMAIN rows[Leave]
        BY <4>1, LeaveIsOne, LeaveColumns DEF IsRow
      <4>3. rows'[Leave].status = rows[Leave].status
        BY <1>1, <2>1, <2>3, <3>2, <4>2
      <4>4. PICK a : a = AnswerTo(rows[Leave].status)
        OBVIOUS
      <4>5. a \in DOMAIN rows /\ There(a)
        BY <4>1, <4>2, <4>4, AnswerIsRow DEF AnswersAre
      <4>6. AnswerTo(rows[Leave].status)' = a
        BY <4>3, <4>4 DEF AnswerTo
      <4>7. There(a)'
        BY <2>1, <4>5
      <4> QED BY <4>6, <4>7 DEF There
    <3> QED BY <3>1, <3>2
  <2>4. ASSUME NEW t \in Sessions PROVE Answers(t)'
    <3>1. CASE t = s
      BY <2>1, <3>1 DEF Answers
    <3>2. CASE t # s
      <4>1. /\ open'[t].writes = open[t].writes /\ Answers(t)
            /\ \A r, c : Sends(t, r, c)' <=> Sends(t, r, c)
        BY <2>1, <3>2 DEF OthersStay, AnswersAre
      <4>2. Sends(t, Leave, "there")' => Sends(t, Leave, "status")'
        BY <4>1 DEF Answers
      <4>3. ASSUME Sends(t, Leave, "status")'
            PROVE  \/ There(AnswerTo(open[t].writes[Leave].status))'
                   \/ Sends(t, AnswerTo(open[t].writes[Leave].status), "there")'
        BY <4>1, <4>3, AnswerSent, AnswerIsRow, <2>1 DEF Answers, AnswerTo, There, Sends
      <4> QED BY <4>2, <4>3 DEF Answers
    <3> QED BY <3>1, <3>2
  <2> QED BY <2>2, <2>3, <2>4 DEF AnswersAre
<1>5. CASE UNCHANGED storeVars
  BY <1>5 DEF storeVars, There, Sends, NeverRemoves, Answers, AnswerTo, AnswersAre
<1> QED BY <1>2, <1>3, <1>4, <1>5

-----------------------------------------------------------------------------
(* A mail for every notice that is told by mail. *)

MailedTo(who) == {n \in Table("inbox") : There(n) /\ rows[n].of = who /\ rows[n].mailed}
CopiesTo(who) == {c \in Table("copies") : There(c) /\ rows[c].to = who}

\* The columns that count.
Counts(s, r) ==
    Sends(s, r, "there") \/ Sends(s, r, "of") \/ Sends(s, r, "mailed") \/ Sends(s, r, "to")

\* A session sends none of them,
Silent(s) == \A r : ~Counts(s, r)

\* or a notice that is not mailed,
TellsAlone(s, n) ==
    /\ Fresh(s, n) /\ n \in Table("inbox")
    /\ Sends(s, n, "there") /\ Sends(s, n, "mailed") /\ ~open[s].writes[n].mailed
    /\ \A r : Counts(s, r) => r = n

\* or one that is, and the mail.
TellsByMail(s, n, c) ==
    /\ Fresh(s, n) /\ n \in Table("inbox") /\ Fresh(s, c) /\ c \in Table("copies")
    /\ Sends(s, n, "there") /\ Sends(s, n, "of") /\ Sends(s, n, "mailed")
    /\ open[s].writes[n].mailed
    /\ Sends(s, c, "there") /\ Sends(s, c, "to")
    /\ open[s].writes[c].to = open[s].writes[n].of
    /\ \A r : Counts(s, r) => r \in {n, c}

TellsRight(s) ==
    \/ Silent(s) \/ \E n : TellsAlone(s, n)
    \/ \E n, c : TellsByMail(s, n, c)

CopiesAre ==
    /\ NeverRemoves
    /\ \A who \in Employees : Cardinality(MailedTo(who)) = Cardinality(CopiesTo(who))
    /\ \A s \in Sessions : TellsRight(s)

\* What the inbox can hold.
LEMMA InboxIsFinite ==
    ASSUME NEW types, NEW sound, AdministrationFits(types, sound), desk = "inbox"
    PROVE  /\ \A who : IsFiniteSet(MailedTo(who)) /\ IsFiniteSet(CopiesTo(who))
           /\ Table("inbox") \cap Table("copies") = {}
<1>1. DOMAIN rows = {"inbox", "copies"} \X (1..3)
  BY AdministrationHas, AdministrationNames
<1>2. IsFiniteSet({"inbox"} \X (1..3)) /\ IsFiniteSet({"copies"} \X (1..3))
  <2>1. IsFiniteSet(1..3)
    <3>1. PICK three : three = 3
      OBVIOUS
    <3>2. 1 \in Int /\ three \in Int
      BY <3>1
    <3>3. IsFiniteSet(1..three)
      BY <3>2, FS_Interval
    <3> QED BY <3>1, <3>3
  <2> QED BY <2>1, FS_Singleton, FS_Product
<1>3. Table("inbox") \subseteq {"inbox"} \X (1..3) /\ Table("copies") \subseteq {"copies"} \X (1..3)
  BY <1>1 DEF Table
<1>4. \A who : /\ MailedTo(who) \in SUBSET ({"inbox"} \X (1..3))
               /\ CopiesTo(who) \in SUBSET ({"copies"} \X (1..3))
  BY <1>3 DEF MailedTo, CopiesTo
<1>5. \A who : IsFiniteSet(MailedTo(who)) /\ IsFiniteSet(CopiesTo(who))
  BY <1>2, <1>4, FS_Subset
<1> QED BY <1>5 DEF Table

\* What a session sends stays right as long as its rows are its own.
LEMMA TellingStays ==
    ASSUME Alike, NEW t \in Sessions, Kept(t), \A r, c : Sends(t, r, c)' <=> Sends(t, r, c),
           TellsRight(t)
    PROVE  TellsRight(t)'
  BY DEF Kept, Alike, Table, Counts, TellsRight, Silent, TellsAlone, Sends, TellsByMail

\* A step that leaves the rows alone.
LEMMA CopiesKept ==
    ASSUME CopiesAre, NEW s \in Sessions, UNCHANGED <<desk, rows, torn>>,
           \A t \in Sessions \ {s} : Kept(t),
           NeverRemoves', TellsRight(s)',
           \A t \in Sessions \ {s} : \A r, c : Sends(t, r, c)' <=> Sends(t, r, c)
    PROVE  CopiesAre'
  BY TellingStays DEF MailedTo, CopiesTo, Table, There, CopiesAre, Alike

\* What a commit makes of the counts.
LEMMA CountsCommit ==
    ASSUME NEW types, NEW sound, AdministrationFits(types, sound), desk = "inbox", CopiesAre,
           NEW s \in Sessions, NEW accepted, Commit(s, accepted)
    PROVE  /\ \A n \in Table("inbox") : ~Counts(s, n) =>
                 \A who : n \in MailedTo(who)' <=> n \in MailedTo(who)
           /\ \A c \in Table("copies") : ~Counts(s, c) =>
                 \A who : c \in CopiesTo(who)' <=> c \in CopiesTo(who)
<1>1. /\ Shape /\ Typed(types) /\ NeverRemoves
      /\ \A name : Table(name) \subseteq DOMAIN rows
      /\ \A r \in Table("inbox") : types[r] = InboxTypes
      /\ \A r \in Table("copies") : types[r] = CopyTypes
  BY InboxTables DEF CopiesAre
<1>2. /\ \A r \in DOMAIN rows : There(r)' <=> There(r) \/ Sends(s, r, "there")
      /\ \A r \in DOMAIN rows : \A c : There(r)' =>
            /\ Sends(s, r, c) => rows'[r][c] = open[s].writes[r][c]
            /\ c \in DOMAIN rows[r] /\ ~Sends(s, r, c) => rows'[r][c] = rows[r][c]
      /\ Alike
  BY <1>1, CommitSends
<1>3. Table("inbox")' = Table("inbox") /\ Table("copies")' = Table("copies")
  BY <1>2 DEF Alike, Table
<1>4. ASSUME NEW n \in Table("inbox"), ~Counts(s, n), NEW who
      PROVE  n \in MailedTo(who)' <=> n \in MailedTo(who)
  <2>1. There(n)' <=> There(n)
    BY <1>1, <1>2, <1>4 DEF Counts
  <2>2. ASSUME There(n) PROVE rows'[n].of = rows[n].of /\ rows'[n].mailed = rows[n].mailed
    <3>1. n \in Live("inbox")
      BY <2>2 DEF Live
    <3>2. IsRow(rows[n], InboxTypes)
      BY <1>1, <3>1, AdministrationRow
    <3>3. "of" \in DOMAIN rows[n] /\ "mailed" \in DOMAIN rows[n]
      BY <3>2, InboxColumns DEF IsRow
    <3> QED BY <1>1, <1>2, <1>4, <2>1, <2>2, <3>3 DEF Counts
  <2> QED BY <1>3, <2>1, <2>2 DEF MailedTo
<1>5. ASSUME NEW c \in Table("copies"), ~Counts(s, c), NEW who
      PROVE  c \in CopiesTo(who)' <=> c \in CopiesTo(who)
  <2>1. There(c)' <=> There(c)
    BY <1>1, <1>2, <1>5 DEF Counts
  <2>2. ASSUME There(c) PROVE rows'[c].to = rows[c].to
    <3>1. c \in Live("copies")
      BY <2>2 DEF Live
    <3>2. IsRow(rows[c], CopyTypes)
      BY <1>1, <3>1, AdministrationRow
    <3>3. "to" \in DOMAIN rows[c]
      BY <3>2, CopyColumns DEF IsRow
    <3> QED BY <1>1, <1>2, <1>5, <2>1, <2>2, <3>3 DEF Counts
  <2> QED BY <1>3, <2>1, <2>2 DEF CopiesTo
<1> QED BY <1>4, <1>5

\* A commit adds a notice to what is mailed and its mail, or neither.
LEMMA CopiesCommit ==
    ASSUME NEW types, NEW sound, AdministrationFits(types, sound), desk = "inbox", CopiesAre,
           NEW s \in Sessions, NEW accepted, Commit(s, accepted)
    PROVE  CopiesAre'
<1>1. /\ Shape /\ Typed(types) /\ NeverRemoves
      /\ \A name : Table(name) \subseteq DOMAIN rows
      /\ \A who \in Employees : Cardinality(MailedTo(who)) = Cardinality(CopiesTo(who))
      /\ \A t \in Sessions : TellsRight(t)
  BY InboxTables DEF CopiesAre
<1>2. /\ \A r \in DOMAIN rows : There(r)' <=> There(r) \/ Sends(s, r, "there")
      /\ \A r \in DOMAIN rows : \A c :
            There(r)' /\ Sends(s, r, c) => rows'[r][c] = open[s].writes[r][c]
      /\ \A r, c : ~Sends(s, r, c)'
      /\ \A t \in Sessions \ {s} : \A r, c : Sends(t, r, c)' <=> Sends(t, r, c)
      /\ Alike
  BY <1>1, CommitSends
<1>3. Table("inbox")' = Table("inbox") /\ Table("copies")' = Table("copies")
  BY <1>2 DEF Alike, Table
<1>4. NeverRemoves'
  BY <1>1, NeverRemovesEnds
<1>5. ASSUME NEW t \in Sessions PROVE TellsRight(t)'
  BY <1>2, <1>1, CommitLeaves, TellingStays DEF TellsRight, Silent, Counts
<1>6. /\ \A n \in Table("inbox") : ~Counts(s, n) =>
            \A who : n \in MailedTo(who)' <=> n \in MailedTo(who)
      /\ \A c \in Table("copies") : ~Counts(s, c) =>
            \A who : c \in CopiesTo(who)' <=> c \in CopiesTo(who)
  BY CountsCommit
<1>7. /\ \A who : IsFiniteSet(MailedTo(who)) /\ IsFiniteSet(CopiesTo(who))
      /\ Table("inbox") \cap Table("copies") = {}
  BY InboxIsFinite
<1>8. \A who : /\ MailedTo(who) \subseteq Table("inbox") /\ MailedTo(who)' \subseteq Table("inbox")
               /\ CopiesTo(who) \subseteq Table("copies") /\ CopiesTo(who)' \subseteq Table("copies")
  BY <1>3 DEF MailedTo, CopiesTo
<1>9. ASSUME NEW who \in Employees
      PROVE  Cardinality(MailedTo(who))' = Cardinality(CopiesTo(who))'
  <2>1. CASE Silent(s)
    BY <1>6, <1>8, <2>1, <1>1 DEF Silent
  <2>2. ASSUME NEW n, TellsAlone(s, n)
        PROVE  Cardinality(MailedTo(who))' = Cardinality(CopiesTo(who))'
    <3>1. /\ n \in Table("inbox") /\ n \in DOMAIN rows /\ ~There(n) /\ Sends(s, n, "there")
          /\ Sends(s, n, "mailed") /\ ~open[s].writes[n].mailed
          /\ \A r : Counts(s, r) => r = n
      BY <2>2 DEF TellsAlone, Fresh
    <3>2. n \notin MailedTo(who) /\ n \notin MailedTo(who)'
      BY <1>2, <3>1 DEF MailedTo
    <3>3. MailedTo(who)' = MailedTo(who)
      BY <1>6, <1>8, <3>1, <3>2
    <3>4. CopiesTo(who)' = CopiesTo(who)
      BY <1>6, <1>7, <1>8, <3>1
    <3> QED BY <1>1, <3>3, <3>4
  <2>3. ASSUME NEW n, NEW c, TellsByMail(s, n, c)
        PROVE  Cardinality(MailedTo(who))' = Cardinality(CopiesTo(who))'
    <3>1. /\ n \in Table("inbox") /\ c \in Table("copies") /\ ~There(n) /\ ~There(c)
          /\ Sends(s, n, "there") /\ Sends(s, n, "of") /\ Sends(s, n, "mailed")
          /\ open[s].writes[n].mailed
          /\ Sends(s, c, "there") /\ Sends(s, c, "to")
          /\ open[s].writes[c].to = open[s].writes[n].of
          /\ \A r : Counts(s, r) => r \in {n, c}
      BY <2>3 DEF TellsByMail, Fresh
    <3>2. n # c /\ n \in DOMAIN rows /\ c \in DOMAIN rows
      BY <1>1, <1>7, <3>1
    <3>3. PICK of : of = open[s].writes[n].of
      OBVIOUS
    <3>4. /\ There(n)' /\ rows'[n].of = of /\ rows'[n].mailed
          /\ There(c)' /\ rows'[c].to = of
      BY <1>2, <3>1, <3>2, <3>3
    <3>5. n \notin MailedTo(who) /\ c \notin CopiesTo(who)
      BY <3>1 DEF MailedTo, CopiesTo
    <3>6. /\ n \in MailedTo(who)' <=> of = who
          /\ c \in CopiesTo(who)' <=> of = who
      BY <1>3, <3>1, <3>4 DEF MailedTo, CopiesTo
    <3>7. /\ \A x \in Table("inbox") : x # n => (x \in MailedTo(who)' <=> x \in MailedTo(who))
          /\ \A x \in Table("copies") : x # c => (x \in CopiesTo(who)' <=> x \in CopiesTo(who))
      BY <1>6, <1>7, <3>1
    <3>8. CASE of = who
      <4>1. MailedTo(who)' = MailedTo(who) \cup {n}
        BY <1>8, <3>6, <3>7, <3>8
      <4>2. CopiesTo(who)' = CopiesTo(who) \cup {c}
        BY <1>8, <3>6, <3>7, <3>8
      <4>3. Cardinality(MailedTo(who) \cup {n}) = Cardinality(MailedTo(who)) + 1
        BY <1>7, <3>5, FS_AddElement
      <4>4. Cardinality(CopiesTo(who) \cup {c}) = Cardinality(CopiesTo(who)) + 1
        BY <1>7, <3>5, FS_AddElement
      <4> QED BY <1>1, <4>1, <4>2, <4>3, <4>4
    <3>9. CASE of # who
      <4>1. MailedTo(who)' = MailedTo(who)
        BY <1>8, <3>5, <3>6, <3>7, <3>9
      <4>2. CopiesTo(who)' = CopiesTo(who)
        BY <1>8, <3>5, <3>6, <3>7, <3>9
      <4> QED BY <1>1, <4>1, <4>2
    <3> QED BY <3>8, <3>9
  <2> QED BY <1>1, <2>1, <2>2, <2>3 DEF TellsRight
<1> QED BY <1>4, <1>5, <1>9 DEF CopiesAre

\* A notice is told.
LEMMA NoticeSays ==
    ASSUME NEW types, NEW sound, AdministrationFits(types, sound), desk = "inbox", CopiesAre,
           NEW s \in Sessions, NEW who \in Employees, NEW mailed \in BOOLEAN,
           NEW forwarded \in BOOLEAN, Spare("inbox") # {}, mailed => Spare("copies") # {},
           NEW more, DOMAIN more \subseteq Live("inbox"),
           \A r \in DOMAIN more : DOMAIN more[r] = {"forwarded"},
           StageLocked(s, {}, Over(Notice(who, mailed, forwarded), more))
    PROVE  /\ NeverRemoves' /\ TellsRight(s)' /\ UNCHANGED <<desk, rows, torn>>
           /\ \A t \in Sessions \ {s} : Kept(t)
           /\ \A t \in Sessions \ {s} : \A r, c : Sends(t, r, c)' <=> Sends(t, r, c)
<1>1. /\ Shape
      /\ \A name : \A r \in Table(name) : r \in DOMAIN rows /\ r[2] \in Nat /\ r[1] = name
      /\ \A name : Live(name) \subseteq Table(name) /\ Table(name) \subseteq DOMAIN rows
      /\ NeverRemoves
  BY InboxTables DEF CopiesAre
<1>2. PICK n, c : n = NewRow("inbox") /\ c = NewRow("copies")
  OBVIOUS
<1>3. /\ n \in Table("inbox") /\ ~There(n) /\ n \in DOMAIN rows /\ n[1] = "inbox"
      /\ \A t \in Sessions : n \notin DOMAIN open[t].writes
  BY <1>1, <1>2, NewRowIsSpare
<1>4. mailed => /\ c \in Table("copies") /\ ~There(c) /\ c \in DOMAIN rows /\ c[1] = "copies"
                /\ \A t \in Sessions : c \notin DOMAIN open[t].writes
  BY <1>1, <1>2, NewRowIsSpare
<1>5. PICK row, copy : /\ row = Over([there |-> TRUE], InboxGiven(who, mailed, forwarded))
                       /\ copy = Over([there |-> TRUE], [to |-> who])
  OBVIOUS
<1>6. /\ DOMAIN row = {"there", "of", "mailed", "read", "resolved", "forwarded"}
      /\ row.there = TRUE /\ row.of = who /\ row.mailed = mailed
      /\ DOMAIN copy = {"there", "to"} /\ copy.there = TRUE /\ copy.to = who
  BY <1>5 DEF Over, InboxGiven
<1>7. PICK mail, writes : /\ mail = IF mailed THEN Set(c, copy) ELSE <<>>
                          /\ writes = Over(Over(Set(n, row), mail), more)
  OBVIOUS
<1>8. StageLocked(s, {}, writes)
  BY <1>2, <1>5, <1>7 DEF Notice, Insert, InboxGiven
<1>9. /\ DOMAIN mail = IF mailed THEN {c} ELSE {}
      /\ mailed => mail[c] = copy
  BY <1>7, NothingWritten DEF Set
<1>10. mailed => n # c
  BY <1>3, <1>4
<1>11. /\ DOMAIN writes = {n} \cup DOMAIN mail \cup DOMAIN more
       /\ writes[n] = row
       /\ mailed => writes[c] = copy
       /\ \A r \in DOMAIN more : r # n /\ r \notin DOMAIN mail /\ writes[r] = more[r]
  BY <1>3, <1>4, <1>9, <1>10, <1>7 DEF Live, Over, Set
<1>12. DOMAIN writes \subseteq DOMAIN rows
  BY <1>1, <1>3, <1>4, <1>9, <1>11
<1>13. /\ \A r, a : Sends(s, r, a)' <=> /\ r \in DOMAIN writes /\ a \in DOMAIN writes[r]
                                        /\ a \in DOMAIN rows[r] => rows[r][a] # writes[r][a]
       /\ \A r, a : Sends(s, r, a)' => open'[s].writes[r][a] = writes[r][a]
       /\ \A t \in Sessions \ {s} : \A r, a : Sends(t, r, a)' <=> Sends(t, r, a)
       /\ OthersStay(s) /\ UNCHANGED <<desk, rows, torn>>
  BY <1>1, <1>8, <1>12, StageSends
<1>14. NeverRemoves'
  BY <1>6, <1>9, <1>11, <1>1, <1>8, <1>12, NeverRemovesStages
<1>15. /\ rows[n] = Absent
       /\ mailed => rows[c] = Absent
       /\ DOMAIN Absent = {"there"} /\ Absent.there = FALSE
  BY <1>1, <1>3, <1>4 DEF Shape, Absent
<1>16. /\ Sends(s, n, "there")' /\ Sends(s, n, "of")' /\ Sends(s, n, "mailed")'
       /\ open'[s].writes[n].of = who /\ open'[s].writes[n].mailed = mailed
  BY <1>6, <1>11, <1>13, <1>15
<1>17. mailed => /\ Sends(s, c, "there")' /\ Sends(s, c, "to")'
                 /\ open'[s].writes[c].to = who
  BY <1>6, <1>9, <1>11, <1>13, <1>15
<1>18. \A r : Counts(s, r)' => r = n \/ (mailed /\ r = c)
  BY <1>9, <1>11, <1>13 DEF Counts
<1>19. TakesSpare(s)
  BY <1>1, <1>8, <1>12, StageShape, <1>3, <1>4, <1>9, <1>11 DEF Live, TakesSpare
<1>20. \A t \in Sessions \ {s} : Kept(t)
  BY <1>13, <1>19, StageLeaves
<1>21. Fresh(s, n)' /\ (mailed => Fresh(s, c)')
  BY <1>13, <1>3, <1>4 DEF OthersStay, Fresh, There
<1>22. Table("inbox")' = Table("inbox") /\ Table("copies")' = Table("copies")
  BY <1>13 DEF Table
<1>23. TellsRight(s)'
  <2>1. CASE mailed
    <3>1. TellsByMail(s, n, c)'
      BY <1>3, <1>4, <1>16, <1>17, <1>18, <1>21, <1>22, <2>1 DEF TellsByMail
    <3> QED BY <3>1 DEF TellsRight
  <2>2. CASE ~mailed
    BY <1>3, <1>16, <1>18, <1>21, <1>22, <2>2 DEF TellsAlone, TellsRight
  <2> QED BY <2>1, <2>2
<1> QED BY <1>13, <1>14, <1>20, <1>23

\* Something is done with one.
LEMMA InboxLeft ==
    ASSUME Shape, NeverRemoves, NEW s \in Sessions, NEW n \in Live("inbox"),
           NEW column \in {"read", "resolved"}, NEW cols, DOMAIN cols = {column},
           StageLocked(s, {}, Set(n, cols))
    PROVE  /\ NeverRemoves' /\ TellsRight(s)' /\ UNCHANGED <<desk, rows, torn>>
           /\ \A t \in Sessions \ {s} : Kept(t)
           /\ \A t \in Sessions \ {s} : \A r, c : Sends(t, r, c)' <=> Sends(t, r, c)
  BY StageSends, NeverRemovesStages, StageThere, StageLeaves DEF Set, Live, Table, Silent,
     Counts, TellsRight

\* Every request at the inbox.
LEMMA InboxSays ==
    ASSUME NEW types, NEW sound, AdministrationFits(types, sound), desk = "inbox", CopiesAre,
           NEW s \in Sessions, InboxStep(s)
    PROVE  /\ NeverRemoves' /\ TellsRight(s)' /\ UNCHANGED <<desk, rows, torn>>
           /\ \A t \in Sessions \ {s} : Kept(t)
           /\ \A t \in Sessions \ {s} : \A r, c : Sends(t, r, c)' <=> Sends(t, r, c)
<1>1. Shape /\ NeverRemoves /\ \A r \in Table("inbox") : types[r] = InboxTypes
  BY InboxTables DEF CopiesAre
<1>2. CASE MarkRead(s)
  BY <1>2, <1>1, InboxLeft DEF MarkRead, Stage
<1>3. CASE ResolveNotification(s)
  BY <1>3, <1>1, InboxLeft DEF ResolveNotification, Stage
<1>4. CASE TellEmployee(s)
  <2>1. PICK who \in Employees, mailed \in BOOLEAN :
            /\ Spare("inbox") = Table("inbox")
            /\ mailed => Spare("copies") # {}
            /\ StageLocked(s, {}, Notice(who, mailed, FALSE))
    BY <1>4 DEF TellEmployee, Stage
  <2>2. Spare("inbox") # {}
    <3>1. DOMAIN rows = {"inbox", "copies"} \X (1..3)
      BY AdministrationHas, AdministrationNames
    <3>2. <<"inbox", 1>> \in Table("inbox")
      BY <3>1 DEF Table
    <3> QED BY <2>1, <3>2
  <2>3. PICK more : more = <<>>
    OBVIOUS
  <2>4. DOMAIN more = {}
    BY <2>3, NothingWritten
  <2>5. Over(Notice(who, mailed, FALSE), more) = Notice(who, mailed, FALSE)
    BY <2>4 DEF Notice, Over
  <2>6. StageLocked(s, {}, Over(Notice(who, mailed, FALSE), more))
    BY <2>1, <2>5
  <2> QED BY <2>1, <2>2, <2>4, <2>6, NoticeSays
<1>5. CASE ForwardNotification(s)
  <2>1. PICK n \in Live("inbox"), target \in Employees :
            /\ Spare("inbox") # {}
            /\ rows[n].mailed => Spare("copies") # {}
            /\ StageLocked(s, {}, Over(Notice(target, rows[n].mailed, TRUE),
                                       Set(n, [forwarded |-> TRUE])))
    BY <1>5 DEF ForwardNotification, Stage
  <2>2. PICK mailed \in BOOLEAN : mailed = rows[n].mailed
    <3>1. IsRow(rows[n], types[n]) /\ n \in Table("inbox")
      BY AdministrationRow
    <3> QED BY <1>1, <3>1, InboxColumns DEF IsRow
  <2>3. mailed => Spare("copies") # {}
    BY <2>1, <2>2
  <2>4. PICK more : more = Set(n, [forwarded |-> TRUE])
    OBVIOUS
  <2>5. DOMAIN more = {n} /\ DOMAIN more[n] = {"forwarded"}
    BY <2>4 DEF Set
  <2>6. StageLocked(s, {}, Over(Notice(target, mailed, TRUE), more))
    BY <2>1, <2>2, <2>4
  <2> QED BY <2>1, <2>3, <2>5, <2>6, NoticeSays
<1> QED BY <1>2, <1>3, <1>4, <1>5 DEF InboxStep

\* Whatever happens at the inbox.
LEMMA CopiesGoOn ==
    ASSUME NEW types, NEW sound, AdministrationFits(types, sound), desk = "inbox", CopiesAre,
           \/ \E s \in Sessions : InboxStep(s)
           \/ \E s \in Sessions : \E accepted : Commit(s, accepted)
           \/ \E s \in Sessions : Abort(s)
           \/ UNCHANGED storeVars
    PROVE  CopiesAre'
<1>1. Shape /\ NeverRemoves
  BY InboxTables DEF CopiesAre
<1>2. ASSUME NEW s \in Sessions, InboxStep(s) PROVE CopiesAre'
  BY <1>2, InboxSays, CopiesKept
<1>3. ASSUME NEW s \in Sessions, Abort(s) PROVE CopiesAre'
  BY <1>1, <1>3, AbortSends, NeverRemovesEnds, AbortLeaves, CopiesKept DEF TellsRight,
     Silent, Counts
<1>4. CASE UNCHANGED storeVars
  BY <1>4, <1>1, StutterLeaves, TellingStays DEF storeVars, Sends, MailedTo, CopiesTo,
     Table, There, NeverRemoves, Alike, CopiesAre
<1> QED BY <1>2, <1>3, <1>4, CopiesCommit

-----------------------------------------------------------------------------
(* The head office as it is. *)

AdministrationInv ==
    /\ AdministrationFits(AdministrationTypes, AdministrationSound)
    /\ desk = "reminders" => LettersAre
    /\ desk = "answers" => AnswersAre
    /\ desk = "inbox" => CopiesAre

\* Types and what is sound do not change.
LEMMA AdministrationStays ==
    ASSUME Alike
    PROVE  /\ AdministrationTypes' = AdministrationTypes
           /\ AdministrationSound' = AdministrationSound
<1>1. desk' = desk /\ DOMAIN rows' = DOMAIN rows
  BY DEF Alike
<1>2. Table("requests")' = Table("requests")
  BY <1>1 DEF Table
<1>3. AdministrationTypes' = AdministrationTypes
  BY <1>1 DEF AdministrationTypes, RoleTypes, RequestTypes, ContractTypes, RuleTypes, LeaveTypes,
     LetterTypes, InboxTypes, CopyTypes, ScorecardTypes, OpportunityTypes, NoticeTypes, MarkTypes,
     Expiries, TenderStages
<1>4. PICK types : types = AdministrationTypes
  OBVIOUS
<1>5. Tables(types)' = Tables(types)
  BY <1>1, TablesStay
<1>6. \A tab : OnePending(tab)' = OnePending(tab)
  BY <1>2 DEF OnePending
<1>7. AdministrationSound = {tab \in Tables(types) : desk = "downloads" => OnePending(tab)}
  BY <1>4 DEF AdministrationSound
<1>8. AdministrationSound' = {tab \in Tables(types)' : desk' = "downloads" => OnePending(tab)'}
  BY <1>3, <1>4 DEF AdministrationSound
<1>9. AdministrationSound' = AdministrationSound
  BY <1>1, <1>5, <1>6, <1>7, <1>8
<1> QED BY <1>3, <1>9

\* They begin with a contract, or with nothing.
LEMMA AdministrationBegins == AdministrationInit => AdministrationInv
<1> SUFFICES ASSUME AdministrationInit PROVE AdministrationInv
  OBVIOUS
<1>1. /\ desk \in DOMAIN AdministrationIds /\ StoreInit
      /\ rows = [r \in AdministrationIds[desk] |-> AdministrationFirst(r)]
  BY DEF AdministrationInit
<1>2. /\ DOMAIN rows = AdministrationIds[desk] /\ rows = [r \in DOMAIN rows |-> rows[r]]
      /\ \A r \in DOMAIN rows : r # Contract => rows[r] = Absent
      /\ Contract \in DOMAIN rows =>
            rows[Contract] = [there |-> TRUE, expiry |-> Today + 1, rejected |-> FALSE]
  BY <1>1 DEF AdministrationFirst
<1>3. PICK types, sound : types = AdministrationTypes /\ sound = AdministrationSound
  OBVIOUS
<1>4. ASSUME NEW r \in DOMAIN rows
      PROVE  \/ rows[r] = Absent /\ r # Contract
             \/ There(r) /\ IsRow(rows[r], types[r]) /\ r = Contract
  <2>1. CASE r = Contract
    <3>1. PICK row : row = [there |-> TRUE, expiry |-> Today + 1, rejected |-> FALSE]
      OBVIOUS
    <3>2. rows[r] = row
      BY <1>2, <2>1, <3>1
    <3>3. types[r] = ContractTypes
      BY <2>1, <1>3, AdministrationTyping DEF Table, Contract
    <3>4. /\ DOMAIN row = {"there", "expiry", "rejected"} /\ row = [c \in DOMAIN row |-> row[c]]
          /\ row.there = TRUE /\ row.expiry = Today + 1 /\ row.rejected = FALSE
      BY <3>1
    <3>5. row.expiry \in Expiries
      BY <3>4 DEF Expiries
    <3>6. \A c \in DOMAIN ContractTypes : row[c] \in ContractTypes[c]
      BY <3>4, <3>5, ContractColumns
    <3>7. IsRow(row, ContractTypes)
      BY <3>4, <3>6, ContractColumns DEF IsRow
    <3> QED BY <2>1, <3>2, <3>3, <3>4, <3>7 DEF There
  <2>2. CASE r # Contract
    BY <1>2, <2>2
  <2> QED BY <2>1, <2>2
<1>5. Shape /\ \A s \in Sessions : DOMAIN open[s].writes = {}
  BY <1>1, <1>2, <1>4, InitShape
<1>6. Typed(types)
  BY <1>1, <1>3, <1>4, AdministrationThere, TypedStarts
<1>7. rows \in sound
  BY <1>5, <1>6, TypedTables, TablesAre, <1>2, <1>3 DEF Table, Contract, Absent, OnePending,
     AdministrationSound
<1>8. StaySound(sound)
  BY <1>1, <1>5, <1>7, SoundStarts
<1>9. AdministrationFits(types, sound)
  BY <1>1, <1>2, <1>3, <1>5, <1>6, <1>8 DEF AdministrationFits
<1>10. /\ \A s \in Sessions : \A r, c : ~Sends(s, r, c)
       /\ NeverRemoves
  BY <1>5 DEF Sends, NeverRemoves
<1>11. \A r \in DOMAIN rows : There(r) => r = Contract
  BY <1>4 DEF There, Absent
<1>12. ASSUME desk = "reminders" PROVE LettersAre
  BY <1>9, <1>12, ReminderTables, <1>11, <1>4, <1>10 DEF Table, Contract, Quiet, Says,
     LettersAre
<1>13. ASSUME desk = "answers" PROVE AnswersAre
  BY <1>9, <1>13, AnswerTables, <1>4, <1>11, <1>10 DEF Table, Contract, Leave, Answers,
     AnswersAre
<1>14. ASSUME desk = "inbox" PROVE CopiesAre
  <2>1. \A r \in Table("inbox") \cup Table("copies") : r \in DOMAIN rows /\ r # Contract
    BY DEF Table, Contract
  <2>2. \A who : MailedTo(who) = {} /\ CopiesTo(who) = {}
    BY <1>11, <2>1 DEF MailedTo, CopiesTo
  <2>3. \A s \in Sessions : TellsRight(s)
    BY <1>10 DEF TellsRight, Silent, Counts
  <2> QED BY <1>10, <2>2, <2>3 DEF CopiesAre
<1> QED BY <1>3, <1>9, <1>12, <1>13, <1>14 DEF AdministrationInv

\* Every step keeps them.
LEMMA AdministrationGoesOn == AdministrationInv /\ [AdministrationNext]_storeVars => AdministrationInv'
<1> SUFFICES ASSUME AdministrationInv, [AdministrationNext]_storeVars PROVE AdministrationInv'
  OBVIOUS
<1>1. PICK types, sound : types = AdministrationTypes /\ sound = AdministrationSound
  OBVIOUS
<1>2. /\ AdministrationFits(types, sound) /\ Shape /\ desk \in DOMAIN AdministrationIds
      /\ DOMAIN rows = AdministrationIds[desk] /\ Typed(types) /\ StaySound(sound)
  BY <1>1 DEF AdministrationInv, AdministrationFits
<1>3. \/ \E s \in Sessions : AdministrationStep(s)
      \/ \E s \in Sessions : \E accepted : Commit(s, accepted)
      \/ \E s \in Sessions : Abort(s)
      \/ UNCHANGED storeVars
  BY DEF AdministrationNext
<1>4. SoundMove(types, sound)
  BY <1>2, AdministrationWrites, <1>3 DEF AdministrationInv, LettersAre, AnswersAre,
     SoundMove
<1>5. Shape' /\ Typed(types)' /\ StaySound(sound)' /\ Alike
  BY <1>2, <1>4, SoundMoves
<1>6. AdministrationTypes' = types /\ AdministrationSound' = sound
  BY <1>1, <1>5, AdministrationStays
<1>7. desk' = desk /\ DOMAIN rows' = DOMAIN rows /\ AdministrationIds' = AdministrationIds
  BY <1>5 DEF Alike, AdministrationIds, OneOf, Expiries
<1>8. AdministrationFits(AdministrationTypes, AdministrationSound)'
  BY <1>2, <1>5, <1>6, <1>7 DEF AdministrationFits
<1>9. ASSUME desk = "reminders" PROVE LettersAre'
  BY <1>9, <1>2, <1>3, LettersGoOn DEF AdministrationStep, AdministrationInv
<1>10. ASSUME desk = "answers" PROVE AnswersAre'
  BY <1>10, <1>2, <1>3, AnswersGoOn DEF AdministrationStep, AdministrationInv
<1>11. ASSUME desk = "inbox" PROVE CopiesAre'
  BY <1>11, <1>2, <1>3, CopiesGoOn DEF AdministrationStep, AdministrationInv
<1> QED BY <1>7, <1>8, <1>9, <1>10, <1>11 DEF AdministrationInv

\* The rows of each table as records.
LEMMA AdministrationRowsAre ==
    ASSUME NEW row
    PROVE  /\ IsRow(row, RoleTypes) => row \in RoleRows
           /\ IsRow(row, RequestTypes) => row \in RequestRows
           /\ IsRow(row, ContractTypes) => row \in ContractRows
           /\ IsRow(row, RuleTypes) => row \in RuleRows
           /\ IsRow(row, LeaveTypes) => row \in LeaveStates
           /\ IsRow(row, LetterTypes) => row \in LetterRows
           /\ IsRow(row, NoticeTypes) => row \in NoticeRows
           /\ IsRow(row, InboxTypes) => row \in InboxRows
           /\ IsRow(row, CopyTypes) => row \in CopyRows
           /\ IsRow(row, ScorecardTypes) => row \in ScorecardRows
           /\ IsRow(row, OpportunityTypes) => row \in OpportunityRows
           /\ IsRow(row, MarkTypes) => row \in [there : {TRUE}]
<1>1. IsRow(row, RoleTypes) => row \in RoleRows
  BY RoleColumns DEF IsRow, RoleRows
<1>2. IsRow(row, RequestTypes) => row \in RequestRows
  BY RequestColumns DEF IsRow, RequestRows
<1>3. IsRow(row, ContractTypes) => row \in ContractRows
  BY ContractColumns DEF IsRow, ContractRows
<1>4. IsRow(row, RuleTypes) => row \in RuleRows
  BY RuleColumns DEF IsRow, RuleRows
<1>5. IsRow(row, LeaveTypes) => row \in LeaveStates
  BY LeaveColumns, LeaveKeys DEF IsRow, LeaveStates
<1>6. IsRow(row, LetterTypes) => row \in LetterRows
  BY LetterColumns DEF IsRow, LetterRows
<1>7. IsRow(row, NoticeTypes) => row \in NoticeRows
  BY NoticeColumns DEF IsRow, NoticeRows
<1>8. IsRow(row, InboxTypes) => row \in InboxRows
  BY InboxColumns DEF IsRow, InboxRows
<1>9. IsRow(row, CopyTypes) => row \in CopyRows
  BY CopyColumns DEF IsRow, CopyRows
<1>10. IsRow(row, ScorecardTypes) => row \in ScorecardRows
  BY ScorecardColumns DEF IsRow, ScorecardRows
<1>11. IsRow(row, OpportunityTypes) => row \in OpportunityRows
  BY OpportunityColumns DEF IsRow, OpportunityRows
<1>12. IsRow(row, MarkTypes) => row \in [there : {TRUE}]
  BY MarkColumns DEF IsRow
<1> QED BY <1>1, <1>2, <1>3, <1>4, <1>5, <1>6, <1>7, <1>8, <1>9, <1>10, <1>11, <1>12

\* Which desk has which table.
LEMMA AdministrationWhere ==
    ASSUME NEW types, NEW sound, AdministrationFits(types, sound)
    PROVE  /\ desk # "reminders" => Table("reminders") = {}
           /\ desk # "answers" => Table("leaves") = {}
           /\ desk # "inbox" => Table("inbox") = {} /\ Table("copies") = {}
           /\ desk # "downloads" => Table("requests") = {}
           /\ \A l \in Table("leaves") : l = Leave
           /\ \A r \in DOMAIN rows :
                 \/ r[1] \in {"roles", "requests", "contracts", "rules", "leaves", "letters"}
                 \/ r[1] \in {"reminders", "inbox", "copies", "scorecards", "opportunities"}
                 \/ r[1] \in MarkTables
  BY AdministrationHas, AdministrationNames, OfficeDesks DEF Table, Leave, MarkTables

\* What they say of the rows,
LEMMA AdministrationTyped == AdministrationInv => AdministrationTypeOK
<1> SUFFICES ASSUME AdministrationInv, NEW r \in DOMAIN rows, There(r)
             PROVE  rows[r] \in AdministrationRows(r)
  BY DEF AdministrationTypeOK
<1>1. PICK types, sound : types = AdministrationTypes /\ sound = AdministrationSound
  OBVIOUS
<1>2. AdministrationFits(types, sound)
  BY <1>1 DEF AdministrationInv
<1>3. PICK name : name = r[1]
  OBVIOUS
<1>4. r \in Live(name) /\ r \in Table(name)
  BY <1>3 DEF Live, Table
<1>5. IsRow(rows[r], types[r])
  BY <1>2, <1>4, AdministrationRow
<1>6. \/ name \in {"roles", "requests", "contracts", "rules", "leaves", "letters"}
      \/ name \in {"reminders", "inbox", "copies", "scorecards", "opportunities"}
      \/ name \in MarkTables
  BY <1>2, <1>3, AdministrationWhere
<1>7. /\ name = "roles" => types[r] = RoleTypes
      /\ name = "requests" => types[r] = RequestTypes
      /\ name = "contracts" => types[r] = ContractTypes
      /\ name = "rules" => types[r] = RuleTypes
      /\ name = "leaves" => types[r] = LeaveTypes
      /\ name = "letters" => types[r] = LetterTypes
      /\ name = "reminders" => types[r] = NoticeTypes
      /\ name = "inbox" => types[r] = InboxTypes
      /\ name = "copies" => types[r] = CopyTypes
      /\ name = "scorecards" => types[r] = ScorecardTypes
      /\ name = "opportunities" => types[r] = OpportunityTypes
      /\ name \in MarkTables => types[r] = MarkTypes
  BY <1>1, <1>4, AdministrationTyping
<1>8. CASE name \in {"roles", "requests", "contracts", "rules", "leaves", "letters"}
  BY <1>3, <1>5, <1>7, <1>8, AdministrationRowsAre DEF AdministrationRows
<1>9. CASE name \in {"reminders", "inbox", "copies", "scorecards", "opportunities"}
  BY <1>3, <1>5, <1>7, <1>9, AdministrationRowsAre DEF AdministrationRows
<1>10. CASE name \in MarkTables
  BY <1>5, <1>7, <1>10, AdministrationRowsAre, <1>3 DEF AdministrationRows, MarkTables
<1> QED BY <1>6, <1>8, <1>9, <1>10

\* and of what is told.
LEMMA AdministrationTells == AdministrationInv => TellsOnce
  BY AdministrationWhere, OneAtMost, AdministrationRow, TypedTables, AdministrationAsks DEF
     AdministrationInv, Live, Table, LettersAre, AnswersAre, AnswerTo, MailedTo, CopiesTo,
     CopiesAre, PendingOf, AdministrationFits, StaySound, OnePending, TellsOnce

LEMMA AdministrationSays == AdministrationInv => AdministrationTypeOK /\ TellsOnce
  BY AdministrationTyped, AdministrationTells

-----------------------------------------------------------------------------
(* The whole office. *)

\* At each of the other desks, too, only its own requests are made.
LEMMA OwnHeadOffice ==
    ASSUME [OfficeNext]_storeVars
    PROVE  /\ desk \in DOMAIN AccountTables => [AccountsNext]_storeVars
           /\ desk \in DOMAIN AdministrationIds => [AdministrationNext]_storeVars
  BY OfficeDesks DEF OfficeNext, PersonnelNext, RosterNext, BookingNext, AccountsNext,
     WorkbookNext, AdministrationNext, BookingDesks, WorkbookDesks

\* What is open is one of the desks, as its invariant says.
WhichDesk ==
    \/ desk \in DOMAIN PersonnelTables \/ RosterInv
    \/ desk \in BookingDesks /\ Stored
    \/ AccountsInv \/ ShelfInv \/ AdministrationInv

LEMMA WhichDeskBegins == OfficeInit => WhichDesk
  BY StoredBegins, RosterBegins, AccountsBegin, ShelfBegins, AdministrationBegins DEF
     PersonnelInit, BookingInit, OfficeInit, WhichDesk

LEMMA WhichDeskGoesOn ==
    OfficeInv /\ WhichDesk /\ [OfficeNext]_storeVars => WhichDesk'
<1> SUFFICES ASSUME OfficeInv, WhichDesk, [OfficeNext]_storeVars PROVE WhichDesk'
  OBVIOUS
<1>1. desk' = desk
  BY OneOffice DEF Alike, storeVars
<1>2. CASE desk \in DOMAIN PersonnelTables
  <2>1. PersonnelTables' = PersonnelTables
    BY Zenon DEF PersonnelTables
  <2> QED BY <1>1, <1>2, <2>1 DEF WhichDesk
<1>3. CASE RosterInv
  BY <1>3, OwnOffice, RosterGoesOn DEF RosterInv, RosterFits, WhichDesk
<1>4. CASE desk \in BookingDesks /\ Stored
  BY <1>4, OwnOffice, BookingsStored, <1>1 DEF OfficeInv, BookingDesks, WhichDesk
<1>5. CASE AccountsInv
  BY <1>5, OwnHeadOffice, AccountsGoOn DEF AccountsInv, AccountFits, WhichDesk
<1>6. CASE ShelfInv
  BY <1>6, OwnOffice, ShelfGoesOn DEF ShelfInv, ShelfFits, WhichDesk
<1>7. CASE AdministrationInv
  BY <1>7, OwnHeadOffice, AdministrationGoesOn DEF AdministrationInv, AdministrationFits,
     WhichDesk
<1> QED BY <1>2, <1>3, <1>4, <1>5, <1>6, <1>7 DEF WhichDesk

\* What a desk has staged or locked is in its tables.
LEMMA DeskStores == OfficeInv /\ WhichDesk => StoreTypeOK
  BY TypedStore, StoredIs DEF OfficeInv, PersonnelInv, PersonnelFits, RosterInv, RosterFits,
     BookingInv, AccountsInv, AccountFits, ShelfInv, ShelfFits, AdministrationInv,
     AdministrationFits, WhichDesk

\* What a desk keeps is typed and sound; of the others nothing is said.
LEMMA DeskSays ==
    OfficeInv /\ WhichDesk
        => /\ RosterTypeOK /\ AccountsTypeOK /\ WorkbookTypeOK /\ AdministrationTypeOK
           /\ RosterIsSound /\ SignsInWithWorkMail /\ TellsOnce
<1> SUFFICES ASSUME OfficeInv, WhichDesk
             PROVE  /\ RosterTypeOK /\ AccountsTypeOK /\ WorkbookTypeOK /\ AdministrationTypeOK
                    /\ RosterIsSound /\ SignsInWithWorkMail /\ TellsOnce
  OBVIOUS
<1>1. desk \notin DOMAIN RosterTables => RosterTypeOK /\ RosterIsSound
  BY DEF RosterTypeOK, RosterIsSound
<1>2. desk \notin DOMAIN AccountTables => AccountsTypeOK /\ SignsInWithWorkMail
  BY OfficeDesks DEF AccountsTypeOK, SignsInWithWorkMail
<1>3. desk \notin WorkbookDesks => WorkbookTypeOK
  BY DEF WorkbookTypeOK
<1>4. desk \notin DOMAIN AdministrationIds => AdministrationTypeOK /\ TellsOnce
  BY DEF AdministrationTypeOK, TellsOnce
<1>5. /\ RosterInv => desk \in DOMAIN RosterTables
      /\ AccountsInv => desk \in DOMAIN AccountTables
      /\ ShelfInv => desk \in WorkbookDesks
      /\ AdministrationInv => desk \in DOMAIN AdministrationIds
  BY DEF RosterInv, RosterFits, AccountsInv, AccountFits, ShelfInv, ShelfFits,
     AdministrationInv, AdministrationFits
<1>6. /\ desk \in DOMAIN PersonnelTables
           => desk \notin DOMAIN RosterTables \cup DOMAIN AccountTables \cup WorkbookDesks
                              \cup DOMAIN AdministrationIds
      /\ desk \in DOMAIN RosterTables
           => desk \notin DOMAIN AccountTables \cup WorkbookDesks \cup DOMAIN AdministrationIds
      /\ desk \in BookingDesks
           => desk \notin DOMAIN RosterTables \cup DOMAIN AccountTables \cup WorkbookDesks
                              \cup DOMAIN AdministrationIds
      /\ desk \in DOMAIN AccountTables
           => desk \notin DOMAIN RosterTables \cup WorkbookDesks \cup DOMAIN AdministrationIds
      /\ desk \in WorkbookDesks
           => desk \notin DOMAIN RosterTables \cup DOMAIN AccountTables
                              \cup DOMAIN AdministrationIds
      /\ desk \in DOMAIN AdministrationIds
           => desk \notin DOMAIN RosterTables \cup DOMAIN AccountTables \cup WorkbookDesks
  BY OfficeDesks DEF BookingDesks, WorkbookDesks
<1>7. CASE RosterInv
  BY <1>2, <1>3, <1>4, <1>5, <1>6, <1>7, RosterSays
<1>8. CASE AccountsInv
  BY <1>1, <1>3, <1>4, <1>5, <1>6, <1>8, AccountsSay
<1>9. CASE ShelfInv
  BY <1>1, <1>2, <1>4, <1>5, <1>6, <1>9, ShelfSays
<1>10. CASE AdministrationInv
  BY <1>1, <1>2, <1>3, <1>5, <1>6, <1>10, AdministrationSays
<1>11. CASE desk \in DOMAIN PersonnelTables \cup BookingDesks
  BY <1>1, <1>2, <1>3, <1>4, <1>6, <1>11
<1> QED BY <1>7, <1>8, <1>9, <1>10, <1>11 DEF WhichDesk

LEMMA DesksGoOn == OfficeSpec => [](OfficeInv /\ WhichDesk)
  BY OfficeStarts, OfficeSteps, WhichDeskBegins, WhichDeskGoesOn, PTL DEF OfficeSpec

\* Every row of every desk has the columns of its table, and what requests have staged
\* and locked is in the tables, whatever is asked of the desk and in whatever order
\* (the models' columns).
THEOREM OfficeIsTyped == OfficeSpec => []OfficeTypeOK
<1>1. OfficeInv /\ WhichDesk => StoreTypeOK
  BY DeskStores
<1>2. OfficeInv /\ WhichDesk
        => RosterTypeOK /\ AccountsTypeOK /\ WorkbookTypeOK /\ AdministrationTypeOK
  BY DeskSays
<1>3. StoreTypeOK /\ PersonnelTypeOK /\ RosterTypeOK /\ BookingTypeOK
        /\ AccountsTypeOK /\ WorkbookTypeOK /\ AdministrationTypeOK => OfficeTypeOK
  BY DEF OfficeTypeOK
<1> QED BY <1>1, <1>2, <1>3, DesksGoOn, RecordsStaySound, LeaveNeverOverlaps, PTL

\* As long as no request commits on rows that had changed since it read them: the
\* records of every desk of personnel fit together; an employee works on one primary
\* assignment, however assignments are opened, changed, completed and transferred, and
\* the days of a timesheet are of the report it was saved from (_reject_primary_conflict,
\* transfer, _save_employee_timesheet); who signs in does so with the mail of the record
\* (link_account, change_email); and nobody has two downloads of a document pending.  Whoever is
\* overlapped: a day of expiry has one letter if it has a notice, and none otherwise, a
\* leave has an answer, and there is one mail for every notice that is told or forwarded by
\* mail (generate_alerts, notify_leave, forward_notification).
THEOREM OfficeStaysSound == OfficeSpec => []OfficeIsSound
<1>1. OfficeInv /\ WhichDesk => RosterIsSound /\ SignsInWithWorkMail /\ TellsOnce
  BY DeskSays
<1>2. RecordsAreSound /\ RosterIsSound /\ SignsInWithWorkMail /\ TellsOnce => OfficeIsSound
  BY DEF OfficeIsSound
<1> QED BY <1>1, <1>2, DesksGoOn, RecordsStaySound, PTL
=============================================================================
