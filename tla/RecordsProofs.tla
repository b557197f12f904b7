----------------------------- MODULE RecordsProofs -----------------------------
(***************************************************************************)
(* Theorems of EquipmentFleet (the shape of the rows, one active            *)
(* assignment, archived machines idle, history final, and a meter that      *)
(* follows its readings), of MaintenanceJobs and WorkOrders, for any number *)
(* of assignments, readings, jobs, cost lines and overlapping requests, and *)
(* of MCRecords, where a behaviour is one of the machines, of the jobs or   *)
(* of the orders.                                                           *)
(***************************************************************************)
EXTENDS MCRecords, FiniteSetTheorems, TLAPS

-----------------------------------------------------------------------------
(* Machines. *)

Machines == [status : AssetStatus, active : BOOLEAN,
             mtype : MeterTypes \cup {"NONE"}, meter : Meters]

\* What MeterFollows says, of any machine and log.
Shows(a, rs) ==
    \A j \in DOMAIN rs :
        (rs[j].type = a.mtype /\ \A k \in DOMAIN rs : rs[k].type = a.mtype => k <= j)
            => a.meter = rs[j].value

Earlier(rs, j) == {i \in 1..(j - 1) : rs[i].type = rs[j].type}

FallsOnTies(rs) ==
    \A j \in DOMAIN rs : \A i \in Earlier(rs, j) :
        (/\ \A k \in Earlier(rs, j) : k <= i
         /\ rs[j].value < rs[i].value
         /\ ~rs[j].adjusted)
            => \E k \in Earlier(rs, j) \ {i} : rs[k].at = rs[i].at

\* What makes it inductive: readings of a type are inserted in the order of
\* their recorded_at.
Chronological(rs) ==
    \A i, j \in DOMAIN rs :
        i < j /\ rs[i].type = rs[j].type => rs[i].at <= rs[j].at

Tidy(a, rs) == Shows(a, rs) /\ FallsOnTies(rs) /\ Chronological(rs)

IInv ==
    /\ FleetTypeOK
    /\ OneActive
    /\ ArchivedIsIdle
    /\ ~edited => Tidy(asset, readings)

-----------------------------------------------------------------------------
(* One reading. *)

\* The times and values of a reading are integers.
LEMMA RowInts ==
    ASSUME NEW r \in ReadingRows
    PROVE  r.at \in Int /\ r.value \in Int
  <1>1. r.at \in Instants /\ r.value \in Readings
    BY DEF ReadingRows
  <1>2. Instants \subseteq Int /\ Readings \subseteq Int
    BY FleetAssumption DEF FleetAssumption
  <1> QED BY <1>1, <1>2

\* A row is one of the readings of the log or the one that is appended.
LEMMA Appended ==
    ASSUME NEW rs \in Seq(ReadingRows), NEW r \in ReadingRows
    PROVE  /\ Append(rs, r) \in Seq(ReadingRows)
           /\ DOMAIN rs = 1..Len(rs) /\ Len(rs) \in Nat
           /\ DOMAIN Append(rs, r) = 1..(Len(rs) + 1)
           /\ \A i \in 1..Len(rs) : Append(rs, r)[i] = rs[i] /\ rs[i] \in ReadingRows
           /\ Append(rs, r)[Len(rs) + 1] = r
  OBVIOUS

\* Of the two times a reading carries, the one of the latest bounds all.
LEMMA LatestIsLast ==
    ASSUME NEW rs \in Seq(ReadingRows), NEW type, NEW i \in Latest(rs, type)
    PROVE  /\ i \in 1..Len(rs) /\ rs[i].type = type
           /\ \A j \in 1..Len(rs) : rs[j].type = type => rs[j].at <= rs[i].at
  BY RowInts DEF Latest

\* A reading moves nothing of the machine but its meter.
LEMMA MeteredType ==
    ASSUME NEW a \in Machines, NEW r \in ReadingRows
    PROVE  /\ Metered(a, r) \in Machines
           /\ Metered(a, r).active = a.active
           /\ Metered(a, r).status = a.status
           /\ Metered(a, r).mtype = a.mtype
           /\ r.type = a.mtype => Metered(a, r).meter = r.value
           /\ r.type # a.mtype => Metered(a, r).meter = a.meter
  BY DEF Metered, Machines, ReadingRows, Meters

\* _meter keeps the log in order and the machine true to it.
LEMMA RecordKeeps ==
    ASSUME NEW a \in Machines, NEW rs \in Seq(ReadingRows), NEW r \in ReadingRows,
           Acceptable(rs, r), Tidy(a, rs)
    PROVE  Tidy(Metered(a, r), Append(rs, r))
  <1> DEFINE new == Append(rs, r)
             n == Len(rs)
  <1>1. /\ DOMAIN rs = 1..n /\ n \in Nat /\ DOMAIN new = 1..(n + 1)
        /\ \A i \in 1..n : new[i] = rs[i] /\ rs[i] \in ReadingRows
        /\ new[n + 1] = r
    BY Appended
  <1>2. \A i \in 1..n : rs[i].at \in Int /\ rs[i].value \in Int
    BY <1>1, RowInts
  <1>3. r.at \in Int /\ r.value \in Int
    BY RowInts
  <1> HIDE DEF new, n
  <1>4. \A i \in 1..n : rs[i].type = r.type => rs[i].at <= r.at
    <2>1. CASE \A i \in 1..n : rs[i].type # r.type
      BY <2>1
    <2>2. CASE \E i \in Latest(rs, r.type) : r.at >= rs[i].at
      BY <2>2, LatestIsLast, <1>2, <1>3 DEF n
    <2> QED BY <2>1, <2>2, <1>1 DEF Acceptable
  <1>5. Chronological(new)
    BY <1>1, <1>4 DEF Chronological, Tidy
  <1>6. FallsOnTies(new)
    <2> SUFFICES ASSUME NEW j \in 1..(n + 1), NEW i \in Earlier(new, j),
                        \A k \in Earlier(new, j) : k <= i,
                        new[j].value < new[i].value, ~new[j].adjusted
                 PROVE  \E k \in Earlier(new, j) \ {i} : new[k].at = new[i].at
      BY <1>1 DEF FallsOnTies
    <2>1. i \in 1..n /\ i < j
      BY <1>1 DEF Earlier
    <2>2. CASE j \in 1..n
      <3>1. Earlier(new, j) = Earlier(rs, j)
        BY <2>2, <1>1 DEF Earlier
      <3>2. \E k \in Earlier(rs, j) \ {i} : rs[k].at = rs[i].at
        BY <3>1, <2>1, <2>2, <1>1 DEF Tidy, FallsOnTies
      <3>3. PICK k \in Earlier(rs, j) \ {i} : rs[k].at = rs[i].at
        BY <3>2
      <3>4. k \in 1..n
        BY <2>2, <1>1 DEF Earlier
      <3> QED BY <3>1, <3>3, <3>4, <2>1, <1>1
    <2>3. CASE j = n + 1
      <3>1. Earlier(new, j) = {k \in 1..n : rs[k].type = r.type}
        BY <2>3, <1>1 DEF Earlier
      <3>2. PICK k \in Latest(rs, r.type) :
                    r.at >= rs[k].at /\ (r.value >= rs[k].value \/ r.adjusted)
        BY <3>1, <1>1 DEF Acceptable
      <3>3. /\ k \in 1..n /\ rs[k].type = r.type
            /\ \A m \in 1..n : rs[m].type = r.type => rs[m].at <= rs[k].at
        BY LatestIsLast DEF n
      <3>4. ~r.adjusted /\ r.value < rs[i].value /\ rs[i].type = r.type
        BY <2>1, <2>3, <3>1, <1>1
      <3>5. k # i
        BY <3>2, <3>4, <3>3, <1>2, <1>3
      <3>6. k <= i
        BY <3>1, <3>3
      <3>7. rs[k].at <= rs[i].at
        BY <3>3, <3>4, <3>5, <3>6, <2>1, <1>1 DEF Tidy, Chronological
      <3>8. rs[i].at <= rs[k].at
        BY <3>3, <3>4, <2>1
      <3>9. rs[k].at = rs[i].at
        BY <3>7, <3>8, <3>3, <2>1, <1>2
      <3> QED BY <3>1, <3>3, <3>5, <3>9, <2>1, <1>1
    <2> QED BY <2>2, <2>3, <1>1
  <1>7. Shows(Metered(a, r), new)
    <2> DEFINE b == Metered(a, r)
    <2>1. /\ b.mtype = a.mtype
          /\ r.type = a.mtype => b.meter = r.value
          /\ r.type # a.mtype => b.meter = a.meter
      BY MeteredType
    <2> HIDE DEF b
    <2> SUFFICES ASSUME NEW j \in 1..(n + 1), new[j].type = a.mtype,
                        \A k \in 1..(n + 1) : new[k].type = a.mtype => k <= j
                 PROVE  b.meter = new[j].value
      BY <1>1, <2>1 DEF Shows, b
    <2>2. CASE r.type = a.mtype
      BY <2>2, <1>1, <2>1
    <2>3. CASE r.type # a.mtype
      BY <2>3, <1>1, <2>1 DEF Tidy, Shows
    <2> QED BY <2>2, <2>3
  <1> QED BY <1>5, <1>6, <1>7 DEF Tidy, new

\* An accepted reading leaves the log tidy.
LEMMA AppendKeeps ==
    ASSUME NEW a \in Machines, NEW rs \in Seq(ReadingRows), NEW r \in ReadingRows,
           Acceptable(rs, r)
    PROVE  /\ Append(rs, r) \in Seq(ReadingRows)
           /\ Tidy(a, rs) => Tidy(Metered(a, r), Append(rs, r))
  BY RecordKeeps, Appended

\* So does the reading an assignment notes.
LEMMA NotedKeeps ==
    ASSUME NEW a \in Machines, NEW rs \in Seq(ReadingRows), NEW value \in Meters,
           NEW at \in Instants, NEW stamp \in Nat, CanNote(a, rs, value, at, stamp)
    PROVE  /\ Noted(a, rs, value, at, stamp).machine \in Machines
           /\ Noted(a, rs, value, at, stamp).machine.active = a.active
           /\ Noted(a, rs, value, at, stamp).machine.status = a.status
           /\ Noted(a, rs, value, at, stamp).machine.mtype = a.mtype
           /\ Noted(a, rs, value, at, stamp).log \in Seq(ReadingRows)
           /\ Tidy(a, rs) => Tidy(Noted(a, rs, value, at, stamp).machine,
                                  Noted(a, rs, value, at, stamp).log)
  <1>1. CASE value = NoReading
    BY <1>1 DEF Noted
  <1>2. CASE value # NoReading
    <2> DEFINE r == Reading(a.mtype, value, at, FALSE, stamp)
    <2>1. a.mtype \in MeterTypes
      BY <1>2 DEF CanNote, Machines
    <2>2. value \in Readings
      BY <1>2 DEF Meters
    <2>3. r \in ReadingRows
      BY <2>1, <2>2 DEF Reading, ReadingRows
    <2>4. Acceptable(rs, r)
      BY <1>2 DEF CanNote
    <2>5. /\ Noted(a, rs, value, at, stamp).machine = Metered(a, r)
          /\ Noted(a, rs, value, at, stamp).log = Append(rs, r)
      BY <1>2 DEF Noted
    <2> HIDE DEF r
    <2>6. /\ Metered(a, r) \in Machines
          /\ Metered(a, r).active = a.active
          /\ Metered(a, r).status = a.status
          /\ Metered(a, r).mtype = a.mtype
      BY <2>3, MeteredType
    <2>7. /\ Append(rs, r) \in Seq(ReadingRows)
          /\ Tidy(a, rs) => Tidy(Metered(a, r), Append(rs, r))
      BY <2>3, <2>4, AppendKeeps
    <2> QED BY <2>5, <2>6, <2>7
  <1> QED BY <1>1, <1>2

\* Tidy asks nothing of the status.
LEMMA TidyDepends ==
    ASSUME NEW a, NEW b, NEW rs, a.mtype = b.mtype, a.meter = b.meter, Tidy(a, rs)
    PROVE  Tidy(b, rs)
  BY DEF Tidy, Shows

-----------------------------------------------------------------------------
(* The machine and the assignments. *)

\* A status that is set changes nothing else.
LEMMA StatusSet ==
    ASSUME NEW a \in Machines, NEW status \in AssetStatus
    PROVE  /\ [a EXCEPT !.status = status] \in Machines
           /\ [a EXCEPT !.status = status].status = status
           /\ [a EXCEPT !.status = status].active = a.active
           /\ [a EXCEPT !.status = status].mtype = a.mtype
           /\ [a EXCEPT !.status = status].meter = a.meter
  BY DEF Machines

\* Giving a machine back changes its status alone, and never from DISPOSED.
LEMMA ReleasedType ==
    ASSUME NEW a \in Machines
    PROVE  /\ Released(a) \in Machines
           /\ Released(a).active = a.active
           /\ Released(a).mtype = a.mtype
           /\ Released(a).meter = a.meter
           /\ a.status = "DISPOSED" => Released(a).status = "DISPOSED"
  BY StatusSet DEF AssetStatus, Released

AssignmentTable == [AssignmentIds -> {Absent} \cup AssignmentRows]

\* Superseding completes active assignments and touches no other.
LEMMA SupersededType ==
    ASSUME assignments \in AssignmentTable, NEW x \in AssignmentIds
    PROVE  /\ Superseded(x) \in AssignmentTable
           /\ \A y \in AssignmentIds :
                 /\ y # x => Superseded(x)[y].status # "ACTIVE"
                 /\ assignments[y].status # "ACTIVE" => Superseded(x)[y] = assignments[y]
                 /\ y = x => Superseded(x)[y] = assignments[y]
  BY DEF Superseded, AssignmentTable, Active, Absent, AssignmentRows, Closed

\* What the assignments keep, of the table before and after a step.
History ==
    \A x \in AssignmentIds :
        assignments[x].status \in Closed => assignments'[x] = assignments[x]

FinalStep ==
    /\ History
    /\ asset.status = "DISPOSED" => asset'.status = "DISPOSED"

\* A row of an open assignment is written and every other active one ended.
LEMMA StartKeeps ==
    ASSUME assignments \in AssignmentTable, NEW x \in AssignmentIds,
           NEW row \in AssignmentRows, assignments[x].status \notin Closed,
           assignments' = [Superseded(x) EXCEPT ![x] = row]
    PROVE  assignments' \in AssignmentTable /\ OneActive' /\ History
  BY SupersededType DEF AssignmentTable, OneActive, Active, History, Closed

\* A row is written and is not active afterwards.
LEMMA WriteKeeps ==
    ASSUME assignments \in AssignmentTable, OneActive, NEW x \in AssignmentIds,
           NEW row \in AssignmentRows, assignments[x].status \notin Closed,
           row.status # "ACTIVE",
           assignments' = [assignments EXCEPT ![x] = row]
    PROVE  assignments' \in AssignmentTable /\ OneActive' /\ History /\ Active' \subseteq Active
  BY DEF AssignmentTable, Active, OneActive, History

\* A new assignment is a row.
LEMMA NewRow ==
    ASSUME NEW status \in {"PLANNED", "ACTIVE"}, NEW at \in Instants, NEW start \in Meters
    PROVE  NewAssignment(status, at, start) \in AssignmentRows
           /\ NewAssignment(status, at, start).status = status
  BY DEF NewAssignment, AssignmentRows

\* A row with another status is a row.
LEMMA RowStatus ==
    ASSUME assignments \in AssignmentTable, NEW x \in AssignmentIds,
           assignments[x].status # "ABSENT",
           NEW status \in {"PLANNED", "ACTIVE"} \cup Closed
    PROVE  /\ assignments[x] \in AssignmentRows
           /\ [assignments[x] EXCEPT !.status = status] \in AssignmentRows
           /\ [assignments[x] EXCEPT !.status = status].status = status
  BY DEF AssignmentTable, Absent, AssignmentRows

-----------------------------------------------------------------------------
(* The actions. *)

\* What the steps below use of the invariant.
LEMMA Holds ==
    ASSUME IInv
    PROVE  /\ asset \in Machines
           /\ assignments \in AssignmentTable
           /\ readings \in Seq(ReadingRows)
           /\ edited \in BOOLEAN
           /\ OneActive
           /\ ~asset.active => Active = {}
           /\ ~edited => Tidy(asset, readings)
  BY DEF IInv, FleetTypeOK, Machines, AssignmentTable, ArchivedIsIdle

\* What a step has to show for the invariant.
LEMMA Concludes ==
    ASSUME asset' \in Machines, assignments' \in AssignmentTable,
           readings' \in Seq(ReadingRows), edited' \in BOOLEAN, OneActive',
           ~asset'.active => Active' = {},
           ~edited' => Tidy(asset', readings')
    PROVE  IInv'
  BY DEF IInv, FleetTypeOK, Machines, AssignmentTable, ArchivedIsIdle

\* Only an active machine that is not disposed of is put to work.
LEMMA EligibleFacts ==
    ASSUME NEW a, Eligible(a)
    PROVE  a.active /\ a.status # "DISPOSED"
  BY DEF Eligible

\* A machine that is put to work, with the reading it starts from.
LEMMA WorkKeeps ==
    ASSUME IInv, Eligible(asset), NEW start \in Meters, NEW at \in Instants,
           NEW stamp \in Nat, NEW a, a = [asset EXCEPT !.status = "ASSIGNED"],
           CanNote(a, readings, start, at, stamp),
           asset' = Noted(a, readings, start, at, stamp).machine,
           readings' = Noted(a, readings, start, at, stamp).log,
           edited' = edited
    PROVE  /\ asset' \in Machines /\ asset'.active
           /\ readings' \in Seq(ReadingRows)
           /\ ~edited' => Tidy(asset', readings')
  <1>1. asset \in Machines /\ readings \in Seq(ReadingRows)
        /\ (~edited => Tidy(asset, readings))
    BY Holds
  <1>2. "ASSIGNED" \in AssetStatus
    BY DEF AssetStatus
  <1>3. a \in Machines /\ a.active = asset.active /\ a.mtype = asset.mtype
        /\ a.meter = asset.meter
    BY <1>1, <1>2, StatusSet
  <1>4. ~edited => Tidy(a, readings)
    BY <1>1, <1>3, TidyDepends
  <1>5. asset.active
    BY EligibleFacts
  <1> QED BY <1>1, <1>3, <1>4, <1>5, NotedKeeps

\* The action Start keeps the invariant.
LEMMA StartStep ==
    ASSUME IInv, NEW x \in AssignmentIds, NEW at \in Instants, NEW start \in Meters,
           NEW stamp \in Nat, StartAssignment(x, at, start, stamp)
    PROVE  IInv' /\ FinalStep
  BY WorkKeeps, NewRow, Holds, StartKeeps, Concludes, EligibleFacts DEF StartAssignment,
     MayAssign, Closed, FinalStep

\* The action Activate keeps the invariant.
LEMMA ActivateStep ==
    ASSUME IInv, NEW x \in AssignmentIds, NEW now \in Instants, NEW stamp \in Nat,
           ActivateAssignment(x, now, stamp)
    PROVE  IInv' /\ FinalStep
  <1>1. Eligible(asset)
    BY DEF ActivateAssignment
  <1>2. assignments \in AssignmentTable /\ assignments[x].status = "PLANNED"
    BY Holds DEF ActivateAssignment
  <1>3. assignments[x] \in AssignmentRows
    BY <1>2, RowStatus
  <1>4. assignments[x].start \in Meters /\ assignments[x].at \in Instants
    BY <1>3 DEF AssignmentRows
  <1>5. /\ asset' \in Machines /\ asset'.active
        /\ readings' \in Seq(ReadingRows)
        /\ ~edited' => Tidy(asset', readings')
    BY <1>1, <1>4, WorkKeeps DEF ActivateAssignment
  <1>6. Superseded(x) \in AssignmentTable /\ Superseded(x)[x] = assignments[x]
    BY <1>2, SupersededType
  <1>7. [Superseded(x)[x] EXCEPT !.status = "ACTIVE"] \in AssignmentRows
    BY <1>6, <1>2, RowStatus
  <1>8. assignments' = [Superseded(x) EXCEPT
                           ![x] = [Superseded(x)[x] EXCEPT !.status = "ACTIVE"]]
    BY <1>6 DEF ActivateAssignment, AssignmentTable
  <1>9. assignments' \in AssignmentTable /\ OneActive' /\ History
    BY <1>2, <1>7, <1>8, StartKeeps DEF Closed
  <1>10. edited' \in BOOLEAN
    BY Holds DEF ActivateAssignment
  <1>11. IInv'
    BY <1>5, <1>9, <1>10, Concludes
  <1> QED BY <1>1, <1>9, <1>11, EligibleFacts DEF FinalStep

\* A step that writes one row, not active afterwards, and nothing else.
LEMMA RowStep ==
    ASSUME IInv, NEW x \in AssignmentIds, NEW row \in AssignmentRows,
           assignments[x].status \notin Closed, row.status # "ACTIVE",
           assignments' = [assignments EXCEPT ![x] = row],
           UNCHANGED <<asset, readings, edited>>
    PROVE  IInv' /\ FinalStep
  BY Holds, WriteKeeps, Concludes DEF FinalStep

\* The action Plan keeps the invariant.
LEMMA PlanStep ==
    ASSUME IInv, NEW x \in AssignmentIds, NEW at \in Instants, NEW start \in Meters,
           PlanAssignment(x, at, start)
    PROVE  IInv' /\ FinalStep
  BY NewRow, RowStep DEF PlanAssignment, Closed

\* The action Revise keeps the invariant.
LEMMA ReviseStep ==
    ASSUME IInv, NEW x \in AssignmentIds, ReviseAssignment(x)
    PROVE  IInv' /\ FinalStep
  <1> DEFINE row == [assignments[x] EXCEPT !.status = "PLANNED"]
  <1>1. assignments \in AssignmentTable /\ assignments[x].status \in {"PLANNED", "ACTIVE"}
    BY Holds DEF ReviseAssignment
  <1>2. row \in AssignmentRows /\ row.status = "PLANNED"
    BY <1>1, RowStatus
  <1>3. assignments' = [assignments EXCEPT ![x] = row]
    BY <1>1 DEF ReviseAssignment, AssignmentTable
  <1> HIDE DEF row
  <1> QED BY <1>1, <1>2, <1>3, RowStep DEF ReviseAssignment, Closed

\* A machine that is released, with the reading it comes back with.
LEMMA ReturnKeeps ==
    ASSUME IInv, NEW value \in Meters, NEW at \in Instants, NEW stamp \in Nat,
           CanNote(Released(asset), readings, value, at, stamp),
           NEW n, n = Noted(Released(asset), readings, value, at, stamp)
    PROVE  /\ n.machine \in Machines /\ n.machine.active = asset.active
           /\ n.machine.mtype = asset.mtype
           /\ n.log \in Seq(ReadingRows)
           /\ ~edited => Tidy(n.machine, n.log)
           /\ asset.status = "DISPOSED" => n.machine.status = "DISPOSED"
  BY Holds, ReleasedType, TidyDepends, NotedKeeps

\* The action Close keeps the invariant.
LEMMA CloseStep ==
    ASSUME IInv, NEW x \in AssignmentIds, NEW status \in Closed, NEW end \in Meters,
           NEW back \in Instants, NEW stamp \in Nat,
           CloseAssignment(x, status, end, back, stamp)
    PROVE  IInv' /\ FinalStep
  <1> DEFINE row == [assignments[x] EXCEPT !.status = status]
  <1>1. assignments \in AssignmentTable /\ assignments[x].status \in {"PLANNED", "ACTIVE"}
    BY Holds DEF CloseAssignment
  <1>2. row \in AssignmentRows /\ row.status = status
    BY <1>1, RowStatus
  <1>3. assignments' = [assignments EXCEPT ![x] = row]
    BY <1>1 DEF CloseAssignment, AssignmentTable
  <1> HIDE DEF row
  <1>4. status # "ACTIVE" /\ assignments[x].status \notin Closed
    BY <1>1 DEF Closed
  <1>5. CASE assignments[x].status # "ACTIVE"
    BY <1>5, <1>2, <1>3, <1>4, RowStep DEF CloseAssignment
  <1>6. CASE assignments[x].status = "ACTIVE"
    <2>1. assignments' \in AssignmentTable /\ OneActive' /\ History /\ Active' \subseteq Active
      BY <1>1, <1>2, <1>3, <1>4, Holds, WriteKeeps
    <2>2. \E value \in Meters :
             /\ CanNote(Released(asset), readings, value, back, stamp)
             /\ asset' = Noted(Released(asset), readings, value, back, stamp).machine
             /\ readings' = Noted(Released(asset), readings, value, back, stamp).log
      BY <1>6 DEF Meters, CloseAssignment
    <2>3. edited' = edited /\ edited \in BOOLEAN
      BY Holds DEF CloseAssignment
    <2>4. /\ asset' \in Machines /\ asset'.active = asset.active
          /\ readings' \in Seq(ReadingRows)
          /\ ~edited' => Tidy(asset', readings')
          /\ asset.status = "DISPOSED" => asset'.status = "DISPOSED"
      BY <2>2, <2>3, ReturnKeeps
    <2>5. ~asset'.active => Active' = {}
      BY <2>1, <2>4, Holds
    <2>6. IInv'
      BY <2>1, <2>3, <2>4, <2>5, Concludes
    <2> QED BY <2>1, <2>4, <2>6 DEF FinalStep
  <1> QED BY <1>5, <1>6

\* The action Transfer keeps the invariant.
LEMMA TransferStep ==
    ASSUME IInv, NEW x \in AssignmentIds, NEW y \in AssignmentIds, NEW at \in Instants,
           NEW start \in Meters, NEW end \in Meters, NEW stamp \in Nat,
           Transfer(x, y, at, start, end, stamp)
    PROVE  IInv' /\ FinalStep
  <1> DEFINE given == IF start = NoReading THEN end ELSE start
             return == Noted(Released(asset), readings, end, at, stamp)
             a == [return.machine EXCEPT !.status = "ASSIGNED"]
             done == [assignments[x] EXCEPT !.status = "COMPLETED"]
             row == NewAssignment("ACTIVE", at, given)
  <1>1. /\ assignments[x].status = "ACTIVE" /\ assignments[y].status = "ABSENT"
        /\ CanNote(asset, readings, end, at, stamp)
        /\ Eligible(return.machine)
        /\ CanNote(a, return.log, given, at, stamp)
        /\ asset' = Noted(a, return.log, given, at, stamp).machine
        /\ readings' = Noted(a, return.log, given, at, stamp).log
        /\ edited' = edited
        /\ assignments' = [assignments EXCEPT ![x].status = "COMPLETED", ![y] = row]
    BY DEF Transfer, MayAssign
  <1>2. given \in Meters
    OBVIOUS
  <1>3. /\ asset \in Machines /\ assignments \in AssignmentTable /\ OneActive
        /\ edited \in BOOLEAN
    BY Holds
  <1>4. row \in AssignmentRows /\ row.status = "ACTIVE"
    BY <1>2, NewRow
  <1>5. done \in AssignmentRows /\ done.status = "COMPLETED"
    BY <1>1, <1>3, RowStatus DEF Closed
  <1>6. CanNote(Released(asset), readings, end, at, stamp)
    BY <1>3, ReleasedType, <1>1 DEF CanNote
  <1> HIDE DEF given, return, row
  <1>7. /\ return.machine \in Machines /\ return.machine.active = asset.active
        /\ return.log \in Seq(ReadingRows)
        /\ ~edited => Tidy(return.machine, return.log)
        /\ asset.status = "DISPOSED" => return.machine.status = "DISPOSED"
    BY <1>6, ReturnKeeps DEF return
  <1>8. asset.active /\ asset.status # "DISPOSED"
    BY <1>1, <1>7, EligibleFacts
  <1>9. /\ a \in Machines /\ a.active /\ a.mtype = return.machine.mtype
        /\ a.meter = return.machine.meter
    BY <1>7, <1>8, StatusSet DEF AssetStatus
  <1>10. ~edited => Tidy(a, return.log)
    BY <1>7, <1>9, TidyDepends
  <1> HIDE DEF a
  <1>11. /\ asset' \in Machines /\ asset'.active
         /\ readings' \in Seq(ReadingRows)
         /\ ~edited' => Tidy(asset', readings')
    BY <1>1, <1>2, <1>7, <1>9, <1>10, NotedKeeps
  <1>12. x # y
    BY <1>1
  <1>13. assignments' = [assignments EXCEPT ![x] = done, ![y] = row]
    BY <1>1, <1>3 DEF AssignmentTable
  <1> HIDE DEF done
  <1>14. /\ assignments' \in AssignmentTable
         /\ assignments'[x] = done /\ assignments'[y] = row
         /\ \A z \in AssignmentIds : z # x /\ z # y => assignments'[z] = assignments[z]
    BY <1>3, <1>4, <1>5, <1>12, <1>13 DEF AssignmentTable
  <1>15. Active' \subseteq {y}
    <2>1. x \in Active /\ \A z \in Active : z = x
      BY <1>1, <1>3 DEF OneActive, Active
    <2>2. \A z \in Active' : z \in AssignmentIds /\ assignments'[z].status = "ACTIVE"
      BY DEF Active
    <2>3. \A z \in AssignmentIds : assignments[z].status = "ACTIVE" => z = x
      BY <2>1 DEF Active
    <2> QED BY <2>2, <2>3, <1>5, <1>14
  <1>16. OneActive'
    BY <1>15 DEF OneActive
  <1>17. History
    BY <1>1, <1>14 DEF History, Closed
  <1>18. IInv'
    BY <1>1, <1>3, <1>11, <1>14, <1>16, Concludes
  <1> QED BY <1>8, <1>17, <1>18 DEF FinalStep

\* A step on the machine alone, that does not archive it while it is at work.
LEMMA AssetStep ==
    ASSUME IInv, asset' \in Machines, UNCHANGED <<assignments, readings, edited>>,
           ~asset'.active => Active = {},
           ~edited => Tidy(asset', readings),
           asset.status = "DISPOSED" => asset'.status = "DISPOSED"
    PROVE  IInv' /\ FinalStep
  BY Holds, Concludes DEF Active, OneActive, FinalStep, History

\* The action ChangeStatus keeps the invariant.
LEMMA ChangeStatusStep ==
    ASSUME IInv, NEW status \in Statuses, ChangeStatus(status)
    PROVE  IInv' /\ FinalStep
  BY Holds, FleetAssumption, StatusSet, TidyDepends, AssetStep DEF FleetAssumption,
     ChangeStatus

\* The action ChangeMeterType keeps the invariant.
LEMMA ChangeMeterTypeStep ==
    ASSUME IInv, NEW mtype \in MeterTypes \cup {"NONE"}, ChangeMeterType(mtype)
    PROVE  IInv' /\ FinalStep
  BY Holds, AssetStep DEF ChangeMeterType, Machines, Tidy, Shows, FallsOnTies, Chronological

\* Archive, Restore and Retire write only whether the machine is active and
\* its status.
LEMMA ActiveStep ==
    ASSUME IInv, Archive \/ Restore \/ Retire
    PROVE  IInv' /\ FinalStep
  BY Holds, TidyDepends, AssetStep DEF Archive, Machines, Restore, AssetStatus, Retire

\* The action Record keeps the invariant.
LEMMA RecordStep ==
    ASSUME IInv, NEW type \in MeterTypes \cup {"NONE"}, NEW value \in Readings,
           NEW at \in Instants, NEW adjusted \in BOOLEAN, NEW stamp \in Nat,
           RecordReading(type, value, at, adjusted, stamp),
           type = "NONE" => type = asset.mtype
    PROVE  IInv' /\ FinalStep
  <1> DEFINE r == Reading(type, value, at, adjusted, stamp)
  <1>1. /\ asset \in Machines /\ readings \in Seq(ReadingRows)
        /\ assignments \in AssignmentTable /\ edited \in BOOLEAN /\ OneActive
        /\ ~asset.active => Active = {}
        /\ ~edited => Tidy(asset, readings)
    BY Holds
  <1>2. r \in ReadingRows
    BY DEF Reading, ReadingRows, RecordReading
  <1>3. /\ Acceptable(readings, r) /\ readings' = Append(readings, r)
        /\ asset' = Metered(asset, r) /\ UNCHANGED <<assignments, edited>>
    BY DEF RecordReading
  <1> HIDE DEF r
  <1>4. /\ asset' \in Machines /\ asset'.active = asset.active
        /\ asset'.status = asset.status
    BY <1>1, <1>2, <1>3, MeteredType
  <1>5. readings' \in Seq(ReadingRows) /\ (~edited' => Tidy(asset', readings'))
    BY <1>1, <1>2, <1>3, AppendKeeps
  <1>6. Active' = Active /\ OneActive'
    BY <1>1, <1>3 DEF Active, OneActive
  <1>7. IInv'
    BY <1>1, <1>3, <1>4, <1>5, <1>6, Concludes
  <1> QED BY <1>3, <1>4, <1>7 DEF FinalStep, History

\* The action Edit keeps the invariant.
LEMMA EditStep ==
    ASSUME IInv, NEW i \in DOMAIN readings, NEW value \in Readings, NEW at \in Instants,
           EditReading(i, value, at)
    PROVE  IInv' /\ FinalStep
  <1>1. /\ asset \in Machines /\ readings \in Seq(ReadingRows)
        /\ assignments \in AssignmentTable /\ OneActive
        /\ ~asset.active => Active = {}
    BY Holds
  <1>2. /\ readings' = [readings EXCEPT ![i].value = value, ![i].at = at]
        /\ edited' = TRUE /\ UNCHANGED <<asset, assignments>>
    BY DEF EditReading
  <1>3. readings[i] \in ReadingRows
    BY <1>1
  <1> DEFINE row == [readings[i] EXCEPT !.value = value, !.at = at]
  <1>4. row \in ReadingRows
    BY <1>3 DEF ReadingRows
  <1>5. readings' = [readings EXCEPT ![i] = row]
    BY <1>1, <1>2
  <1> HIDE DEF row
  <1>6. readings' \in Seq(ReadingRows)
    BY <1>1, <1>4, <1>5
  <1>7. Active' = Active /\ OneActive'
    BY <1>1, <1>2 DEF Active, OneActive
  <1>8. IInv'
    BY <1>1, <1>2, <1>6, <1>7, Concludes
  <1> QED BY <1>2, <1>8 DEF FinalStep, History

-----------------------------------------------------------------------------
(* The induction. *)

\* A machine that was just registered satisfies the invariant.
LEMMA InitHolds == FleetInit => IInv
  <1> SUFFICES ASSUME FleetInit PROVE IInv
    OBVIOUS
  <1>1. asset \in Machines /\ edited = FALSE
    BY FleetAssumption DEF FleetInit, FleetAssumption, Machines
  <1>2. assignments \in AssignmentTable /\ Active = {}
    BY DEF FleetInit, AssignmentTable, Active, Absent
  <1>3. CASE readings = <<>>
    <2>1. readings \in Seq(ReadingRows) /\ Tidy(asset, readings)
      BY <1>3 DEF Tidy, Shows, FallsOnTies, Chronological
    <2> QED BY <1>1, <1>2, <2>1 DEF IInv, FleetTypeOK, OneActive, ArchivedIsIdle,
                                    Machines, AssignmentTable
  <1>4. CASE readings # <<>>
    <2> DEFINE r == Reading(asset.mtype, asset.meter, CHOOSE t \in Instants : TRUE, FALSE, 0)
    <2>1. readings = <<r>> /\ asset.meter # NoReading /\ asset.mtype # "NONE"
      BY <1>4 DEF FleetInit
    <2>2. (CHOOSE t \in Instants : TRUE) \in Instants
      BY FleetAssumption DEF FleetAssumption
    <2>3. asset.mtype \in MeterTypes /\ asset.meter \in Readings
      BY <1>1, <2>1 DEF Machines, Meters
    <2>4. r \in ReadingRows /\ r.type = asset.mtype /\ r.value = asset.meter
      BY <2>2, <2>3 DEF Reading, ReadingRows
    <2> HIDE DEF r
    <2>5. /\ readings \in Seq(ReadingRows) /\ DOMAIN readings = {1}
          /\ readings[1] = r
      BY <2>1, <2>4
    <2>6. Tidy(asset, readings)
      BY <2>4, <2>5 DEF Tidy, Shows, FallsOnTies, Earlier, Chronological
    <2> QED BY <1>1, <1>2, <2>5, <2>6 DEF IInv, FleetTypeOK, OneActive, ArchivedIsIdle,
                                         Machines, AssignmentTable
  <1> QED BY <1>3, <1>4

\* The operations on assignments keep the invariant and history.
LEMMA AssignmentSteps ==
    ASSUME IInv, NEW x \in AssignmentIds, NEW stamp \in Nat, AssignmentStep(x, stamp)
    PROVE  IInv' /\ FinalStep
  BY StartStep, PlanStep, TransferStep, ActivateStep, ReviseStep, CloseStep DEF
     AssignmentStep

\* The operations on readings do.
LEMMA MeterSteps ==
    ASSUME IInv, NEW stamp \in Nat, MeterStep(stamp)
    PROVE  IInv' /\ FinalStep
  <1>1. PICK value \in Readings, at \in Instants :
            \/ \E type \in MeterTypes, adjusted \in BOOLEAN :
                  RecordReading(type, value, at, adjusted, stamp)
            \/ ResetMeter(value, at, stamp)
            \/ \E i \in DOMAIN readings : EditReading(i, value, at)
    BY DEF MeterStep
  <1>2. CASE \E type \in MeterTypes, adjusted \in BOOLEAN :
                 RecordReading(type, value, at, adjusted, stamp)
    BY <1>2, FleetAssumption, RecordStep DEF FleetAssumption
  <1>3. CASE ResetMeter(value, at, stamp)
    BY <1>3, Holds, RecordStep DEF ResetMeter, Machines
  <1>4. CASE \E i \in DOMAIN readings : EditReading(i, value, at)
    BY <1>4, EditStep
  <1> QED BY <1>1, <1>2, <1>3, <1>4

\* The operations on the machine itself do.
LEMMA MachineSteps ==
    ASSUME IInv, MachineStep
    PROVE  IInv' /\ FinalStep
  BY ChangeStatusStep, ChangeMeterTypeStep, ActiveStep DEF MachineStep

\* Every step keeps the invariant and history.
LEMMA StepHolds ==
    ASSUME IInv, [FleetNext]_fleetVars
    PROVE  IInv' /\ (FinalStep \/ UNCHANGED fleetVars)
  BY AssetStep, Holds, MachineSteps, AssignmentSteps, MeterSteps DEF fleetVars, Begun,
     FleetNext

\* The inductive invariant of every theorem below.
THEOREM FleetInvariant == FleetSpec => []IInv
  <1>1. FleetInit => IInv
    BY InitHolds
  <1>2. IInv /\ [FleetNext]_fleetVars => IInv'
    BY StepHolds
  <1> QED BY <1>1, <1>2, PTL DEF FleetSpec

\* The rows keep their shape: no operation of equipment.py or
\* operational_logs.py writes a status, a meter or a reading of another kind.
THEOREM FleetTypeCorrect == FleetSpec => []FleetTypeOK
  <1>1. IInv => FleetTypeOK
    BY DEF IInv
  <1> QED BY <1>1, FleetInvariant, PTL

\* A machine has at most one active assignment, whichever of create_assignment,
\* update_assignment and transfer starts it.
THEOREM OneActiveAlways == FleetSpec => []OneActive
  <1>1. IInv => OneActive
    BY DEF IInv
  <1> QED BY <1>1, FleetInvariant, PTL

\* While a machine is archived or retired no assignment of it is active, so no
\* plan made before archive() is activated until restore().
THEOREM ArchivedIdleAlways == FleetSpec => []ArchivedIsIdle
  <1>1. IInv => ArchivedIsIdle
    BY DEF IInv
  <1> QED BY <1>1, FleetInvariant, PTL

\* Until update_meter_reading edits a reading, the machine shows the reading
\* recorded last, and _meter lets an ordinary reading fall below the one before
\* it only where two readings share the latest recorded_at, whatever the
\* requests that waited for the lock.
THEOREM MeterFollowsAlways == FleetSpec => []MeterFollows
  <1>1. IInv => MeterFollows
    BY DEF IInv, Tidy, Shows, FallsOnTies, Earlier, MeterFollows, Before
  <1> QED BY <1>1, FleetInvariant, PTL

\* A completed or cancelled assignment is never written again, and release,
\* retirement and change_status leave disposed equipment disposed.
THEOREM HistoryFinalAlways == FleetSpec => HistoryIsFinal
  <1>1. IInv /\ [FleetNext]_fleetVars =>
            [/\ \A x \in AssignmentIds :
                   assignments[x].status \in Closed
                       => assignments'[x] = assignments[x]
             /\ asset.status = "DISPOSED" => asset'.status = "DISPOSED"]_fleetVars
    BY StepHolds DEF FinalStep, History
  <1> QED BY <1>1, FleetInvariant, PTL DEF FleetSpec, HistoryIsFinal


-----------------------------------------------------------------------------
(* Maintenance jobs. *)

JobStatus == {"OPEN", "IN_PROGRESS", "COMPLETED", "CANCELLED"}

JobRows ==
    [status : JobStatus, approved : BOOLEAN, recurring : BOOLEAN,
     from : JobIds \cup {NoJob}]

\* A machine is retired only while it is archived, so whatever asks for a
\* writable machine is refused.
RetiredIsArchived == machine.retired => ~machine.active

JInv ==
    /\ JobsTypeOK
    /\ RetiredOwesNothing
    /\ ApprovedIsCompleted
    /\ FollowsCompletion
    /\ RetiredIsArchived

\* What a step may do to a job: leave it a row that is not open on a retired
\* machine, completed if it is approved or was completed, and that follows what
\* it followed, nobody, or a job that is completed once the step is taken.
JobKept(j) ==
    /\ jobs'[j] \in JobRows
    /\ machine.retired => jobs'[j].status \notin {"OPEN", "IN_PROGRESS"}
    /\ jobs'[j].approved => jobs'[j].status = "COMPLETED"
    /\ jobs[j].status = "COMPLETED" => jobs'[j].status = "COMPLETED"
    /\ \/ jobs'[j].from = NoJob
       \/ jobs[j].status # "ABSENT" /\ jobs'[j].from = jobs[j].from
       \/ jobs'[jobs'[j].from].status = "COMPLETED"

\* A step that does no more than that to any job keeps the invariant.
LEMMA JobsKept ==
    ASSUME JInv, UNCHANGED machine,
           jobs' = [j \in JobIds |-> jobs'[j]],
           \A j \in JobIds : jobs'[j] = jobs[j] \/ JobKept(j)
    PROVE  JInv'
  BY DEF JInv, JobsTypeOK, JobRows, JobStatus, JobKept, RetiredOwesNothing, OpenJobs,
     ApprovedIsCompleted, Exists, FollowsCompletion, NotCreated, RetiredIsArchived

\* A job that exists is a row.
LEMMA JobRow ==
    ASSUME JInv, NEW j \in JobIds, Exists(j)
    PROVE  /\ jobs[j] \in JobRows
           /\ jobs[j].status \in JobStatus
           /\ jobs[j].approved => jobs[j].status = "COMPLETED"
           /\ machine.retired => jobs[j].status \notin {"OPEN", "IN_PROGRESS"}
           /\ jobs = [jobs EXCEPT ![j] = jobs[j]]
  BY DEF JInv, JobsTypeOK, JobRows, JobStatus, Exists, NotCreated,
         ApprovedIsCompleted, RetiredOwesNothing, OpenJobs

\* A job that is given a status and a recurrence the office or the field may
\* give it.
LEMMA StatusKept ==
    ASSUME JInv, NEW j \in JobIds, Exists(j), NEW status \in JobStatus,
           NEW recurring \in BOOLEAN,
           jobs'[j] = [jobs[j] EXCEPT !.status = status, !.recurring = recurring],
           jobs[j].status = "COMPLETED" => status = "COMPLETED",
           machine.retired => status \notin {"OPEN", "IN_PROGRESS"}
    PROVE  JobKept(j)
<1>1. jobs[j] \in JobRows /\ jobs[j].status # "ABSENT"
  BY JobRow DEF Exists
<1>2. jobs[j].approved => jobs[j].status = "COMPLETED"
  BY JobRow
<1> QED BY <1>1, <1>2 DEF JobKept, JobRows

\* The same of a step that writes that job alone.
LEMMA StatusKeeps ==
    ASSUME JInv, NEW j \in JobIds, Exists(j), NEW status \in JobStatus,
           NEW recurring \in BOOLEAN, UNCHANGED machine,
           jobs' = [jobs EXCEPT ![j].status = status, ![j].recurring = recurring],
           jobs[j].status = "COMPLETED" => status = "COMPLETED",
           machine.retired => status \notin {"OPEN", "IN_PROGRESS"}
    PROVE  JInv'
  BY StatusKept, JobsKept DEF JInv, JobsTypeOK

\* Writing what a job already says of its status or its recurrence says nothing.
LEMMA OneField ==
    ASSUME JInv, NEW j \in JobIds, Exists(j), NEW status \in JobStatus,
           NEW recurring \in BOOLEAN
    PROVE  /\ jobs[j].status \in JobStatus /\ jobs[j].recurring \in BOOLEAN
           /\ [jobs EXCEPT ![j].status = status]
                = [jobs EXCEPT ![j].status = status, ![j].recurring = jobs[j].recurring]
           /\ [jobs EXCEPT ![j].recurring = recurring]
                = [jobs EXCEPT ![j].status = jobs[j].status, ![j].recurring = recurring]
  BY JobRow DEF JInv, JobsTypeOK, JobRows

-----------------------------------------------------------------------------
(* The handlers. *)

\* create_maintenance.
LEMMA CreateJobKeeps ==
    ASSUME JInv, NEW j \in JobIds, NEW recurring \in BOOLEAN, CreateJob(j, recurring)
    PROVE  JInv'
  BY JobsKept DEF JInv, JobsTypeOK, CreateJob, Writable, Exists, RetiredIsArchived, JobKept,
     NewJob, JobRows, JobStatus

\* update_maintenance without a status, and edit_work, which writes the same.
LEMMA RecurringKeeps ==
    ASSUME JInv, NEW j \in JobIds, Exists(j), NEW recurring \in BOOLEAN,
           UNCHANGED machine, jobs' = [jobs EXCEPT ![j].recurring = recurring]
    PROVE  JInv'
<1>1. /\ jobs[j] \in JobRows
      /\ machine.retired => jobs[j].status \notin {"OPEN", "IN_PROGRESS"}
      /\ jobs[j].approved => jobs[j].status = "COMPLETED"
  BY JobRow
<1>2. jobs = [k \in JobIds |-> jobs[k]]
  BY DEF JInv, JobsTypeOK
<1>3. /\ jobs' = [k \in JobIds |-> jobs'[k]]
      /\ jobs'[j] = [jobs[j] EXCEPT !.recurring = recurring]
      /\ \A k \in JobIds \ {j} : jobs'[k] = jobs[k]
  BY <1>2
<1>4. /\ jobs'[j] \in JobRows
      /\ jobs'[j].status = jobs[j].status /\ jobs'[j].approved = jobs[j].approved
      /\ jobs'[j].from = jobs[j].from
  BY <1>1, <1>3 DEF JobRows
<1>5. JobKept(j)
  BY <1>1, <1>4 DEF JobKept, Exists
<1> QED BY <1>3, <1>5, JobsKept

\* update_maintenance with a status, the successor it creates included.
LEMMA PatchJobKeeps ==
    ASSUME JInv, NEW j \in JobIds, NEW k \in JobIds, NEW status \in JobStatus,
           NEW recurring \in BOOLEAN, PatchJob(j, status, recurring, k)
    PROVE  JInv'
<1> DEFINE now == [jobs EXCEPT ![j].status = status, ![j].recurring = recurring]
<1>1. /\ Exists(j) /\ UNCHANGED machine /\ ~machine.retired
      /\ jobs[j].status = "COMPLETED" => status = "COMPLETED"
  BY DEF PatchJob, Writable, JInv, RetiredIsArchived, Moves
<1>2. CASE ~(status = "COMPLETED" /\ recurring)
  BY <1>2, <1>1, StatusKeeps DEF PatchJob, Succeeded
<1>3. CASE status = "COMPLETED" /\ recurring
  <2>1. ~Exists(k) /\ k # j
    BY <1>3, <1>1 DEF PatchJob
  <2>2. jobs' = [now EXCEPT ![k] = NewJob(TRUE, j)]
    BY <1>3 DEF PatchJob, Succeeded
  <2>3. jobs = [i \in JobIds |-> jobs[i]]
    BY DEF JInv, JobsTypeOK
  <2>4. /\ jobs' = [i \in JobIds |-> jobs'[i]]
        /\ jobs'[j] = [jobs[j] EXCEPT !.status = status, !.recurring = recurring]
        /\ jobs'[k] = NewJob(TRUE, j)
        /\ \A i \in JobIds \ {j, k} : jobs'[i] = jobs[i]
    BY <2>1, <2>2, <2>3
  <2>5. JobKept(j)
    BY <1>1, <2>4, StatusKept
  <2>6. jobs[j] \in JobRows
    BY <1>1, JobRow
  <2>7. jobs'[j].status = "COMPLETED"
    BY <1>3, <2>4, <2>6 DEF JobRows
  <2>8. JobKept(k)
    <3>1. jobs'[k] \in JobRows /\ jobs'[k].status = "OPEN" /\ ~jobs'[k].approved
          /\ jobs'[k].from = j
      BY <2>4 DEF NewJob, JobRows, JobStatus
    <3>2. jobs[k].status # "COMPLETED"
      BY <2>1 DEF Exists
    <3> QED BY <1>1, <2>7, <3>1, <3>2 DEF JobKept
  <2>9. \A i \in JobIds : jobs'[i] = jobs[i] \/ JobKept(i)
    BY <2>4, <2>5, <2>8, Zenon
  <2> QED BY <1>1, <2>4, <2>9, JobsKept
<1> QED BY <1>2, <1>3

\* maintenance_status moves open jobs only, and a retired machine has none.
LEMMA SetJobStatusKeeps ==
    ASSUME JInv, NEW j \in JobIds, NEW status \in JobStatus, SetJobStatus(j, status)
    PROVE  JInv'
<1>1. /\ UNCHANGED machine
      /\ jobs[j].status \in {"OPEN", "IN_PROGRESS"}
      /\ jobs' = [jobs EXCEPT ![j].status = status]
  BY DEF SetJobStatus, Moves
<1>2. Exists(j) /\ ~machine.retired
  BY <1>1, JobRow DEF Exists
<1>3. jobs[j].recurring \in BOOLEAN
      /\ jobs' = [jobs EXCEPT ![j].status = status, ![j].recurring = jobs[j].recurring]
  BY <1>1, <1>2, OneField
<1> QED BY <1>1, <1>2, <1>3, StatusKeeps

\* update_work, although it asks nothing of the machine.
LEMMA FieldUpdateKeeps ==
    ASSUME JInv, NEW j \in JobIds, NEW status \in JobStatus, FieldUpdate(j, status)
    PROVE  JInv'
<1>1. /\ UNCHANGED machine
      /\ Exists(j) /\ jobs[j].status \notin {"COMPLETED", "CANCELLED"}
      /\ jobs' = [jobs EXCEPT ![j].status = status]
  BY DEF FieldUpdate, Finished
<1>2. ~machine.retired
  BY <1>1, JobRow DEF JobStatus
<1>3. jobs[j].recurring \in BOOLEAN
      /\ jobs' = [jobs EXCEPT ![j].status = status, ![j].recurring = jobs[j].recurring]
  BY <1>1, OneField
<1> QED BY <1>1, <1>2, <1>3, StatusKeeps

\* A supervisor approves what is completed.
LEMMA FieldApproveKeeps ==
    ASSUME JInv, NEW j \in JobIds, FieldApprove(j)
    PROVE  JInv'
  BY JobRow, JobsKept DEF FieldApprove, Exists, JInv, JobsTypeOK, JobKept, JobRows

\* What happens to the machine: only retirement lets it owe nothing, and it asks
\* for that under the lock.
LEMMA MachineKeeps ==
    ASSUME JInv, RetireMachine \/ ArchiveMachine \/ RestoreMachine \/ DisposeMachine
    PROVE  JInv'
  BY DEF JInv, JobsTypeOK, RetireMachine, ArchiveMachine, RestoreMachine, DisposeMachine,
     RetiredIsArchived, ApprovedIsCompleted, FollowsCompletion, Exists, RetiredOwesNothing,
     OpenJobs

\* A step of neither.
LEMMA JobsRest == ASSUME JInv, UNCHANGED jobsVars PROVE JInv'
  BY DEF jobsVars, JInv, JobsTypeOK, RetiredIsArchived, ApprovedIsCompleted,
         FollowsCompletion, Exists, RetiredOwesNothing, OpenJobs

\* Every step of the office, the field and the machine keeps the invariant.
LEMMA JobsStepHolds == ASSUME JInv, [JobsNext]_jobsVars PROVE JInv'
  BY CreateJobKeeps, RecurringKeeps, PatchJobKeeps, SetJobStatusKeeps, FieldUpdateKeeps,
     FieldApproveKeeps, MachineKeeps, JobsRest DEF JobStatus, ReviseJob, FieldEdit, JobsNext

\* The jobs of a machine that was just registered.
LEMMA JobsInitHolds == JobsInit => JInv
  BY JobsAssumption
  DEF JobsInit, JInv, JobsTypeOK, NotCreated, RetiredOwesNothing, OpenJobs,
      ApprovedIsCompleted, FollowsCompletion, Exists, RetiredIsArchived

\* A retired machine has no open job, approved work stays completed and a
\* scheduled job follows a completed one, for any number of jobs, whatever the
\* office, the field portal and retire_asset do between them.
THEOREM JobsAlwaysSound == JobsSpec => [](RetiredOwesNothing /\ ApprovedIsCompleted
                                            /\ FollowsCompletion)
<1>1. JInv => RetiredOwesNothing /\ ApprovedIsCompleted /\ FollowsCompletion
  BY DEF JInv
<1> QED BY <1>1, JobsInitHolds, JobsStepHolds, PTL DEF JobsSpec

-----------------------------------------------------------------------------
(* Work orders. *)

\* The requests that have read line l and not yet committed.
Pending(l) == {r \in Requests : request[r].at = "LINES_READ" /\ l \in request[r].unposted}

OInv == OrdersTypeOK /\ PostedMeansBooked /\ BookedPerOverlap

\* They are requests: finitely many, and no more than there are.
LEMMA PendingType ==
    ASSUME NEW l
    PROVE  /\ IsFiniteSet(Pending(l)) /\ Cardinality(Pending(l)) \in Nat
           /\ Cardinality(Requests) \in Nat
           /\ Cardinality(Pending(l)) <= Cardinality(Requests)
  BY OrdersAssumption, FS_Subset, FS_CardinalityType DEF OrdersAssumption, Pending

\* The bound, one line at a time.
LEMMA OverlapIs ==
    BookedPerOverlap
        <=> \A l \in LineIds : lines[l].booked + Cardinality(Pending(l))
                                  <= Cardinality(Requests)
  BY DEF BookedPerOverlap, Pending

\* The same after a step.
LEMMA OverlapNext ==
    BookedPerOverlap'
        <=> \A l \in LineIds : lines'[l].booked + Cardinality(Pending(l)')
                                  <= Cardinality(Requests)
  BY DEF BookedPerOverlap, Pending

\* A step that writes no line and lets no request read one keeps the bound.
LEMMA LinesStay ==
    ASSUME OInv, OrdersTypeOK', UNCHANGED lines,
           \A l \in LineIds : Pending(l)' \subseteq Pending(l)
    PROVE  OInv'
  BY PendingType, FS_Subset, FS_CardinalityType, OverlapIs, OverlapNext DEF OInv,
     PostedMeansBooked, OrdersTypeOK

\* A line that is added is neither posted nor booked.
LEMMA AddCostLineKeeps == ASSUME OInv, NEW l \in LineIds, AddCostLine(l) PROVE OInv'
<1>1. lines \in [LineIds -> [there : BOOLEAN, posted : BOOLEAN, booked : Nat]]
  BY DEF OInv, OrdersTypeOK
<1>2. /\ lines' = [lines EXCEPT ![l].there = TRUE]
      /\ UNCHANGED <<order, request>>
  BY DEF AddCostLine
<1>3. /\ lines' \in [LineIds -> [there : BOOLEAN, posted : BOOLEAN, booked : Nat]]
      /\ \A k \in LineIds : /\ lines'[k].booked = lines[k].booked
                            /\ lines'[k].posted = lines[k].posted
  BY <1>1, <1>2
<1>4. OrdersTypeOK' /\ PostedMeansBooked'
  BY <1>2, <1>3 DEF OInv, OrdersTypeOK, PostedMeansBooked
<1>5. \A k \in LineIds : Pending(k)' = Pending(k)
  BY <1>2 DEF Pending
<1>6. BookedPerOverlap'
  BY <1>3, <1>5, OverlapIs, OverlapNext DEF OInv
<1> QED BY <1>4, <1>6 DEF OInv

\* A line a request reads as unposted was never booked, so the request is one
\* booking of it at most: the step the bound rests on.
LEMMA ReadLinesKeeps == ASSUME OInv, NEW r \in Requests, ReadLines(r) PROVE OInv'
<1>1. /\ request' = [request EXCEPT ![r] = [at |-> "LINES_READ", unposted |-> Unposted]]
      /\ UNCHANGED <<order, lines>>
  BY DEF ReadLines
<1>2. Unposted \in SUBSET LineIds
  BY DEF Unposted
<1>3. OrdersTypeOK'
  BY <1>1, <1>2 DEF OInv, OrdersTypeOK
<1>4. PostedMeansBooked'
  BY <1>1 DEF OInv, PostedMeansBooked
<1>5. ASSUME NEW l \in LineIds
      PROVE  lines'[l].booked + Cardinality(Pending(l)') <= Cardinality(Requests)
  <2>1. Cardinality(Pending(l)') \in Nat /\ Cardinality(Pending(l)') <= Cardinality(Requests)
    BY OrdersAssumption, FS_Subset, FS_CardinalityType DEF OrdersAssumption, Pending
  <2>2. CASE l \in Unposted
    BY <2>2, <1>1, <2>1, PendingType DEF OInv, OrdersTypeOK, PostedMeansBooked, Unposted
  <2>3. CASE l \notin Unposted
    <3>1. request \in [Requests -> {request[q] : q \in Requests}]
      BY DEF OInv, OrdersTypeOK
    <3>2. Pending(l)' \subseteq Pending(l)
      BY <1>1, <2>3, <3>1 DEF Pending
    <3>3. Cardinality(Pending(l)') <= Cardinality(Pending(l))
      BY <3>2, PendingType, FS_Subset
    <3>4. lines[l].booked + Cardinality(Pending(l)) <= Cardinality(Requests)
      BY OverlapIs DEF OInv
    <3>5. lines[l].booked \in Nat
      BY DEF OInv, OrdersTypeOK
    <3> QED BY <1>1, <2>1, <3>3, <3>4, <3>5, PendingType
  <2> QED BY <2>2, <2>3
<1> QED BY <1>3, <1>4, <1>5, OverlapNext DEF OInv

\* A line that is booked is a line, posted and booked as often as is written.
LEMMA LineBooked ==
    ASSUME NEW old \in [there : BOOLEAN, posted : BOOLEAN, booked : Nat], NEW n \in Nat
    PROVE  LET row == [old EXCEPT !.posted = TRUE, !.booked = n]
           IN /\ row \in [there : BOOLEAN, posted : BOOLEAN, booked : Nat]
              /\ row.posted /\ row.booked = n
  OBVIOUS

\* A completion books what it read and is no longer pending on it.
LEMMA CommitCompletionKeeps ==
    ASSUME OInv, NEW r \in Requests, CommitCompletion(r) PROVE OInv'
<1> DEFINE ls == request[r].unposted
<1>1. /\ request[r].at = "LINES_READ"
      /\ order' = [order EXCEPT !.status = "COMPLETED"]
      /\ lines' = Booked(ls)
      /\ request' = [request EXCEPT ![r] = Idle]
  BY DEF CommitCompletion
<1>2. /\ lines \in [LineIds -> [there : BOOLEAN, posted : BOOLEAN, booked : Nat]]
      /\ order \in [status : WorkOrderStatus, approved : BOOLEAN]
  BY DEF OInv, OrdersTypeOK
<1>3. /\ lines' \in [LineIds -> [there : BOOLEAN, posted : BOOLEAN, booked : Nat]]
      /\ \A l \in LineIds :
            /\ l \in ls => lines'[l].posted /\ lines'[l].booked = lines[l].booked + 1
            /\ l \notin ls => lines'[l] = lines[l]
  <2> HIDE DEF ls
  <2>1. ASSUME NEW l \in LineIds
        PROVE  LET row == [lines[l] EXCEPT !.posted = TRUE, !.booked = @ + 1]
               IN /\ row \in [there : BOOLEAN, posted : BOOLEAN, booked : Nat]
                  /\ row.posted /\ row.booked = lines[l].booked + 1
    <3>1. lines[l] \in [there : BOOLEAN, posted : BOOLEAN, booked : Nat]
          /\ lines[l].booked + 1 \in Nat
      BY <1>2
    <3> QED BY <3>1, LineBooked
  <2>2. lines' = Booked(ls)
    BY <1>1 DEF ls
  <2> QED BY <1>2, <2>1, <2>2 DEF Booked
<1>4. OrdersTypeOK'
  BY <1>1, <1>2, <1>3 DEF OInv, OrdersTypeOK, WorkOrderStatus
<1>5. PostedMeansBooked'
  BY <1>2, <1>3 DEF OInv, PostedMeansBooked
<1>6. ASSUME NEW l \in LineIds
      PROVE  lines'[l].booked + Cardinality(Pending(l)') <= Cardinality(Requests)
  <2>1. Pending(l)' = Pending(l) \ {r}
    BY <1>1 DEF OInv, OrdersTypeOK, Pending, Idle
  <2>2. lines[l].booked + Cardinality(Pending(l)) <= Cardinality(Requests)
    BY OverlapIs DEF OInv
  <2>3. lines[l].booked \in Nat
    BY <1>2
  <2>4. CASE l \in ls
    <3>1. r \in Pending(l)
      BY <1>1, <2>4 DEF Pending
    <3>2. Cardinality(Pending(l)') = Cardinality(Pending(l)) - 1
      BY <2>1, <3>1, PendingType, FS_RemoveElement
    <3> QED BY <1>3, <2>2, <2>3, <2>4, <3>2, PendingType
  <2>5. CASE l \notin ls
    BY <2>5, <1>3, <2>1, <2>2 DEF Pending
  <2> QED BY <2>4, <2>5
<1> QED BY <1>4, <1>5, <1>6, OverlapNext DEF OInv

\* The steps that read no line and book none.
LEMMA OtherOrderKeeps ==
    ASSUME OInv,
           \/ \E r \in Requests :
                 \/ ReadOrder(r) \/ FailRequest(r) \/ ReadForUpdate(r)
                 \/ \E status \in WorkOrderStatus : CommitUpdate(r, status)
           \/ \E status \in {"IN_PROGRESS", "COMPLETED"} : FieldUpdateOrder(status)
           \/ FieldApproveOrder
           \/ UNCHANGED ordersVars
    PROVE  OInv'
<1>1. /\ order \in [status : WorkOrderStatus, approved : BOOLEAN]
      /\ request \in [Requests -> {Idle, [at |-> "ORDER_READ"]}
                       \cup [at : {"LINES_READ"}, unposted : SUBSET LineIds]
                       \cup [at : {"UPDATING"}, seen : WorkOrderStatus]]
  BY DEF OInv, OrdersTypeOK
<1>2. UNCHANGED lines
  BY DEF ReadOrder, FailRequest, ReadForUpdate, CommitUpdate, FieldUpdateOrder,
         FieldApproveOrder, ordersVars
<1>3. order' \in [status : WorkOrderStatus, approved : BOOLEAN]
  BY <1>1 DEF ReadOrder, FailRequest, ReadForUpdate, CommitUpdate, FieldUpdateOrder,
              FieldApproveOrder, ordersVars, WorkOrderStatus
<1>4. \/ UNCHANGED request
      \/ \E r \in Requests, now \in {Idle, [at |-> "ORDER_READ"]}
                              \cup [at : {"UPDATING"}, seen : WorkOrderStatus] :
            request' = [request EXCEPT ![r] = now]
  BY <1>1 DEF ReadOrder, FailRequest, ReadForUpdate, CommitUpdate, FieldUpdateOrder,
     FieldApproveOrder, ordersVars
<1>5. OrdersTypeOK'
  BY <1>1, <1>2, <1>3, <1>4 DEF OInv, OrdersTypeOK
<1>6. \A l \in LineIds : Pending(l)' \subseteq Pending(l)
  BY <1>1, <1>4 DEF Pending, Idle
<1> QED BY <1>2, <1>5, <1>6, LinesStay

\* Every step of the office and the field portal keeps the invariant.
LEMMA OrdersStepHolds == ASSUME OInv, [OrdersNext]_ordersVars PROVE OInv'
  BY AddCostLineKeeps, ReadLinesKeeps, CommitCompletionKeeps, OtherOrderKeeps
  DEF OrdersNext

\* An order as create_work_order writes it.
LEMMA OrdersInitHolds == OrdersInit => OInv
  BY PendingType, OverlapIs DEF OrdersInit, OrdersTypeOK, WorkOrderStatus, Idle,
     PostedMeansBooked, OInv

\* A line's flag tells whether it was booked, and it is booked no more often
\* than requests overlap, for any number of lines and requests that read,
\* commit and fail in any order (complete_work_order, update_work_order).
THEOREM CostsAlwaysAddUp == OrdersSpec => []CostsAddUp
<1>1. OInv => CostsAddUp
  BY DEF OInv, CostsAddUp
<1> QED BY <1>1, OrdersInitHolds, OrdersStepHolds, PTL DEF OrdersSpec

-----------------------------------------------------------------------------
(* The three together. *)

RecordsInv == IInv /\ JInv /\ OInv

\* Every step is a step of one of them and a stutter of the others.
LEMMA RecordsInvariant == RecordsSpec => []RecordsInv
<1>1. RecordsInit => RecordsInv
  BY InitHolds, JobsInitHolds, OrdersInitHolds DEF RecordsInit, RecordsInv
<1>2. [RecordsNext]_recordsVars
        => [FleetNext]_fleetVars /\ [JobsNext]_jobsVars /\ [OrdersNext]_ordersVars
  BY DEF RecordsNext, recordsVars
<1>3. RecordsInv /\ [RecordsNext]_recordsVars => RecordsInv'
  BY <1>2, StepHolds, JobsStepHolds, OrdersStepHolds DEF RecordsInv
<1> QED BY <1>1, <1>3, PTL DEF RecordsSpec

\* The rows of machines, jobs and work orders keep their shape.
THEOREM RecordsTypeCorrect == RecordsSpec => []RecordsTypeOK
<1>1. RecordsInv => RecordsTypeOK
  BY DEF RecordsInv, IInv, JInv, OInv, RecordsTypeOK
<1> QED BY <1>1, RecordsInvariant, PTL

\* No retired machine owes a job, what a supervisor approved stays completed, and
\* a job the system scheduled follows a completed one, for any number of jobs.
THEOREM JobsSound == RecordsSpec => []JobsAreSound
<1>1. RecordsInv => JobsAreSound
  BY DEF RecordsInv, JInv, JobsAreSound
<1> QED BY <1>1, RecordsInvariant, PTL
=============================================================================
