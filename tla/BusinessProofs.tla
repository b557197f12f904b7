--------------------------- MODULE BusinessProofs ---------------------------
(***************************************************************************)
(* Theorems of the desks of the business, whoever else is at the desk and  *)
(* however many sessions, rows, names and days there are.                  *)
(***************************************************************************)
EXTENDS MCBusiness, RowStoreProofs

-----------------------------------------------------------------------------
(* Drilling. *)

HoleRefs == {NoRef} \cup Table("holes")

\* What the rules on reports read of a report.
ReportRow(row) ==
    /\ row = [c \in DOMAIN row |-> row[c]]
    /\ DOMAIN row = {"there", "site", "hole", "to", "status", "corrected"}
    /\ row.there = TRUE /\ row.hole \in HoleRefs

\* Revenue is in the place of its report and kind; the report is approved, and
\* reports the metres or was corrected.
Charged(v) ==
    LET r == rows[v].report
    IN /\ v = Place(r, rows[v].kind)
       /\ r \in Live("reports") /\ rows[r].status = "APPROVED"
       /\ rows[v].kind = "METERAGE" => rows[v].metres = rows[r].to \/ rows[r].corrected

\* A session adds a report, or changes one that it holds: edits it, which marks an
\* approved one that it moves, deletes it or takes it a step on unless it is
\* approved, and posts what it charges when it approves it.
Reported(s, x) ==
    /\ x \in Table("reports") /\ ~There(x)
    /\ ReportRow(open[s].writes[x])
    /\ \A t \in Sessions \ {s} : x \notin DOMAIN open[t].writes

ReportHeld(s, x) == x \in Live("reports") /\ x \in open[s].locks

Edited(s, x) ==
    LET cols == open[s].writes[x]
    IN /\ ReportHeld(s, x)
       /\ DOMAIN cols \subseteq {"site", "hole", "to", "corrected"}
       /\ "hole" \in DOMAIN cols => cols.hole \in HoleRefs
       /\ "corrected" \in DOMAIN cols => cols.corrected = TRUE
       /\ rows[x].status = "APPROVED" /\ {"hole", "to"} \cap DOMAIN cols # {}
            => rows[x].corrected \/ "corrected" \in DOMAIN cols

Deleted(s, x) ==
    ReportHeld(s, x) /\ rows[x].status # "APPROVED" /\ open[s].writes[x] = Absent

Moved(s, x) ==
    /\ ReportHeld(s, x) /\ rows[x].status # "APPROVED"
    /\ \E to \in ShiftReportStatuses : open[s].writes[x] = [status |-> to]

Posted(s, x) ==
    LET line == open[s].writes[x]
    IN /\ x \in Table("revenue") /\ ~There(x)
       /\ line = [c \in DOMAIN line |-> line[c]]
       /\ DOMAIN line = {"there", "report", "contract", "kind", "metres"}
       /\ line.there = TRUE
       /\ x = Place(line.report, line.kind)
       /\ ReportHeld(s, line.report) /\ rows[line.report].status # "APPROVED"
       /\ line.report \in DOMAIN open[s].writes
       /\ open[s].writes[line.report] = [status |-> "APPROVED"]
       /\ line.kind = "METERAGE" => line.metres = rows[line.report].to

Unruled == Table("holes") \cup Table("contracts")

Reporting(s, x) ==
    \/ x \in Unruled \/ Reported(s, x)
    \/ Edited(s, x) \/ Deleted(s, x) \/ Moved(s, x) \/ Posted(s, x)

ReportPending(s) == \A x \in DOMAIN open[s].writes : Reporting(s, x)

DrillInv ==
    /\ Shape
    /\ desk \in {"shifts", "billing"}
    /\ DOMAIN rows = DrillingIds
    /\ \A r \in Live("reports") : ReportRow(rows[r])
    /\ \A v \in Live("revenue") : Charged(v)
    /\ \A s \in Sessions : ReportPending(s)

\* The ids of the drilling tables.
LEMMA DrillingIdsAre ==
    ASSUME desk \in {"shifts", "billing"}, DOMAIN rows = DrillingIds
    PROVE  /\ \A r \in Table("reports") : r = <<"reports", r[2]>> /\ r[2] \in Numbers
           /\ \A name \in {"holes", "contracts"} : \A r \in Table(name) : r = <<name, 1>>
           /\ Table("contracts") # {} =>
                 \A r \in Table("reports") : \A kind : Place(r, kind) \in Table("revenue")
           /\ \A r, q \in Table("reports") : \A k, l :
                 Place(r, k) = Place(q, l) => r = q
<1>1. \A r \in DOMAIN rows : \E name \in DrillingTables[desk] : r \in {name} \X DrillingNumbers(name)
  BY DEF DrillingIds
<1>2. ASSUME NEW r \in DOMAIN rows
      PROVE  r = <<r[1], r[2]>> /\ r[1] \in DrillingTables[desk] /\ r[2] \in DrillingNumbers(r[1])
  BY <1>1
<1>3. \A r \in Table("reports") : r = <<"reports", r[2]>> /\ r[2] \in Numbers
  BY <1>2 DEF Table, DrillingNumbers
<1>4. \A name \in {"holes", "contracts"} : \A r \in Table(name) : r = <<name, 1>>
  BY <1>2 DEF Table, DrillingNumbers
<1>5. ASSUME NEW r \in Table("reports"), NEW kind, Table("contracts") # {}
      PROVE  Place(r, kind) \in Table("revenue")
  <2>1. "contracts" \in DrillingTables[desk]
    BY <1>2, <1>5 DEF Table
  <2>2. "revenue" \in DrillingTables[desk]
    BY <2>1 DEF DrillingTables
  <2>3. r[2] \in Numbers /\ r[2] \in Nat
    BY <1>3, RowStoreAssumption DEF RowStoreAssumption
  <2>4. 2 * r[2] + (IF kind = "METERAGE" THEN 0 ELSE 1) \in DrillingNumbers("revenue")
    BY <2>3 DEF DrillingNumbers
  <2>5. Place(r, kind) \in {"revenue"} \X DrillingNumbers("revenue")
    BY <2>4 DEF Place
  <2>6. Place(r, kind) \in DOMAIN rows
    BY <2>2, <2>5 DEF DrillingIds
  <2>7. Place(r, kind)[1] = "revenue"
    BY DEF Place
  <2> QED BY <2>6, <2>7 DEF Table
<1>6. ASSUME NEW r \in Table("reports"), NEW q \in Table("reports"), NEW k, NEW l,
             Place(r, k) = Place(q, l)
      PROVE  r = q
  <2>1. r[2] \in Nat /\ q[2] \in Nat
    BY <1>3, RowStoreAssumption DEF RowStoreAssumption
  <2> DEFINE i == IF k = "METERAGE" THEN 0 ELSE 1
             j == IF l = "METERAGE" THEN 0 ELSE 1
  <2>2. 2 * r[2] + i = 2 * q[2] + j
    BY <1>6 DEF Place
  <2>3. i \in {0, 1} /\ j \in {0, 1}
    OBVIOUS
  <2> HIDE DEF i, j
  <2>4. r[2] = q[2]
    BY <2>1, <2>2, <2>3
  <2> QED BY <1>3, <2>4
<1> QED BY <1>3, <1>4, <1>5, <1>6

\* As long as no row changes and nobody else stages the row, what a session has
\* staged stands.
LEMMA ReportingStays ==
    ASSUME UNCHANGED <<desk, rows>>, NEW s \in Sessions, NEW x, Reporting(s, x),
           open'[s].writes = open[s].writes, open'[s].locks = open[s].locks,
           Reported(s, x) => \A t \in Sessions \ {s} : x \notin DOMAIN open'[t].writes
    PROVE  Reporting(s, x)'
<1>1. /\ Table("reports")' = Table("reports") /\ Table("revenue")' = Table("revenue")
      /\ Table("holes")' = Table("holes") /\ Table("contracts")' = Table("contracts")
      /\ Live("reports")' = Live("reports")
      /\ \A y : There(y)' = There(y)
  BY DEF Table, Live, There
<1>2. HoleRefs' = HoleRefs /\ Unruled' = Unruled
  BY <1>1 DEF HoleRefs, Unruled
<1>3. \A y : ReportHeld(s, y)' <=> ReportHeld(s, y)
  BY <1>1 DEF ReportHeld
<1>4. CASE x \in Unruled
  BY <1>2, <1>4 DEF Reporting
<1>5. CASE Reported(s, x)
  BY <1>2, <1>5, <1>1 DEF Reported, ReportRow, Reporting
<1>6. CASE Edited(s, x)
  BY <1>2, <1>3, <1>6 DEF Edited, Reporting
<1>7. CASE Deleted(s, x)
  BY <1>3, <1>7 DEF Deleted, Reporting
<1>8. CASE Moved(s, x)
  BY <1>3, <1>8 DEF Moved, Reporting
<1>9. CASE Posted(s, x)
  <2> DEFINE line == open[s].writes[x]
  <2>1. /\ x \in Table("revenue")' /\ ~There(x)'
        /\ line = [c \in DOMAIN line |-> line[c]]
        /\ DOMAIN line = {"there", "report", "contract", "kind", "metres"}
        /\ line.there = TRUE /\ x = Place(line.report, line.kind)
        /\ ReportHeld(s, line.report)
        /\ rows[line.report].status # "APPROVED"
        /\ line.report \in DOMAIN open[s].writes
        /\ open[s].writes[line.report] = [status |-> "APPROVED"]
        /\ line.kind = "METERAGE" => line.metres = rows[line.report].to
    BY <1>1, <1>9 DEF Posted
  <2>2. PICK l : l = line
    OBVIOUS
  <2>3. ReportHeld(s, l.report)'
    BY <1>3, <2>1, <2>2
  <2>4. open'[s].writes[x] = l
    BY <2>2
  <2> HIDE DEF line
  <2>5. Posted(s, x)'
    BY <2>1, <2>2, <2>4, <2>3 DEF ReportHeld, Posted, Place
  <2> QED BY <2>5 DEF Reporting
<1> QED BY <1>4, <1>5, <1>6, <1>7, <1>8, <1>9 DEF Reporting

\* A handler that stages what it may keeps the invariant.
LEMMA ReportStaged ==
    ASSUME DrillInv, NEW s \in Sessions, Shape', OthersStay(s), UNCHANGED <<desk, rows>>,
           ReportPending(s)',
           \A t \in Sessions \ {s} :
               \A r \in DOMAIN open[t].writes : ~There(r) /\ r \in Table("reports")
                                                   => r \notin DOMAIN open'[s].writes
    PROVE  DrillInv'
<1>1. ASSUME NEW t \in Sessions, t # s, NEW x \in DOMAIN open'[t].writes
      PROVE  Reporting(t, x)'
  BY <1>1, ReportingStays DEF OthersStay, DrillInv, ReportPending, Reported
<1>2. \A t \in Sessions : ReportPending(t)'
  BY <1>1 DEF ReportPending
<1>3. /\ Table("holes")' = Table("holes") /\ Live("reports")' = Live("reports")
      /\ Live("revenue")' = Live("revenue") /\ DrillingIds' = DrillingIds
  BY DEF Table, Live, There, DrillingIds
<1>4. \A r \in Live("reports")' : ReportRow(rows[r])'
  BY <1>3 DEF DrillInv, ReportRow, HoleRefs
<1>5. \A v \in Live("revenue")' : Charged(v)'
  BY <1>3 DEF DrillInv, Charged, Place
<1> QED BY <1>2, <1>3, <1>4, <1>5 DEF DrillInv

\* One row is written: what may be staged of it.
LEMMA OneReport ==
    ASSUME DrillInv, NEW s \in Sessions, NEW locked, NEW x \in DOMAIN rows, NEW cols,
           StageLocked(s, locked, Set(x, cols)), ~There(x) => \A t \in Sessions : x \notin DOMAIN open[t].writes
    PROVE  /\ Shape' /\ OthersStay(s) /\ UNCHANGED <<desk, rows, torn>>
           /\ DOMAIN open'[s].writes = {x} /\ open'[s].writes[x] = Dirty(x, cols)
           /\ open'[s].locks = locked
           /\ Reporting(s, x)' => DrillInv'
<1>1. Shape
  BY DEF DrillInv
<1>2. DOMAIN Set(x, cols) = {x} /\ Set(x, cols)[x] = cols
  BY DEF Set
<1>3. /\ Shape' /\ OthersStay(s) /\ UNCHANGED <<desk, rows, torn>>
      /\ open'[s].locks = locked
      /\ DOMAIN open'[s].writes
           = {y \in DOMAIN Set(x, cols) : DOMAIN Dirty(y, Set(x, cols)[y]) # {}}
      /\ \A y \in DOMAIN open'[s].writes : open'[s].writes[y] = Dirty(y, Set(x, cols)[y])
  BY <1>1, <1>2, StageShape
<1>4. {y \in DOMAIN Set(x, cols) : DOMAIN Dirty(y, Set(x, cols)[y]) # {}} # {}
  BY <1>1, <1>2 DEF StageLocked
<1>5. DOMAIN open'[s].writes = {x} /\ open'[s].writes[x] = Dirty(x, cols)
  BY <1>2, <1>3, <1>4
<1>6. ASSUME Reporting(s, x)'
      PROVE  DrillInv'
  BY <1>5, <1>6, <1>3, ReportStaged DEF ReportPending
<1> QED BY <1>3, <1>5, <1>6

\* Rows no rule is about: holes and contracts.
LEMMA UnruledKeeps ==
    ASSUME DrillInv, NEW s \in Sessions, NEW x \in Unruled, NEW cols,
           Stage(s, Set(x, cols)), ~There(x) => \A t \in Sessions : x \notin DOMAIN open[t].writes
    PROVE  DrillInv'
  BY OneReport DEF Unruled, Table, Stage, Reporting

\* A hole or a contract is made without touching a report (create_drill_hole,
\* create_project_contract).
LEMMA UnruledInserts ==
    ASSUME DrillInv, NEW s \in Sessions, NEW name \in {"holes", "contracts"}, NEW cols,
           Spare(name) # {}, Stage(s, Insert(name, cols))
    PROVE  DrillInv'
  BY DrillingIdsAre, NewRowIsSpare, UnruledKeeps DEF DrillInv, Unruled, Insert

\* Nobody watches the holes and the contracts here.
LEMMA HoleAndContractSteps ==
    ASSUME DrillInv, NEW s \in Sessions, HoleCreate(s) \/ HoleUpdate(s) \/ ContractStep(s)
    PROVE  DrillInv'
  BY UnruledInserts, UnruledKeeps DEF HoleCreate, HoleUpdate, Live, Unruled, ContractCreate,
     ContractUpdate, ContractDelete, AddRateCard, ContractStep

\* What a report is made with.
LEMMA ReportBodiesAre ==
    ASSUME NEW body \in ReportBodies
    PROVE  /\ body = [c \in DOMAIN body |-> body[c]]
           /\ DOMAIN body = {"site", "hole", "to", "status"} /\ body.hole \in HoleRefs
<1>1. CASE desk = "shifts"
  <2>1. PICK i \in Intervals, site \in Sites : body = Over(i, [site |-> site, status |-> "DRAFT"])
    BY <1>1 DEF ReportBodies
  <2>2. DOMAIN i = {"hole", "to"} /\ i.hole \in HoleRefs
    BY DEF Intervals, HoleRefs
  <2>3. /\ DOMAIN body = {"hole", "to"} \cup {"site", "status"}
        /\ body.hole = i.hole
        /\ body = [c \in DOMAIN body |-> body[c]]
    BY <2>1, <2>2 DEF Over
  <2> QED BY <2>2, <2>3
<1>2. CASE desk # "shifts"
  BY <1>2 DEF ReportBodies, HoleRefs
<1> QED BY <1>1, <1>2

\* A new report is a draft in a row nobody else writes (create_shift_report).
LEMMA ShiftCreateKeeps ==
    ASSUME DrillInv, NEW s \in Sessions, ShiftCreate(s)
    PROVE  DrillInv'
<1>1. PICK body \in ReportBodies :
          /\ Spare("reports") # {}
          /\ StageLocked(s, HoleLock(body), Insert("reports", Over([corrected |-> FALSE], body)))
  BY DEF ShiftCreate
<1>2. Shape /\ \A r \in Table("reports") : r[2] \in Nat
  BY DrillingIdsAre, RowStoreAssumption DEF DrillInv, RowStoreAssumption
<1> DEFINE cols == Over([corrected |-> FALSE], body)
           row == Over([there |-> TRUE], cols)
<1>3. /\ DOMAIN cols = {"corrected", "site", "hole", "to", "status"}
      /\ cols.hole = body.hole
  BY ReportBodiesAre DEF Over
<1> HIDE DEF cols
<1>4. /\ row = [c \in DOMAIN row |-> row[c]]
      /\ DOMAIN row = {"there", "corrected", "site", "hole", "to", "status"}
      /\ row.there = TRUE /\ row.hole = body.hole
  BY <1>3 DEF Over
<1>5. ReportRow(row)
  <2> HIDE DEF row
  <2> QED BY <1>4, ReportBodiesAre DEF ReportRow
<1>6. PICK x : /\ x = NewRow("reports") /\ x \in Table("reports") /\ ~There(x)
               /\ \A t \in Sessions : x \notin DOMAIN open[t].writes
  BY <1>1, <1>2, NewRowIsSpare
<1> HIDE DEF row
<1>7. x \in DOMAIN rows /\ rows[x] = Absent
  BY <1>2, <1>6 DEF Shape, There, Table
<1>8. Dirty(x, row) = row
  BY <1>4, <1>7, NewRowDirty
<1>9. Insert("reports", cols) = Set(x, row)
  BY <1>6 DEF Insert, row
<1>10. PICK locked, kept : /\ kept = row /\ StageLocked(s, locked, Set(x, kept))
                           /\ Dirty(x, kept) = kept
  BY <1>1, <1>8, <1>9 DEF cols
<1>11. /\ OthersStay(s) /\ UNCHANGED <<desk, rows>>
       /\ open'[s].writes[x] = row
       /\ Reporting(s, x)' => DrillInv'
  <2>1. /\ OthersStay(s) /\ UNCHANGED <<desk, rows, torn>>
        /\ open'[s].writes[x] = Dirty(x, kept)
        /\ Reporting(s, x)' => DrillInv'
    <3>1. /\ x \in DOMAIN rows /\ StageLocked(s, locked, Set(x, kept))
          /\ ~There(x) => \A t \in Sessions : x \notin DOMAIN open[t].writes
      BY <1>6, <1>7, <1>10
    <3>2. OthersStay(s)
      BY <3>1, OneReport
    <3>3. UNCHANGED <<desk, rows, torn>>
      BY <3>1, OneReport
    <3>4. open'[s].writes[x] = Dirty(x, kept)
      BY <3>1, OneReport
    <3>5. Reporting(s, x)' => DrillInv'
      BY <3>1, OneReport
    <3> QED BY <3>2, <3>3, <3>4, <3>5
  <2> QED BY <1>10, <2>1
<1>12. Table("reports")' = Table("reports") /\ HoleRefs' = HoleRefs /\ There(x)' = There(x)
  BY <1>11 DEF Table, HoleRefs, There
<1>13. ReportRow(open[s].writes[x])'
  BY <1>5, <1>11, <1>12 DEF ReportRow
<1>14. \A t \in Sessions \ {s} : x \notin DOMAIN open'[t].writes
  BY <1>6, <1>11 DEF OthersStay
<1>15. Reported(s, x)'
  BY <1>6, <1>12, <1>13, <1>14 DEF Reported, ReportRow
<1> QED BY <1>11, <1>15 DEF Reporting

\* A report that is saved again: what changes of it, and what marks it.
LEMMA SaveShiftKeeps ==
    ASSUME DrillInv, NEW s \in Sessions, NEW r \in Live("reports"), NEW body, NEW mark,
           DOMAIN body \subseteq {"site", "hole", "to"},
           "hole" \in DOMAIN body => body.hole \in HoleRefs,
           mark = [corrected |-> TRUE] \/ (DOMAIN mark = {} /\ rows[r].status # "APPROVED"),
           SaveShift(s, r, body, mark)
    PROVE  DrillInv'
<1> DEFINE cols == Over(mark, body)
           sent == Dirty(r, cols)
<1>1. PICK locked : r \in locked /\ StageLocked(s, locked, Set(r, cols))
  BY DEF SaveShift
<1>2. /\ r \in DOMAIN rows /\ There(r) /\ ReportRow(rows[r])
  BY DEF DrillInv, Live, Table
<1>3. /\ DOMAIN cols = DOMAIN mark \cup DOMAIN body
      /\ \A c \in DOMAIN mark : cols[c] = mark[c]
      /\ \A c \in DOMAIN body \ DOMAIN mark : cols[c] = body[c]
  BY DEF Over
<1> HIDE DEF cols
<1>4. /\ DOMAIN cols \subseteq {"site", "hole", "to", "corrected"}
      /\ "hole" \in DOMAIN cols => cols.hole \in HoleRefs
      /\ "corrected" \in DOMAIN cols <=> mark = [corrected |-> TRUE]
      /\ "corrected" \in DOMAIN cols => cols.corrected = TRUE
  BY <1>3
<1>5. /\ DOMAIN sent \subseteq DOMAIN cols
      /\ \A c \in DOMAIN sent : sent[c] = cols[c]
      /\ \A c \in DOMAIN cols \ DOMAIN sent : rows[r][c] = cols[c]
  BY DEF Dirty
<1> HIDE DEF sent
<1>6. /\ UNCHANGED <<desk, rows>>
      /\ open'[s].writes[r] = sent /\ open'[s].locks = locked
      /\ Reporting(s, r)' => DrillInv'
  BY <1>1, <1>2, OneReport DEF sent
<1>7. Live("reports")' = Live("reports") /\ HoleRefs' = HoleRefs
  BY <1>6 DEF Live, Table, There, HoleRefs
<1>8. rows[r].status = "APPROVED" => rows[r].corrected \/ "corrected" \in DOMAIN sent
  BY <1>4, <1>5
<1>9. ReportHeld(s, r)'
  BY <1>1, <1>6, <1>7 DEF ReportHeld
<1>10. Edited(s, r)'
  BY <1>4, <1>5, <1>6, <1>7, <1>8, <1>9 DEF Edited
<1> QED BY <1>6, <1>10 DEF Reporting

\* An edit holds the report from the look at its status to the commit (update_shift_report).
LEMMA EditKeeps ==
    ASSUME DrillInv, NEW s \in Sessions, ShiftUpdate(s) \/ FieldShiftUpdate(s)
    PROVE  DrillInv'
  BY SaveShiftKeeps DEF ReportChanges, Intervals, HoleRefs, ShiftUpdate, FieldShiftUpdate

\* A report is submitted, returned or deleted under its lock, unless approved.
LEMMA StatusKeeps ==
    ASSUME DrillInv, NEW s \in Sessions, ShiftSubmit(s) \/ ShiftReturn(s)
    PROVE  DrillInv'
<1>1. PICK r \in Live("reports"), to \in ShiftReportStatuses :
          /\ rows[r].status # "APPROVED" /\ rows[r].status # to
          /\ StageLocked(s, {r}, Set(r, [status |-> to]))
  BY DEF ShiftSubmit, SetStatus, ShiftReportStatuses, ShiftReturn
<1>2. PICK locked, cols : /\ locked = {r} /\ cols = [status |-> to]
                          /\ StageLocked(s, locked, Set(r, cols))
  BY <1>1
<1>3. r \in DOMAIN rows /\ There(r)
  BY DEF Live, Table
<1>4. Dirty(r, cols) = cols
  BY <1>1, <1>2 DEF Dirty
<1>5. UNCHANGED <<desk, rows, torn>>
  BY <1>2, <1>3, OneReport
<1>6. open'[s].writes[r] = Dirty(r, cols)
  BY <1>2, <1>3, OneReport
<1>7. open'[s].locks = locked
  BY <1>2, <1>3, OneReport
<1>8. Reporting(s, r)' => DrillInv'
  BY <1>2, <1>3, OneReport
<1>9. Live("reports")' = Live("reports")
  BY <1>5 DEF Live, Table, There
<1>10. Moved(s, r)'
  BY <1>1, <1>2, <1>4, <1>5, <1>6, <1>7, <1>9 DEF Moved, ReportHeld
<1> QED BY <1>8, <1>10 DEF Reporting

\* A report that is deleted was not approved (delete_shift_report).
LEMMA ShiftDeleteKeeps ==
    ASSUME DrillInv, NEW s \in Sessions, ShiftDelete(s)
    PROVE  DrillInv'
<1>1. PICK r \in Live("reports") :
          rows[r].status # "APPROVED" /\ StageLocked(s, {r}, Set(r, Absent))
  BY DEF ShiftDelete
<1>2. PICK locked, cols : /\ locked = {r} /\ cols = Absent
                          /\ StageLocked(s, locked, Set(r, cols))
  BY <1>1
<1>3. r \in DOMAIN rows /\ There(r)
  BY DEF Live, Table
<1>4. Dirty(r, cols) = cols
  <2>1. rows[r].there = TRUE
    BY DEF DrillInv, ReportRow
  <2>2. /\ DOMAIN cols = {"there"} /\ cols.there = FALSE
        /\ cols = [c \in DOMAIN cols |-> cols[c]]
    BY <1>2 DEF Absent
  <2>3. {c \in DOMAIN cols : c \notin DOMAIN rows[r] \/ rows[r][c] # cols[c]} = DOMAIN cols
    BY <2>1, <2>2
  <2> QED BY <2>2, <2>3 DEF Dirty
<1>5. UNCHANGED <<desk, rows, torn>>
  BY <1>2, <1>3, OneReport
<1>6. open'[s].writes[r] = Dirty(r, cols)
  BY <1>2, <1>3, OneReport
<1>7. open'[s].locks = locked
  BY <1>2, <1>3, OneReport
<1>8. Reporting(s, r)' => DrillInv'
  BY <1>2, <1>3, OneReport
<1>9. Live("reports")' = Live("reports")
  BY <1>5 DEF Live, Table, There
<1>10. Deleted(s, r)'
  BY <1>1, <1>2, <1>4, <1>5, <1>6, <1>7, <1>9 DEF Deleted, ReportHeld
<1> QED BY <1>8, <1>10 DEF Reporting

\* The revenue of a report that is not approved yet: rows nobody has, each in the
\* place of the report and its kind.
Line(r, v, line) ==
    /\ line = [c \in DOMAIN line |-> line[c]]
    /\ DOMAIN line = {"there", "report", "contract", "kind", "metres"}
    /\ line.there = TRUE /\ line.report = r /\ v = Place(r, line.kind)
    /\ line.kind = "METERAGE" => line.metres = rows[r].to

\* An approval stages charges of its own report, in places that are free, as a report
\* that is not approved has none (calculate_and_post_shift_revenue).
LEMMA RevenueOf ==
    ASSUME DrillInv, NEW r \in Live("reports"), rows[r].status # "APPROVED"
    PROVE  \A v \in DOMAIN PostRevenue(r) :
               v \in Table("revenue") /\ ~There(v) /\ Line(r, v, PostRevenue(r)[v])
<1>1. CASE ActiveContracts = {}
  BY <1>1 DEF PostRevenue
<1>2. CASE ActiveContracts # {}
  <2> DEFINE c == CHOOSE c \in ActiveContracts : TRUE
             old == {v \in Live("revenue") : rows[v].report = r}
             line(kind, metres) == [there |-> TRUE, report |-> r, contract |-> c,
                                    kind |-> kind, metres |-> metres]
             charged == \E v \in Charges("MOBILIZATION") \ old : rows[v].contract = c
             lines == (IF rows[r].hole = NoRef THEN {} ELSE {line("METERAGE", rows[r].to)})
                      \cup (IF rows[c].mobilization /\ ~charged
                            THEN {line("MOBILIZATION", NoDepth)} ELSE {})
             place(l) == Place(r, l.kind)
             new == [v \in {place(l) : l \in lines} |-> CHOOSE l \in lines : place(l) = v]
  <2>1. PostRevenue(r) = Over(new, SetAll(old, Absent))
    BY <1>2 DEF PostRevenue
  <2>2. old = {}
    BY DEF DrillInv, Charged
  <2>3. \A l \in lines : l \in {line("METERAGE", rows[r].to), line("MOBILIZATION", NoDepth)}
    OBVIOUS
  <2> HIDE DEF lines
  <2>4. \A v \in DOMAIN new : new[v] \in lines /\ v = Place(r, new[v].kind)
    OBVIOUS
  <2> HIDE DEF new
  <2>5. ASSUME NEW v \in DOMAIN new
        PROVE  Line(r, v, new[v])
    BY <2>3, <2>4 DEF Line
  <2>6. DOMAIN PostRevenue(r) = DOMAIN new
        /\ \A v \in DOMAIN new : PostRevenue(r)[v] = new[v]
    <3>1. DOMAIN SetAll(old, Absent) = {}
      BY <2>2 DEF SetAll
    <3> HIDE DEF old
    <3> QED BY <2>1, <3>1 DEF Over
  <2>7. ASSUME NEW v \in DOMAIN new
        PROVE  v \in Table("revenue") /\ ~There(v)
    BY <2>4, <1>2, DrillingIdsAre DEF Live, ActiveContracts, DrillInv, Charged
  <2> QED BY <2>5, <2>6, <2>7
<1> QED BY <1>1, <1>2

\* An approval: the report, its hole and its revenue.
LEMMA ShiftApproveKeeps ==
    ASSUME DrillInv, NEW s \in Sessions, ShiftApprove(s)
    PROVE  DrillInv'
<1>1. PICK r, post, cols :
          /\ r \in Live("reports") /\ rows[r].status # "APPROVED" /\ post = PostRevenue(r)
          /\ StageLocked(s, {r}, Over(Set(r, [status |-> "APPROVED"]),
                 Over(IF rows[r].hole = NoRef THEN <<>> ELSE Set(rows[r].hole, cols), post)))
  BY DEF ShiftApprove
<1>2. PICK status, hole, locked, writes :
          /\ status = [status |-> "APPROVED"] /\ locked = {r}
          /\ hole = IF rows[r].hole = NoRef THEN <<>> ELSE Set(rows[r].hole, cols)
          /\ writes = Over(Set(r, status), Over(hole, post))
          /\ StageLocked(s, locked, writes)
  BY <1>1
<1>3. /\ r \in DOMAIN rows /\ There(r) /\ r[1] = "reports" /\ r \in Table("reports")
      /\ rows[r].hole \in HoleRefs
  BY <1>1 DEF DrillInv, Live, Table, ReportRow
<1>4. \A x \in DOMAIN hole : x \in Table("holes") /\ x[1] = "holes"
  BY <1>2, <1>3 DEF HoleRefs, Set, Table
<1>5. \A v \in DOMAIN post :
          /\ v \in Table("revenue") /\ v[1] = "revenue" /\ v \in DOMAIN rows
          /\ ~There(v) /\ Line(r, v, post[v])
  BY <1>1, RevenueOf DEF Table
<1>6. DOMAIN Set(r, status) = {r} /\ Set(r, status)[r] = status
  BY DEF Set
<1>7. /\ DOMAIN writes = {r} \cup DOMAIN hole \cup DOMAIN post
      /\ writes[r] = status
      /\ \A v \in DOMAIN post : writes[v] = post[v]
  BY <1>2, <1>6, <1>3, <1>4, <1>5 DEF Over
<1>8. DOMAIN writes \subseteq DOMAIN rows /\ Shape
  BY <1>3, <1>4, <1>5, <1>7 DEF Table, DrillInv
<1>9. /\ Shape' /\ OthersStay(s) /\ UNCHANGED <<desk, rows, torn>>
      /\ open'[s].locks = locked
      /\ DOMAIN open'[s].writes = {x \in DOMAIN writes : DOMAIN Dirty(x, writes[x]) # {}}
      /\ \A x \in DOMAIN open'[s].writes : open'[s].writes[x] = Dirty(x, writes[x])
  <2>1. StageLocked(s, locked, writes)
    BY <1>2
  <2> QED BY ONLY s \in Sessions, <1>8, <2>1, StageShape
<1>10. Dirty(r, status) = status /\ DOMAIN status = {"status"}
  BY <1>2, <1>1 DEF Dirty
<1>11. r \in DOMAIN open'[s].writes /\ open'[s].writes[r] = status
  BY <1>7, <1>9, <1>10
<1>12. /\ Live("reports")' = Live("reports") /\ Table("revenue")' = Table("revenue")
       /\ Unruled' = Unruled /\ \A x : There(x)' = There(x)
  BY <1>9 DEF Live, Table, There, Unruled
<1>13. Moved(s, r)'
  BY <1>1, <1>2, <1>9, <1>11, <1>12 DEF Moved, ReportHeld, ShiftReportStatuses
<1>14. ASSUME NEW v \in DOMAIN open'[s].writes, v \in DOMAIN post
       PROVE  Posted(s, v)'
  <2>1. PICK line : line = post[v]
    OBVIOUS
  <2>2. /\ line = [c \in DOMAIN line |-> line[c]]
        /\ DOMAIN line = {"there", "report", "contract", "kind", "metres"}
        /\ line.there = TRUE /\ line.report = r /\ v = Place(r, line.kind)
        /\ line.kind = "METERAGE" => line.metres = rows[r].to
    BY <1>5, <1>14, <2>1 DEF Line
  <2>3. rows[v] = Absent
    BY <1>5, <1>8, <1>14 DEF Shape
  <2>4. Dirty(v, line) = line
    BY <2>2, <2>3, NewRowDirty
  <2>5. open'[s].writes[v] = line
    BY <1>7, <1>9, <1>14, <2>1, <2>4
  <2>6. ReportHeld(s, r)'
    BY <1>1, <1>2, <1>9, <1>12 DEF ReportHeld
  <2>7. /\ v \in Table("revenue")' /\ ~There(v)'
    BY <1>5, <1>12, <1>14
  <2>8. /\ line.report = r /\ line.report \in DOMAIN open'[s].writes
        /\ open'[s].writes[r] = [status |-> "APPROVED"]
        /\ rows'[r].status # "APPROVED"
        /\ line.kind = "METERAGE" => line.metres = rows'[r].to
    BY <1>1, <1>2, <1>9, <1>11, <2>2
  <2>9. v = Place(line.report, line.kind)
    BY <2>2
  <2> QED BY <2>2, <2>5, <2>6, <2>7, <2>8, <2>9 DEF Posted, ReportHeld, Place
<1>15. \A x \in DOMAIN open'[s].writes : Reporting(s, x)'
  BY <1>7, <1>9, <1>4, <1>12, <1>13, <1>14 DEF Unruled, Reporting
<1>16. ReportPending(s)'
  BY <1>15 DEF ReportPending
<1>17. ASSUME NEW x \in DOMAIN open'[s].writes, x \in Table("reports")
       PROVE  There(x)
  BY <1>3, <1>4, <1>5, <1>7, <1>9, <1>17 DEF Table
<1> QED BY <1>9, <1>16, <1>17, ReportStaged

\* What a commit does to the reports: an approved one stays, and stays as it is
\* unless it says that it was corrected.
LEMMA ReportLands ==
    ASSUME DrillInv, NEW s \in Sessions, NEW accepted, Commit(s, accepted),
           NEW x \in Live("reports")
    PROVE  /\ rows'[x].there => ReportRow(rows[x])'
           /\ rows[x].status = "APPROVED" =>
                 /\ rows'[x].there /\ rows'[x].status = "APPROVED"
                 /\ rows[x].corrected => rows'[x].corrected
                 /\ \/ rows'[x].hole = rows[x].hole /\ rows'[x].to = rows[x].to
                    \/ rows'[x].corrected
<1> DEFINE cols == open[s].writes[x]
<1>1. /\ DOMAIN rows' = DOMAIN rows
      /\ x \in DOMAIN open[s].writes => rows'[x] = Written(rows[x], cols)
      /\ x \notin DOMAIN open[s].writes => rows'[x] = rows[x]
  BY CommitShape DEF DrillInv, Live, Table
<1>2. /\ x \in DOMAIN rows /\ x[1] = "reports" /\ There(x) /\ ReportRow(rows[x])
  BY DEF DrillInv, Live, Table
<1>3. HoleRefs' = HoleRefs
  BY <1>1 DEF HoleRefs, Table
<1>4. CASE x \notin DOMAIN open[s].writes
  BY <1>1, <1>2, <1>3, <1>4 DEF ReportRow
<1>5. CASE x \in DOMAIN open[s].writes
  <2>1. Edited(s, x) \/ Deleted(s, x) \/ Moved(s, x)
    BY <1>2, <1>5 DEF DrillInv, ReportPending, Reporting, Unruled, Reported, Posted, Table
  <2>2. PICK w : w = cols
    OBVIOUS
  <2>3. rows'[x] = Written(rows[x], w)
    BY <1>1, <1>5, <2>2
  <2> DEFINE row == Over(w, rows[x])
  <2>4. /\ row = [c \in DOMAIN row |-> row[c]]
        /\ DOMAIN row = DOMAIN w \cup DOMAIN rows[x]
        /\ \A c \in DOMAIN w : row[c] = w[c]
        /\ \A c \in DOMAIN rows[x] \ DOMAIN w : row[c] = rows[x][c]
    BY DEF Over
  <2>5. rows'[x] = IF row.there THEN row ELSE Absent
    BY <2>3 DEF Written
  <2> HIDE DEF row, cols
  <2>6. CASE Edited(s, x)
    BY <2>2, <2>6, <1>2, <2>4, <2>5, <1>3 DEF Edited, cols, ReportRow
  <2>7. CASE Deleted(s, x)
    BY <2>2, <2>7, <2>4, <2>5 DEF Deleted, cols, Absent
  <2>8. CASE Moved(s, x)
    BY <2>2, <2>8, <1>2, <2>4, <1>3, <2>5 DEF Moved, cols, ReportRow
  <2> QED BY <2>1, <2>6, <2>7, <2>8
<1> QED BY <1>4, <1>5

\* A report that a commit adds.
LEMMA NewReportLands ==
    ASSUME DrillInv, NEW s \in Sessions, NEW accepted, Commit(s, accepted),
           NEW x \in Table("reports"), ~There(x), rows'[x].there
    PROVE  ReportRow(rows[x])'
<1>1. /\ DOMAIN rows' = DOMAIN rows /\ x \in DOMAIN rows /\ x[1] = "reports"
      /\ x \in DOMAIN open[s].writes => rows'[x] = Written(rows[x], open[s].writes[x])
      /\ x \notin DOMAIN open[s].writes => rows'[x] = rows[x]
  BY CommitShape DEF DrillInv, Table
<1>2. x \in DOMAIN open[s].writes
  BY <1>1 DEF There
<1>3. Reported(s, x)
  BY <1>1, <1>2 DEF DrillInv, ReportPending, Reporting, Unruled, Edited, Deleted, Moved,
     ReportHeld, Posted, Live, Table
<1>4. rows[x] = Absent
  BY <1>1 DEF DrillInv, Shape
<1>5. PICK w : w = open[s].writes[x]
  OBVIOUS
<1>6. /\ w = [c \in DOMAIN w |-> w[c]] /\ "there" \in DOMAIN w /\ w.there = TRUE
      /\ ReportRow(w)
  BY <1>3, <1>5 DEF Reported, ReportRow
<1>7. rows'[x] = w
  BY <1>1, <1>2, <1>4, <1>5, <1>6, NewRowDirty
<1>8. HoleRefs' = HoleRefs
  BY <1>1 DEF HoleRefs, Table
<1> QED BY <1>6, <1>7, <1>8 DEF ReportRow

\* After a commit all revenue is charged: what is posted comes with the approval,
\* in a place nobody has.
LEMMA RevenueLands ==
    ASSUME DrillInv, NEW s \in Sessions, NEW accepted, Commit(s, accepted),
           NEW v \in Live("revenue")'
    PROVE  Charged(v)'
<1>1. /\ DOMAIN rows' = DOMAIN rows /\ v \in DOMAIN rows /\ v[1] = "revenue" /\ rows'[v].there
      /\ v \in Table("revenue")
      /\ v \in DOMAIN open[s].writes => rows'[v] = Written(rows[v], open[s].writes[v])
      /\ v \notin DOMAIN open[s].writes => rows'[v] = rows[v]
  BY CommitShape DEF DrillInv, Live, Table, There
<1>2. Table("reports")' = Table("reports")
  BY <1>1 DEF Table
<1>3. CASE v \notin DOMAIN open[s].writes
  BY <1>1, <1>3, ReportLands, <1>2 DEF DrillInv, Live, There, Charged, Place
<1>4. CASE v \in DOMAIN open[s].writes
  <2>1. Posted(s, v)
    BY <1>1, <1>4 DEF DrillInv, ReportPending, Reporting, Unruled, Reported, Edited, Deleted,
       Moved, ReportHeld, Live, Table
  <2>2. PICK line, r : line = open[s].writes[v] /\ r = line.report
    OBVIOUS
  <2>3. /\ line = [c \in DOMAIN line |-> line[c]]
        /\ DOMAIN line = {"there", "report", "contract", "kind", "metres"}
        /\ line.there = TRUE
        /\ v = Place(r, line.kind)
        /\ r \in Live("reports") /\ r \in DOMAIN open[s].writes
        /\ open[s].writes[r] = [status |-> "APPROVED"]
        /\ line.kind = "METERAGE" => line.metres = rows[r].to
    BY <2>1, <2>2 DEF Posted, ReportHeld
  <2>4. rows[v] = Absent
    BY <1>1, <2>1 DEF Posted, DrillInv, Shape
  <2>5. rows'[v] = line
    <3>1. rows'[v] = Written(Absent, line)
      BY <1>1, <1>4, <2>2, <2>4
    <3>2. Over(line, Absent) = line
      BY <2>3 DEF Over, Absent
    <3> QED BY <2>3, <3>1, <3>2 DEF Written
  <2>6. PICK w : w = [status |-> "APPROVED"]
    OBVIOUS
  <2>7. rows'[r] = Written(rows[r], w)
    BY <2>3, <2>6, CommitShape DEF DrillInv, Live, Table
  <2>8. ReportRow(rows[r])
    BY <2>3 DEF DrillInv
  <2>9. /\ Over(w, rows[r]).there = TRUE /\ Over(w, rows[r]).status = "APPROVED"
        /\ Over(w, rows[r]).to = rows[r].to
    BY <2>6, <2>8 DEF ReportRow, Over
  <2>10. rows'[r].there /\ rows'[r].status = "APPROVED" /\ rows'[r].to = rows[r].to
    BY <2>7, <2>9 DEF Written
  <2>11. r \in Live("reports")'
    BY <1>2, <2>3, <2>10 DEF Live, There
  <2>12. /\ rows'[v].report = r /\ rows'[v].kind = line.kind /\ rows'[v].metres = line.metres
    BY <2>2, <2>5
  <2>13. rows'[v].kind = "METERAGE" => rows'[v].metres = rows'[r].to
    BY <2>3, <2>10, <2>12
  <2>14. v = Place(r, rows'[v].kind)
    BY <2>3, <2>12
  <2> QED BY <2>10, <2>11, <2>12, <2>13, <2>14 DEF Charged, Place
<1> QED BY <1>3, <1>4

\* What the others have staged stands when a session commits.
LEMMA OthersReport ==
    ASSUME DrillInv, NEW s \in Sessions, NEW accepted, Commit(s, accepted),
           NEW t \in Sessions \ {s}, NEW x \in DOMAIN open'[t].writes
    PROVE  Reporting(t, x)'
<1>1. /\ DOMAIN rows' = DOMAIN rows /\ desk' = desk
      /\ open'[t].writes = open[t].writes /\ open'[t].locks = open[t].locks
      /\ \A u \in Sessions \ {s} : open'[u].writes = open[u].writes
      /\ DOMAIN open'[s].writes = {}
      /\ \A y \in DOMAIN rows : y \notin DOMAIN open[s].writes => rows'[y] = rows[y]
      /\ DOMAIN open[s].writes \cap open[t].locks = {}
  BY CommitShape DEF DrillInv, OthersStay
<1>2. /\ Table("reports")' = Table("reports") /\ Table("revenue")' = Table("revenue")
      /\ HoleRefs' = HoleRefs /\ Unruled' = Unruled
  BY <1>1 DEF Table, HoleRefs, Unruled
<1>3. Reporting(t, x)
  BY <1>1 DEF DrillInv, ReportPending
<1>4. ASSUME NEW y, ReportHeld(t, y)
      PROVE  ReportHeld(t, y)' /\ rows'[y] = rows[y] /\ y \notin DOMAIN open[s].writes
  BY <1>1, <1>2, <1>4 DEF ReportHeld, Live, Table, There
<1>5. CASE x \in Unruled
  BY <1>2, <1>5 DEF Reporting
<1>6. CASE Reported(t, x)
  BY <1>6, <1>1, <1>2 DEF Reported, Table, ReportRow, There, Reporting
<1>7. CASE Edited(t, x)
  BY <1>4, <1>7, <1>1, <1>2 DEF Edited, Reporting
<1>8. CASE Deleted(t, x)
  BY <1>4, <1>8, <1>1 DEF Deleted, Reporting
<1>9. CASE Moved(t, x)
  BY <1>4, <1>9, <1>1 DEF Moved, Reporting
<1>10. CASE Posted(t, x)
  <2>1. PICK line, r : line = open[t].writes[x] /\ r = line.report
    OBVIOUS
  <2>2. /\ x \in Table("revenue") /\ ~There(x) /\ ReportHeld(t, r)
        /\ line = [c \in DOMAIN line |-> line[c]]
        /\ DOMAIN line = {"there", "report", "contract", "kind", "metres"}
        /\ line.there = TRUE
        /\ x = Place(r, line.kind)
        /\ r \in DOMAIN open[t].writes
        /\ open[t].writes[r] = [status |-> "APPROVED"]
        /\ rows[r].status # "APPROVED"
        /\ line.kind = "METERAGE" => line.metres = rows[r].to
    BY <1>10, <2>1 DEF Posted
  <2>3. ReportHeld(t, r)' /\ rows'[r] = rows[r] /\ r \notin DOMAIN open[s].writes
    BY <1>4, <2>2
  <2>4. x \notin DOMAIN open[s].writes
    <3>1. SUFFICES ASSUME x \in DOMAIN open[s].writes PROVE FALSE
      OBVIOUS
    <3>2. Reporting(s, x)
      BY <3>1 DEF DrillInv, ReportPending
    <3>3. Posted(s, x)
      BY <2>2, <3>2 DEF Reporting, Unruled, Reported, Edited, Deleted, Moved, ReportHeld,
         Live, Table
    <3>4. PICK q, k : /\ x = Place(q, k) /\ q \in Table("reports")
                      /\ q \in DOMAIN open[s].writes
      BY <3>3 DEF Posted, ReportHeld, Live
    <3>5. r \in Table("reports")
      BY <2>2 DEF ReportHeld, Live
    <3>6. \A r1, q1 \in Table("reports") : \A k1, l1 : Place(r1, k1) = Place(q1, l1) => r1 = q1
      BY DrillingIdsAre DEF DrillInv
    <3>7. x = Place(r, line.kind)
      BY <2>2
    <3>8. Place(q, k) = Place(r, line.kind)
      BY <3>4, <3>7
    <3>9. q = r
      BY <3>4, <3>5, <3>6, <3>8
    <3> QED BY <2>3, <3>4, <3>9
  <2>5. x \in DOMAIN rows /\ rows'[x] = rows[x]
    BY <1>1, <2>2, <2>4 DEF Table
  <2>6. x \in Table("revenue")' /\ ~There(x)'
    BY <1>2, <2>2, <2>5 DEF There
  <2>7. /\ r \in DOMAIN open'[t].writes /\ open'[t].writes[r] = [status |-> "APPROVED"]
        /\ open'[t].writes[x] = line
        /\ rows'[r].status # "APPROVED"
        /\ line.kind = "METERAGE" => line.metres = rows'[r].to
    BY <1>1, <2>1, <2>2, <2>3
  <2>8. Posted(t, x)'
    BY <2>1, <2>2, <2>3, <2>6, <2>7 DEF Posted, ReportHeld, Place
  <2> QED BY <2>8 DEF Reporting
<1> QED BY <1>3, <1>5, <1>6, <1>7, <1>8, <1>9, <1>10 DEF Reporting

\* Every commit at the desks of drilling keeps the invariant.
LEMMA DrillCommitKeeps ==
    ASSUME DrillInv, NEW s \in Sessions, NEW accepted, Commit(s, accepted)
    PROVE  DrillInv'
  BY CommitShape, ReportLands, NewReportLands, RevenueLands, OthersReport DEF DrillInv,
     DrillingIds, Table, Live, There, ReportPending

\* The desk for programs has neither reports nor revenue.
DrillingInv ==
    IF desk = "programs" THEN Table("reports") = {} ELSE DrillInv

\* At the beginning nothing is charged and no request is under way.
LEMMA DrillingStarts == DrillingInit => DrillingInv
  BY InitShape DEF DrillingInit, DrillingTables, There, DrillingIds, DrillingInv, Table,
     Live, Absent, DrillInv, ReportPending

\* A request that ends without a commit leaves the rows alone.
LEMMA DrillAbortKeeps ==
    ASSUME DrillInv, NEW s \in Sessions, Abort(s)
    PROVE  DrillInv'
  BY AbortShape, ReportStaged DEF DrillInv, ReportPending

\* So does a step of somebody else.
LEMMA DrillStutterKeeps ==
    ASSUME DrillInv, UNCHANGED storeVars
    PROVE  DrillInv'
<1>1. Shape' /\ rows' = rows /\ desk' = desk /\ open' = open
  BY StutterShape DEF DrillInv, storeVars
<1>2. /\ Table("holes")' = Table("holes") /\ Live("reports")' = Live("reports")
      /\ Live("revenue")' = Live("revenue") /\ DrillingIds' = DrillingIds
  BY <1>1 DEF Table, Live, There, DrillingIds
<1>3. \A r \in Live("reports")' : ReportRow(rows[r])'
  BY <1>1, <1>2 DEF DrillInv, ReportRow, HoleRefs
<1>4. \A v \in Live("revenue")' : Charged(v)'
  BY <1>1, <1>2 DEF DrillInv, Charged, Place
<1>5. ASSUME NEW t \in Sessions, NEW x \in DOMAIN open'[t].writes
      PROVE  Reporting(t, x)'
  BY <1>1, ReportingStays DEF DrillInv, ReportPending, Reported
<1>6. \A t \in Sessions : ReportPending(t)'
  BY <1>5 DEF ReportPending
<1> QED BY <1>1, <1>2, <1>3, <1>4, <1>6 DEF DrillInv

\* What a handler of this desk does, and that it changes no row.
LEMMA DrillingHandlers ==
    ASSUME DrillInv, NEW s \in Sessions, DrillingStep(s)
    PROVE  DrillInv' /\ UNCHANGED <<desk, rows>>
<1>1. desk # "programs"
  BY DEF DrillInv
<1>2. ReportStep(s) \/ HoleCreate(s) \/ HoleUpdate(s) \/ ContractStep(s)
  BY <1>1 DEF DrillingStep
<1>3. CASE ReportStep(s)
  <2>1. DrillInv'
    BY <1>3, ShiftCreateKeeps, EditKeeps, StatusKeeps, ShiftDeleteKeeps, ShiftApproveKeeps
       DEF ReportStep
  <2>2. \E locked, writes : StageLocked(s, locked, writes)
    BY <1>3 DEF ReportStep, ShiftCreate, ShiftUpdate, FieldShiftUpdate, SaveShift, ShiftSubmit,
       ShiftReturn, SetStatus, ShiftDelete, ShiftApprove
  <2> QED BY <2>1, <2>2 DEF StageLocked
<1>4. CASE HoleCreate(s) \/ HoleUpdate(s) \/ ContractStep(s)
  BY <1>4, HoleAndContractSteps DEF HoleCreate, HoleUpdate, ContractStep, ContractCreate,
     ContractUpdate, ContractDelete, AddRateCard, Stage, StageLocked
<1> QED BY <1>2, <1>3, <1>4

\* What is done to programs stages rows, and commits none.
LEMMA ProgramHandlers ==
    ASSUME desk = "programs", NEW s \in Sessions, DrillingStep(s)
    PROVE  UNCHANGED <<desk, rows>>
  BY DEF DrillingStep, ProgramStep, Stage, StageLocked

\* Every step of the desks of drilling keeps the invariant.
LEMMA DrillingSteps == DrillingInv /\ [DrillingNext]_storeVars => DrillingInv'
  BY ProgramHandlers, DrillingHandlers, DrillCommitKeeps, DrillAbortKeeps, DrillStutterKeeps
     DEF DrillingCommit, Commit, After, Abort, storeVars, DrillingNext, DrillingInv, Table,
     DrillInv

\* What is charged for metres is charged once.
LEMMA DrillingIsCharged == ASSUME DrillInv PROVE ChargedOnce
<1>1. \A v \in Charges("METERAGE") : Charged(v) /\ rows[v].kind = "METERAGE"
  BY DEF Charges, DrillInv
<1>2. ASSUME NEW v \in Charges("METERAGE")
      PROVE  LET r == rows[v].report
             IN /\ There(r) /\ rows[r].status = "APPROVED"
                /\ rows[v].metres = rows[r].to \/ rows[r].corrected
                /\ \A w \in Charges("METERAGE") : rows[w].report = r => v = w
  <2> DEFINE r == rows[v].report
  <2>1. /\ v = Place(r, "METERAGE") /\ r \in Live("reports") /\ rows[r].status = "APPROVED"
        /\ rows[v].metres = rows[r].to \/ rows[r].corrected
    BY <1>1 DEF Charged
  <2>2. \A w \in Charges("METERAGE") : w = Place(rows[w].report, "METERAGE")
    BY <1>1 DEF Charged
  <2> QED BY <2>1, <2>2 DEF Live
<1> QED BY <1>2 DEF ChargedOnce

\* What a step may do to an approved report (ApprovalIsFinal).
ApprovedStay ==
    \A r \in Table("reports") :
        There(r) /\ rows[r].status = "APPROVED" =>
            /\ rows'[r].there /\ rows'[r].status = "APPROVED"
            /\ <<rows'[r].hole, rows'[r].to>> # <<rows[r].hole, rows[r].to>>
                   => rows'[r].corrected

\* A step that finds a report approved leaves it so: whoever else wrote it would have
\* to hold it, and saw it approved (update_shift_report, delete_shift_report).
LEMMA ApprovalStands == ASSUME DrillInv, [DrillingNext]_storeVars PROVE ApprovedStay
  BY ReportLands, DrillingHandlers DEF ApprovedStay, There, DrillingCommit, Live, Abort,
     storeVars, DrillingNext

-----------------------------------------------------------------------------
(* Business numbers. *)

\* A session that draws holds the counter and takes it to the next number, or
\* makes a counter; the number goes to a document of its own.
DocumentFor(s, d, n) ==
    /\ d \in Table("documents") /\ Fresh(s, d)
    /\ open[s].writes[d] = [there |-> TRUE, number |-> n]

DrawsNext(s, c, d) ==
    /\ c \in Live("counters") /\ c \in open[s].locks
    /\ DOMAIN open[s].writes = {c, d}
    /\ open[s].writes[c] = [value |-> rows[c].value + 1]
    /\ DocumentFor(s, d, rows[c].value + 1)

DrawsFirst(s, c, d) ==
    /\ c \in Table("counters") /\ Fresh(s, c)
    /\ DOMAIN open[s].writes = {c, d}
    /\ open[s].writes[c] = [there |-> TRUE, value |-> 1]
    /\ DocumentFor(s, d, 1)

Drawing(s) ==
    \/ DOMAIN open[s].writes = {}
    \/ \E c, d \in DOMAIN rows : DrawsNext(s, c, d) \/ DrawsFirst(s, c, d)

\* There is one counter at most, and it is where the documents are.
CounterFits ==
    /\ \A c, e \in Live("counters") : c = e
    /\ \A c \in Live("counters") :
          rows[c] = [there |-> TRUE, value |-> rows[c].value] /\ rows[c].value \in Nat
    /\ \A d \in Live("documents") :
          /\ rows[d].number \in Nat
          /\ \E c \in Live("counters") : rows[d].number <= rows[c].value
    /\ \A d, e \in Live("documents") : rows[d].number = rows[e].number => d = e

DrawInv ==
    /\ Shape
    /\ desk = "numbers" /\ DOMAIN rows = PurchaseIds
    /\ CounterFits
    /\ \A s \in Sessions : Drawing(s)

\* The rows of a desk of purchases have numbers.
LEMMA PurchaseNumbers ==
    ASSUME DOMAIN rows = PurchaseIds, NEW name
    PROVE  \A r \in Table(name) : r[2] \in Nat
  BY DEF PurchaseIds, Table

\* The rows of counters and documents.
LEMMA DrawnRows ==
    ASSUME NEW n
    PROVE  /\ Over([there |-> TRUE], [number |-> n]) = [there |-> TRUE, number |-> n]
           /\ Over([there |-> TRUE], [value |-> n]) = [there |-> TRUE, value |-> n]
<1> DEFINE a == Over([there |-> TRUE], [number |-> n])
           b == Over([there |-> TRUE], [value |-> n])
<1>1. /\ a = [c \in DOMAIN a |-> a[c]] /\ DOMAIN a = {"there", "number"}
      /\ a.there = TRUE /\ a.number = n
  BY DEF Over
<1>2. /\ b = [c \in DOMAIN b |-> b[c]] /\ DOMAIN b = {"there", "value"}
      /\ b.there = TRUE /\ b.value = n
  BY DEF Over
<1> HIDE DEF a, b
<1>3. a = [there |-> TRUE, number |-> n] /\ b = [there |-> TRUE, value |-> n]
  BY <1>1, <1>2
<1> QED BY <1>3 DEF a, b

\* What a handler that draws a number stages.
LEMMA DrawStages ==
    ASSUME DrawInv, NEW s \in Sessions, NextBusinessNumber(s)
    PROVE  /\ Shape' /\ OthersStay(s) /\ UNCHANGED <<desk, rows, torn>> /\ TakesSpare(s)
           /\ Drawing(s)'
<1>1. Shape /\ \A name : \A r \in Table(name) : r[2] \in Nat
  BY PurchaseNumbers DEF DrawInv
<1>2. ASSUME NEW n \in Nat, NEW c \in Table("counters"), NEW locked, NEW cols,
             Dirty(c, cols) = cols, DOMAIN cols # {},
             There(c) \/ \A t \in Sessions : c \notin DOMAIN open[t].writes,
             StageLocked(s, locked, Over(Set(c, cols), Insert("documents", [number |-> n])))
      PROVE  \E d :
                /\ Shape' /\ OthersStay(s) /\ UNCHANGED <<desk, rows, torn>> /\ TakesSpare(s)
                /\ open'[s].locks = locked /\ DOMAIN open'[s].writes = {c, d}
                /\ open'[s].writes[c] = cols
                /\ DocumentFor(s, d, n)'
  <2>1. c \in DOMAIN rows /\ c[1] # "documents" /\ Spare("documents") # {}
    BY DEF Table, NextBusinessNumber
  <2>2. PICK row : /\ row = [number |-> n]
                   /\ WritesWith(s, locked, c, cols, "documents", row)
    BY <1>2, <2>1 DEF WritesWith
  <2>7. PICK d : TakesRow(s, "documents", d)
    BY <1>1, <2>1, NewRowTaken
  <2>6. /\ Shape' /\ OthersStay(s) /\ UNCHANGED <<desk, rows, torn>> /\ TakesSpare(s)
        /\ open'[s].locks = locked
        /\ DOMAIN open'[s].writes = {c, d} /\ open'[s].writes[c] = cols
        /\ Inserts(s, d)' /\ open'[s].writes[d] = Over([there |-> TRUE], row)
    BY <1>1, <2>2, <2>7, StageWith
  <2>3. Table("documents")' = Table("documents")
    BY <2>6 DEF Table
  <2>4. open'[s].writes[d] = [there |-> TRUE, number |-> n]
    BY <2>2, <2>6, DrawnRows
  <2>5. DocumentFor(s, d, n)'
    BY <2>3, <2>4, <2>6, <2>7 DEF DocumentFor, Inserts, TakesRow
  <2> QED BY <2>5, <2>6
<1>3. ASSUME NEW c \in Live("counters"),
             StageLocked(s, {c}, Over(Set(c, [value |-> rows[c].value + 1]),
                                      Insert("documents", [number |-> rows[c].value + 1])))
      PROVE  /\ Shape' /\ OthersStay(s) /\ UNCHANGED <<desk, rows, torn>> /\ TakesSpare(s)
             /\ Drawing(s)'
  <2>1. c \in DOMAIN rows /\ c[1] = "counters" /\ There(c) /\ rows[c].value \in Nat
        /\ DOMAIN rows[c] = {"there", "value"} /\ c \in Table("counters")
    BY DEF Live, Table, DrawInv, CounterFits
  <2>7. PICK n \in Nat : n = rows[c].value + 1
    BY <2>1
  <2>2. PICK locked, cols :
            /\ locked = {c} /\ cols = [value |-> n]
            /\ StageLocked(s, locked, Over(Set(c, cols), Insert("documents", [number |-> n])))
    BY <1>3, <2>7
  <2>3. Dirty(c, cols) = cols /\ DOMAIN cols # {}
    BY <2>1, <2>7, <2>2 DEF Dirty
  <2>4. PICK d :
        /\ Shape' /\ OthersStay(s) /\ UNCHANGED <<desk, rows, torn>> /\ TakesSpare(s)
        /\ open'[s].locks = locked /\ DOMAIN open'[s].writes = {c, d}
        /\ open'[s].writes[c] = cols
        /\ DocumentFor(s, d, n)'
    BY <1>2, <2>1, <2>2, <2>3
  <2>5. c \in Live("counters")' /\ rows'[c].value + 1 = n
    BY <2>1, <2>4, <2>7 DEF Live, Table, There
  <2>6. DrawsNext(s, c, d)'
    BY <2>2, <2>4, <2>5 DEF DrawsNext, DocumentFor
  <2> QED BY <2>4, <2>6 DEF Drawing, DrawsNext, DocumentFor, Live, Table
<1>4. ASSUME Spare("counters") # {},
             Stage(s, Over(Insert("counters", [value |-> 1]), Insert("documents", [number |-> 1])))
      PROVE  /\ Shape' /\ OthersStay(s) /\ UNCHANGED <<desk, rows, torn>> /\ TakesSpare(s)
             /\ Drawing(s)'
  <2>1. PICK c : TakesRow(s, "counters", c)
    BY <1>1, <1>4, NewRowTaken
  <2>8. /\ c \in Table("counters") /\ c = NewRow("counters") /\ Fresh(s, c) /\ rows[c] = Absent
        /\ \A t \in Sessions : c \notin DOMAIN open[t].writes
    BY <2>1 DEF TakesRow
  <2>2. c \in DOMAIN rows /\ c[1] = "counters"
    BY <2>8 DEF Table
  <2>3. PICK n, locked, cols :
            /\ n \in Nat /\ n = 1 /\ locked = {} /\ cols = [there |-> TRUE, value |-> 1]
            /\ StageLocked(s, locked, Over(Set(c, cols), Insert("documents", [number |-> n])))
    BY DrawnRows, <2>8, <1>4 DEF Insert, Stage
  <2>4. Dirty(c, cols) = cols /\ DOMAIN cols # {}
    BY <2>3, <2>2, <2>8, NewRowDirty
  <2>5. PICK d :
        /\ Shape' /\ OthersStay(s) /\ UNCHANGED <<desk, rows, torn>> /\ TakesSpare(s)
        /\ open'[s].locks = locked /\ DOMAIN open'[s].writes = {c, d}
        /\ open'[s].writes[c] = cols
        /\ DocumentFor(s, d, n)'
    BY <1>2, <2>2, <2>3, <2>4, <2>8
  <2>6. c \in Table("counters")' /\ Fresh(s, c)'
    BY <2>2, <2>5, <2>8 DEF Table, Fresh, OthersStay, There
  <2>7. DrawsFirst(s, c, d)'
    BY <2>3, <2>5, <2>6 DEF DrawsFirst, DocumentFor
  <2> QED BY <2>5, <2>7 DEF Drawing, DrawsFirst, DocumentFor, Table
<1> QED BY <1>3, <1>4 DEF NextBusinessNumber

\* So a request that has drawn a number still has it (next_business_number).
LEMMA DrawingKept ==
    ASSUME NEW t \in Sessions, Kept(t), Drawing(t)
    PROVE  Drawing(t)'
<1>1. /\ Table("counters")' = Table("counters") /\ Table("documents")' = Table("documents")
      /\ open'[t].writes = open[t].writes /\ open'[t].locks = open[t].locks
      /\ DOMAIN rows' = DOMAIN rows
  BY DEF Kept, Table
<1>2. CASE DOMAIN open[t].writes = {}
  BY <1>1, <1>2 DEF Drawing
<1>3. ASSUME NEW c, NEW d, NEW n, d \in DOMAIN open[t].writes, DocumentFor(t, d, n)
      PROVE  DocumentFor(t, d, n)'
  BY <1>3, <1>1 DEF Kept, DocumentFor
<1>4. ASSUME NEW c, NEW d, DrawsNext(t, c, d)
      PROVE  Drawing(t)'
  <2>1. rows'[c] = rows[c]
    BY <1>4 DEF DrawsNext, Live, Table, Kept
  <2>2. c \in Live("counters")'
    BY <1>1, <1>4, <2>1 DEF DrawsNext, Live, There
  <2>3. PICK n : n = rows[c].value + 1
    OBVIOUS
  <2>4. DocumentFor(t, d, n)'
    BY <1>3, <1>4, <2>3 DEF DrawsNext
  <2>5. DrawsNext(t, c, d)'
    BY <1>1, <1>4, <2>1, <2>2, <2>3, <2>4 DEF DrawsNext, DocumentFor
  <2>6. c \in DOMAIN rows' /\ d \in DOMAIN rows'
    BY <1>1, <1>4 DEF DrawsNext, DocumentFor, Live, Table
  <2> QED BY <2>5, <2>6 DEF Drawing
<1>5. ASSUME NEW c, NEW d, DrawsFirst(t, c, d)
      PROVE  Drawing(t)'
  BY <1>5, <1>3, <1>1 DEF DrawsFirst, Kept, DocumentFor, Table, Drawing
<1> QED BY <1>2, <1>4, <1>5 DEF Drawing

\* A number that is drawn is one more than any, and the first one is the only one:
\* a second counter is refused.
LEMMA DrawLands ==
    ASSUME DrawInv, NEW s \in Sessions, PurchaseCommit(s)
    PROVE  CounterFits'
<1>1. PICK accepted : Commit(s, accepted) /\ accepted = PurchaseConstraints(After(s))
  BY DEF PurchaseCommit
<1>2. /\ DOMAIN rows' = DOMAIN rows
      /\ \A r \in DOMAIN rows :
            /\ r \in DOMAIN open[s].writes => rows'[r] = Written(rows[r], open[s].writes[r])
            /\ r \notin DOMAIN open[s].writes => rows'[r] = rows[r]
      /\ accepted
  BY <1>1, CommitShape DEF DrawInv
<1>3. \A c, e \in Live("counters")' : c = e
  BY <1>1, <1>2 DEF Commit, PurchaseConstraints, Clash, Live, Table, There
<1>4. /\ Table("counters")' = Table("counters") /\ Table("documents")' = Table("documents")
  BY <1>2 DEF Table
<1>5. CASE DOMAIN open[s].writes = {}
  BY <1>2, <1>5, <1>1 DEF DrawInv, Shape, Commit, After, CounterFits, Live, Table, There
<1>6. ASSUME NEW c \in Table("counters"), NEW d, NEW n \in Nat, DocumentFor(s, d, n),
             DOMAIN open[s].writes = {c, d}, rows'[c] = [there |-> TRUE, value |-> n],
             \A e \in Live("documents") : rows[e].number < n,
             \A e \in Live("counters") : e = c
      PROVE  CounterFits'
  <2>1. rows'[d] = [there |-> TRUE, number |-> n]
    <3>1. rows[d] = Absent /\ d \in DOMAIN rows /\ d \in DOMAIN open[s].writes
      BY <1>6 DEF DocumentFor, Fresh, DrawInv, Shape
    <3>2. PICK w : w = [there |-> TRUE, number |-> n] /\ w = open[s].writes[d]
      BY <1>6 DEF DocumentFor
    <3>3. w = [a \in DOMAIN w |-> w[a]] /\ w.there = TRUE /\ "there" \in DOMAIN w
      BY <3>2
    <3>4. Written(Absent, w) = w
      BY <3>1, <3>3, NewRowDirty
    <3> QED BY <1>2, <3>1, <3>2, <3>4
  <2>2. \A e \in Live("documents")' : e = d \/ (e \in Live("documents") /\ rows'[e] = rows[e])
    BY <1>4, <1>6, <1>2 DEF Live, Table, There
  <2>3. c \in Live("counters")'
    BY <1>4, <1>6 DEF Live, There
  <2>4. \A e \in Live("counters")' : e = c
    BY <1>3, <2>3
  <2>5. rows'[d].number = n /\ rows'[c].value = n
    BY <1>6, <2>1
  <2>6. \A e \in Live("documents") : rows[e].number \in Nat
    BY DEF DrawInv, CounterFits
  <2>7. \A e \in Live("documents")' : rows'[e].number \in Nat /\ rows'[e].number <= rows'[c].value
    BY <1>6, <2>2, <2>5, <2>6
  <2>8. ASSUME NEW e \in Live("documents")', NEW f \in Live("documents")',
               rows'[e].number = rows'[f].number
        PROVE  e = f
    BY <1>6, <2>2, <2>5, <2>6, <2>8 DEF DrawInv, CounterFits
  <2> QED BY <1>3, <1>6, <2>3, <2>4, <2>5, <2>7, <2>8 DEF CounterFits
<1>7. ASSUME NEW c, NEW d, DrawsNext(s, c, d)
      PROVE  CounterFits'
  <2>1. /\ c \in DOMAIN rows /\ c \in Table("counters")
        /\ rows[c] = [there |-> TRUE, value |-> rows[c].value] /\ rows[c].value \in Nat
        /\ \A e \in Live("counters") : e = c
        /\ \A e \in Live("documents") : rows[e].number \in Nat /\ rows[e].number <= rows[c].value
    BY <1>7 DEF DrawsNext, DrawInv, CounterFits, Live, Table
  <2>2. PICK n \in Nat : n = rows[c].value + 1
    BY <2>1
  <2>3. PICK w, row : w = [value |-> n] /\ row = rows[c]
    OBVIOUS
  <2>4. Over(w, row) = [there |-> TRUE, value |-> n]
    <3> DEFINE o == Over(w, row)
    <3>1. DOMAIN w = {"value"} /\ w.value = n /\ DOMAIN row = {"there", "value"} /\ row.there = TRUE
      BY <2>1, <2>3
    <3>2. /\ o = [a \in DOMAIN o |-> o[a]] /\ DOMAIN o = {"there", "value"}
          /\ o.there = TRUE /\ o.value = n
      BY <3>1 DEF Over
    <3> HIDE DEF o
    <3>3. o = [there |-> TRUE, value |-> n]
      BY <3>2
    <3> QED BY <3>3 DEF o
  <2>5. rows'[c] = Written(row, w)
    BY <1>2, <1>7, <2>1, <2>2, <2>3 DEF DrawsNext
  <2>6. rows'[c] = [there |-> TRUE, value |-> n]
    BY <2>4, <2>5 DEF Written
  <2>7. \A e \in Live("documents") : rows[e].number < n
    BY <2>1, <2>2
  <2> QED BY <1>6, <1>7, <2>1, <2>2, <2>6, <2>7 DEF DrawsNext
<1>8. ASSUME NEW c, NEW d, DrawsFirst(s, c, d)
      PROVE  CounterFits'
  <2>1. /\ c \in DOMAIN rows /\ c \in Table("counters") /\ rows[c] = Absent /\ c # d
    BY <1>8 DEF DrawsFirst, DocumentFor, Fresh, DrawInv, Shape, Table
  <2>2. PICK w : w = [there |-> TRUE, value |-> 1] /\ w = open[s].writes[c]
    BY <1>8 DEF DrawsFirst
  <2>3. Written(Absent, w) = w
    BY <2>2, <2>1, NewRowDirty
  <2>4. rows'[c] = [there |-> TRUE, value |-> 1]
    BY <1>2, <1>8, <2>1, <2>2, <2>3 DEF DrawsFirst
  <2>5. Live("counters") = {}
    BY <1>8, <1>2, <1>4, <2>1, <2>4, <1>3 DEF DrawsFirst, Fresh, Live, DocumentFor, Table,
       There
  <2>6. Live("documents") = {}
    BY <2>5 DEF DrawInv, CounterFits
  <2> QED BY <1>6, <1>8, <2>1, <2>4, <2>5, <2>6 DEF DrawsFirst
<1> QED BY <1>5, <1>7, <1>8 DEF DrawInv, Drawing

\* Every handler of this desk leaves the desk and the rows alone.
LEMMA PurchaseHandlers ==
    ASSUME NEW s \in Sessions, PurchaseStep(s)
    PROVE  UNCHANGED <<desk, rows>>
<1>1. \E locked, writes : StageLocked(s, locked, writes)
  BY DEF OrderCreate, OrderUpdate, OrderSubmit, OrderApprove, ReceiveGoods, ExpenseCreate,
     Stage, ExpenseUpdate, CompleteExpense, NextBusinessNumber, PurchaseStep
<1> QED BY <1>1 DEF StageLocked

NumbersInv == desk \in DOMAIN PurchaseTables /\ (desk = "numbers" => DrawInv)

\* At the beginning no number is drawn.
LEMMA NumbersStart == PurchaseInit => NumbersInv
  BY InitShape DEF NumbersInv, PurchaseInit, Live, Table, There, Absent, DrawInv, Drawing,
     CounterFits

\* Every step at the desk of numbers keeps them apart.
LEMMA NumbersSteps == NumbersInv /\ [PurchaseNext]_storeVars => NumbersInv'
<1> SUFFICES ASSUME NumbersInv, [PurchaseNext]_storeVars PROVE NumbersInv'
  OBVIOUS
<1>1. desk' = desk
  BY PurchaseHandlers DEF PurchaseCommit, Commit, Abort, PurchaseNext, storeVars
<1>2. ASSUME desk = "numbers"
      PROVE  DrawInv'
  <2>1. DrawInv /\ Shape
    BY <1>2 DEF NumbersInv, DrawInv
  <2>2. ASSUME rows' = rows, Shape', \A t \in Sessions : Drawing(t)'
        PROVE  DrawInv'
    <3>1. CounterFits'
      BY <2>1, <2>2 DEF DrawInv, CounterFits, Live, Table, There
    <3> QED BY <1>1, <2>1, <2>2, <3>1 DEF DrawInv, PurchaseIds
  <2>3. ASSUME NEW s \in Sessions, PurchaseStep(s)
        PROVE  DrawInv'
    BY <1>2, <2>3, <2>1, DrawStages, StageLeaves, DrawingKept, <2>2 DEF PurchaseStep,
       DrawInv
  <2>4. ASSUME NEW s \in Sessions, PurchaseCommit(s)
        PROVE  DrawInv'
    BY <2>4, <2>1, CommitShape, DrawLands, CommitLeaves, DrawingKept, <1>1 DEF
       PurchaseCommit, DrawInv, Drawing, PurchaseIds
  <2>5. ASSUME NEW s \in Sessions, Abort(s)
        PROVE  DrawInv'
    BY <2>1, <2>5, AbortShape, AbortLeaves, DrawingKept, <2>2 DEF DrawInv, Drawing
  <2>6. ASSUME UNCHANGED storeVars
        PROVE  DrawInv'
    BY <2>1, <2>6, StutterShape, StutterLeaves, DrawingKept, <2>2 DEF storeVars, DrawInv
  <2> QED BY <2>3, <2>4, <2>5, <2>6 DEF PurchaseNext
<1> QED BY <1>1, <1>2 DEF NumbersInv

-----------------------------------------------------------------------------
(* The logs of a machine. *)

\* A session that writes a log holds the machine, which is in use, and leaves it alone.
Logging(s) ==
    DOMAIN open[s].writes \cap Table("logs") # {} =>
        \A m \in Table("machines") :
            /\ m \in open[s].locks /\ m \notin DOMAIN open[s].writes
            /\ There(m) /\ rows[m].active

LogsInv ==
    /\ Shape
    /\ desk = "logs" /\ DOMAIN rows = SiteIds
    /\ \A s \in Sessions : Logging(s)

\* The numbers of the rows at a site, and the one machine.
LEMMA SiteNumbers ==
    ASSUME DOMAIN rows = SiteIds
    PROVE  /\ \A name : \A r \in Table(name) : r[2] \in Nat
           /\ \A m, q \in Table("machines") : m = q
<1>1. \A r \in DOMAIN rows : r = <<r[1], r[2]>> /\ r[2] \in Numbers
  BY DEF SiteIds
<1>2. \A m \in Table("machines") : m = <<"machines", 1>>
  BY <1>1 DEF SiteIds, Table
<1> QED BY <1>1, <1>2, RowStoreAssumption DEF RowStoreAssumption, Table

\* What a session has staged of the logs stands: it holds the machine.
LEMMA LoggingKept ==
    ASSUME NEW t \in Sessions, Kept(t), Logging(t)
    PROVE  Logging(t)'
  BY DEF Kept, Table, Logging, There

\* What a handler of this desk stages.
LEMMA LogStages ==
    ASSUME LogsInv, NEW s \in Sessions, LogStep(s)
    PROVE  /\ Shape' /\ OthersStay(s) /\ UNCHANGED <<desk, rows, torn>> /\ TakesSpare(s)
           /\ Logging(s)'
<1>1. /\ Shape /\ \A name : \A r \in Table(name) : r[2] \in Nat
      /\ \A m, q \in Table("machines") : m = q
  BY SiteNumbers DEF LogsInv
<1>2. CASE CreateLog(s)
  BY <1>2, <1>1, NewRowTaken, StageNew DEF CreateLog, WritableAsset, Live, TakesRow, Table,
     Logging, There
<1>3. CASE EditLog(s)
  BY <1>3, <1>1, StageThere DEF EditLog, WritableAsset, Set, Live, Table, Logging, There
<1>4. CASE RetireMachine(s)
  BY <1>4, <1>1, StageThere DEF RetireMachine, Set, Live, Table, Logging
<1> QED BY <1>2, <1>3, <1>4 DEF LogStep

\* A step at this desk: a log changes only while the machine is in use.
LEMMA LogSteps ==
    ASSUME LogsInv, [SiteNext]_storeVars
    PROVE  /\ LogsInv'
           /\ \A l \in Table("logs") : rows'[l] # rows[l] =>
                 \A m \in Table("machines") : rows'[m] = rows[m] /\ There(m) /\ rows[m].active
<1>1. Shape /\ \A t \in Sessions : Logging(t)
  BY DEF LogsInv
<1>2. ASSUME Shape', rows' = rows, desk' = desk, \A t \in Sessions : Logging(t)'
      PROVE  LogsInv'
  BY <1>2 DEF LogsInv, SiteIds
<1>3. ASSUME NEW s \in Sessions, SiteStep(s)
      PROVE  LogsInv' /\ rows' = rows
  BY <1>3, LogStages, <1>1, StageLeaves, LoggingKept, <1>2 DEF SiteStep, LogsInv
<1>4. ASSUME NEW s \in Sessions, NEW accepted, Commit(s, accepted)
      PROVE  /\ LogsInv'
             /\ \A l \in Table("logs") : rows'[l] # rows[l] =>
                   \A m \in Table("machines") : rows'[m] = rows[m] /\ There(m) /\ rows[m].active
  <2>1. /\ Shape' /\ DOMAIN rows' = DOMAIN rows /\ desk' = desk
        /\ DOMAIN open'[s].writes = {}
        /\ \A r \in DOMAIN rows : r \notin DOMAIN open[s].writes => rows'[r] = rows[r]
    BY <1>1, <1>4, CommitShape
  <2>2. Logging(s)'
    BY <2>1 DEF Logging
  <2>3. \A t \in Sessions \ {s} : Logging(t)'
    BY <1>1, <1>4, CommitLeaves, LoggingKept
  <2>4. \A l \in Table("logs") : rows'[l] # rows[l] =>
            \A m \in Table("machines") : rows'[m] = rows[m] /\ There(m) /\ rows[m].active
    BY <1>1, <2>1 DEF Logging, Table
  <2> QED BY <2>1, <2>2, <2>3, <2>4 DEF LogsInv, SiteIds
<1>5. ASSUME NEW s \in Sessions, Abort(s)
      PROVE  LogsInv' /\ rows' = rows
  BY <1>1, <1>5, AbortShape, AbortLeaves, LoggingKept, <1>2 DEF Logging
<1>6. ASSUME UNCHANGED storeVars
      PROVE  LogsInv' /\ rows' = rows
  BY <1>1, <1>6, StutterShape, StutterLeaves, LoggingKept, <1>2 DEF storeVars
<1>7. CASE UNCHANGED storeVars
  BY <1>6, <1>7
<1>8. CASE SiteNext
  BY <1>8, <1>3, <1>4, <1>5 DEF SiteNext
<1> QED BY <1>7, <1>8

-----------------------------------------------------------------------------
(* Under the lock of the inventory. *)

\* Whoever has staged anything has the lock.
UnderLock(s) ==
    DOMAIN open[s].writes # {} => InventoryLock # {} /\ InventoryLock \subseteq open[s].locks

\* The advisory lock of the inventory is one row.
LEMMA LockIsOne == ASSUME Names # {} PROVE InventoryLock # {}
<1>1. PICK n \in Names : TRUE
  OBVIOUS
<1>2. <<"usage", n>> \in InventoryLock
  BY DEF InventoryLock
<1> QED BY <1>2

\* So nobody else has staged anything.
LEMMA OneAtATime ==
    ASSUME Shape, NEW s \in Sessions, NEW t \in Sessions \ {s}, UnderLock(s), UnderLock(t),
           DOMAIN open[s].writes # {}
    PROVE  DOMAIN open[t].writes = {}
  BY DEF Shape, UnderLock

\* Committing nothing changes nothing.
LEMMA EmptyCommit ==
    ASSUME Shape, NEW s \in Sessions, NEW accepted, Commit(s, accepted), DOMAIN open[s].writes = {}
    PROVE  rows' = rows
  BY CommitShape DEF Commit, After, Shape

(* Consumables used in the field. *)

\* A session issues what is not issued yet.
Issuing(s) ==
    \/ DOMAIN open[s].writes = {}
    \/ \E r \in Table("issues") :
          /\ DOMAIN open[s].writes = {r} /\ Inserts(s, r)
          /\ \A i \in Live("issues") : rows[i].submission # open[s].writes[r].submission

SubmittedOnce == \A i, j \in Live("issues") : rows[i].submission = rows[j].submission => i = j

IssuesInv ==
    /\ Shape
    /\ desk = "consumables" /\ DOMAIN rows = SiteIds
    /\ SubmittedOnce
    /\ \A s \in Sessions : UnderLock(s) /\ Issuing(s)

\* What a session has staged stands as long as no row changes.
LEMMA IssuingKept ==
    ASSUME NEW t \in Sessions, Kept(t), rows' = rows, UnderLock(t), Issuing(t)
    PROVE  UnderLock(t)' /\ Issuing(t)'
<1>1. open'[t].writes = open[t].writes /\ open'[t].locks = open[t].locks
  BY DEF Kept
<1>2. UnderLock(t)'
  BY <1>1 DEF UnderLock, InventoryLock
<1>3. ASSUME NEW r \in Table("issues"), DOMAIN open[t].writes = {r}, Inserts(t, r)
      PROVE  Inserts(t, r)'
  BY <1>3, <1>1 DEF Kept, Inserts
<1>4. Issuing(t)'
  BY <1>1, <1>3 DEF Issuing, Table, Live, There
<1> QED BY <1>2, <1>4

\* The submission is looked for and the issue staged under the lock.
LEMMA IssueStages ==
    ASSUME IssuesInv, NEW s \in Sessions, LogConsumption(s)
    PROVE  /\ Shape' /\ OthersStay(s) /\ UNCHANGED <<desk, rows, torn>> /\ TakesSpare(s)
           /\ UnderLock(s)' /\ Issuing(s)'
<1>1. Shape /\ \A name : \A r \in Table(name) : r[2] \in Nat
  BY SiteNumbers DEF IssuesInv
<1>2. PICK submission \in Names, approval \in BOOLEAN :
          /\ Spare("issues") # {}
          /\ \A i \in Live("issues") : rows[i].submission # submission
          /\ StageLocked(s, InventoryLock,
                Insert("issues", [submission |-> submission,
                                  status |-> IF approval THEN "DRAFT" ELSE "POSTED"]))
  BY DEF LogConsumption
<1>3. PICK cols, locked :
          /\ locked = InventoryLock
          /\ cols = [submission |-> submission,
                     status |-> IF approval THEN "DRAFT" ELSE "POSTED"]
          /\ StageLocked(s, locked, Insert("issues", cols))
  BY <1>2
<1>4. PICK r : TakesRow(s, "issues", r)
  BY <1>1, <1>2, NewRowTaken
<1>5. /\ Shape' /\ OthersStay(s) /\ UNCHANGED <<desk, rows, torn>> /\ TakesSpare(s)
      /\ open'[s].locks = locked /\ DOMAIN open'[s].writes = {r} /\ Inserts(s, r)'
      /\ open'[s].writes[r] = Over([there |-> TRUE], cols)
  BY <1>1, <1>3, <1>4, StageNew
<1>6. open'[s].writes[r].submission = submission
  BY <1>3, <1>5 DEF Over
<1>7. r \in Table("issues")'
  BY <1>4, <1>5 DEF TakesRow, Table
<1>8. \A i \in Live("issues")' : rows'[i].submission # submission
  BY <1>2, <1>5 DEF Live, Table, There
<1>9. Issuing(s)'
  BY <1>5, <1>6, <1>7, <1>8 DEF Issuing
<1>10. UnderLock(s)'
  <2>1. <<"usage", submission>> \in InventoryLock
    BY DEF InventoryLock
  <2> QED BY <1>3, <1>5, <2>1 DEF UnderLock, InventoryLock
<1> QED BY <1>5, <1>9, <1>10

\* What is issued is of a submission that no issue has.
LEMMA IssueLands ==
    ASSUME IssuesInv, NEW s \in Sessions, NEW accepted, Commit(s, accepted)
    PROVE  SubmittedOnce'
  BY CommitShape, EmptyCommit, InsertLands DEF IssuesInv, SubmittedOnce, Live, Table, There,
     Issuing

\* A step at this desk.
LEMMA IssueSteps ==
    ASSUME IssuesInv, [SiteNext]_storeVars
    PROVE  IssuesInv'
<1>1. Shape /\ \A t \in Sessions : UnderLock(t) /\ Issuing(t)
  BY DEF IssuesInv
<1>2. ASSUME Shape', rows' = rows, desk' = desk, \A t \in Sessions : UnderLock(t)' /\ Issuing(t)'
      PROVE  IssuesInv'
  BY <1>2 DEF IssuesInv, SiteIds, SubmittedOnce, Live, Table, There
<1>3. ASSUME NEW s \in Sessions, SiteStep(s)
      PROVE  IssuesInv'
  BY <1>3, IssueStages, <1>1, StageLeaves, IssuingKept, <1>2 DEF SiteStep, IssuesInv
<1>4. ASSUME NEW s \in Sessions, NEW accepted, Commit(s, accepted)
      PROVE  IssuesInv'
  <2>1. /\ Shape' /\ DOMAIN rows' = DOMAIN rows /\ desk' = desk
        /\ DOMAIN open'[s].writes = {} /\ OthersStay(s)
    BY <1>1, <1>4, CommitShape
  <2>2. UnderLock(s)' /\ Issuing(s)'
    BY <2>1 DEF UnderLock, Issuing
  <2>3. \A t \in Sessions \ {s} : UnderLock(t)' /\ Issuing(t)'
    BY <1>1, <1>4, EmptyCommit, CommitLeaves, IssuingKept, OneAtATime, <2>1 DEF OthersStay,
       UnderLock, Issuing
  <2>4. SubmittedOnce'
    BY <1>4, IssueLands
  <2> QED BY <2>1, <2>2, <2>3, <2>4 DEF IssuesInv, SiteIds
<1>5. ASSUME NEW s \in Sessions, Abort(s)
      PROVE  IssuesInv'
  BY <1>1, <1>5, AbortShape, AbortLeaves, IssuingKept, <1>2 DEF UnderLock, Issuing
<1>6. CASE UNCHANGED storeVars
  BY <1>1, <1>6, StutterShape, StutterLeaves, IssuingKept, <1>2 DEF storeVars
<1>8. CASE SiteNext
  BY <1>8, <1>3, <1>4, <1>5 DEF SiteNext
<1> QED BY <1>6, <1>8

-----------------------------------------------------------------------------
(* Imports of items and of opening stock. *)

ImportTables == Table("items") \cup Table("receipts")

\* What an import has made.
Made(i) == {r \in Live("items") \cup Live("receipts") : rows[r].import = i}

\* Nothing before it is confirmed, one row after.
ImportFits(i) ==
    /\ {"there", "kind", "status"} \subseteq DOMAIN rows[i]
    /\ rows[i].kind \in ImportKinds /\ Names # {}
    /\ \/ rows[i].status = "PREVIEW" /\ Made(i) = {}
       \/ rows[i].status = "COMPLETED" /\ \E r : Made(i) = {r}

\* A session saves an item, keeps a preview, or confirms an import it holds.
Saves(s, r) ==
    /\ DOMAIN open[s].writes = {r} /\ Inserts(s, r)
    /\ r \in ImportTables /\ open[s].writes[r].import = NoRef

Previews(s, i) ==
    LET w == open[s].writes[i]
    IN /\ DOMAIN open[s].writes = {i} /\ Inserts(s, i) /\ i \in Table("imports")
       /\ {"there", "kind", "status"} \subseteq DOMAIN w
       /\ w.kind \in ImportKinds /\ w.status = "PREVIEW" /\ Names # {}

Confirms(s, i, r) ==
    /\ DOMAIN open[s].writes = {i, r} /\ Inserts(s, r)
    /\ r \in ImportTables /\ open[s].writes[r].import = i
    /\ i \in Live("imports") /\ rows[i].status = "PREVIEW"
    /\ open[s].writes[i] = [status |-> "COMPLETED"]

Importing(s) ==
    \/ DOMAIN open[s].writes = {}
    \/ \E r \in DOMAIN rows : Saves(s, r) \/ Previews(s, r)
    \/ \E i, r \in DOMAIN rows : Confirms(s, i, r)

AppliedOnce ==
    /\ \A i \in Live("imports") : ImportFits(i)
    /\ \A r \in Live("items") \cup Live("receipts") :
           rows[r].import = NoRef \/ rows[r].import \in Live("imports")

ImportsInv ==
    /\ Shape
    /\ desk = "imports" /\ DOMAIN rows = SiteIds
    /\ AppliedOnce
    /\ \A s \in Sessions : UnderLock(s) /\ Importing(s)

\* What a session has staged stands as long as no row changes.
LEMMA ImportingKept ==
    ASSUME NEW t \in Sessions, Kept(t), rows' = rows, UnderLock(t), Importing(t)
    PROVE  UnderLock(t)' /\ Importing(t)'
<1>1. /\ open'[t].writes = open[t].writes /\ open'[t].locks = open[t].locks
      /\ \A name : Table(name)' = Table(name)
  BY DEF Kept, Table
<1>2. UnderLock(t)'
  BY <1>1 DEF UnderLock, InventoryLock
<1>3. ASSUME NEW r \in DOMAIN open[t].writes, Inserts(t, r)
      PROVE  Inserts(t, r)'
  BY <1>3, <1>1 DEF Kept, Inserts
<1>4. ASSUME NEW r \in DOMAIN rows, Saves(t, r)
      PROVE  Saves(t, r)'
  BY <1>1, <1>3, <1>4 DEF Saves, ImportTables, Table
<1>5. ASSUME NEW r \in DOMAIN rows, Previews(t, r)
      PROVE  Previews(t, r)'
  BY <1>1, <1>3, <1>5 DEF Previews, Table
<1>6. ASSUME NEW i \in DOMAIN rows, NEW r \in DOMAIN rows, Confirms(t, i, r)
      PROVE  Confirms(t, i, r)'
  BY <1>1, <1>3, <1>6 DEF Confirms, ImportTables, Table, Live, There
<1>7. Importing(t)'
  BY <1>1, <1>4, <1>5, <1>6 DEF Importing
<1> QED BY <1>2, <1>7

\* A handler of this desk checks and stages under the lock of the inventory.
LEMMA ImportStages ==
    ASSUME ImportsInv, NEW s \in Sessions, ImportStep(s)
    PROVE  /\ Shape' /\ OthersStay(s) /\ UNCHANGED <<desk, rows, torn>> /\ TakesSpare(s)
           /\ UnderLock(s)' /\ Importing(s)'
<1>1. Shape /\ \A name : \A r \in Table(name) : r[2] \in Nat
  BY SiteNumbers DEF ImportsInv
<1>2. ASSUME NEW name, NEW cols, Names # {}, Spare(name) # {},
             StageLocked(s, InventoryLock, Insert(name, cols))
      PROVE  \E r \in DOMAIN rows :
                /\ Shape' /\ OthersStay(s) /\ UNCHANGED <<desk, rows, torn>> /\ TakesSpare(s)
                /\ UnderLock(s)' /\ r \in Table(name)
                /\ DOMAIN open'[s].writes = {r} /\ Inserts(s, r)'
                /\ open'[s].writes[r] = Over([there |-> TRUE], cols)
  BY <1>2, <1>1, NewRowTaken, StageNew, LockIsOne DEF UnderLock, InventoryLock, TakesRow,
     Table
<1>3. CASE MasterSave(s)
  <2>1. PICK code \in Names :
            /\ Spare("items") # {}
            /\ StageLocked(s, InventoryLock, Insert("items", [code |-> code, import |-> NoRef]))
    BY <1>3 DEF MasterSave
  <2>2. PICK cols : /\ cols = [code |-> code, import |-> NoRef]
                    /\ StageLocked(s, InventoryLock, Insert("items", cols))
    BY <2>1
  <2>3. PICK r \in DOMAIN rows :
            /\ Shape' /\ OthersStay(s) /\ UNCHANGED <<desk, rows, torn>> /\ TakesSpare(s)
            /\ UnderLock(s)' /\ r \in Table("items")
            /\ DOMAIN open'[s].writes = {r} /\ Inserts(s, r)'
            /\ open'[s].writes[r] = Over([there |-> TRUE], cols)
    BY <1>2, <2>1, <2>2
  <2>4. open'[s].writes[r].import = NoRef
    BY <2>2, <2>3 DEF Over
  <2>5. Saves(s, r)'
    BY <2>3, <2>4 DEF Saves, ImportTables, Table
  <2> QED BY <2>3, <2>5 DEF Importing
<1>4. CASE PreviewImport(s)
  <2>1. PICK kind \in ImportKinds, code \in Names :
            /\ Spare("imports") # {}
            /\ StageLocked(s, InventoryLock,
                  Insert("imports", [kind |-> kind, code |-> code, status |-> "PREVIEW",
                                     errors |-> RowFails(kind, code)]))
    BY <1>4 DEF PreviewImport
  <2>2. PICK cols : /\ cols = [kind |-> kind, code |-> code, status |-> "PREVIEW",
                               errors |-> RowFails(kind, code)]
                    /\ StageLocked(s, InventoryLock, Insert("imports", cols))
    BY <2>1
  <2>3. PICK r \in DOMAIN rows :
            /\ Shape' /\ OthersStay(s) /\ UNCHANGED <<desk, rows, torn>> /\ TakesSpare(s)
            /\ UnderLock(s)' /\ r \in Table("imports")
            /\ DOMAIN open'[s].writes = {r} /\ Inserts(s, r)'
            /\ open'[s].writes[r] = Over([there |-> TRUE], cols)
    BY <1>2, <2>1, <2>2
  <2>4. /\ {"there", "kind", "status"} \subseteq DOMAIN open'[s].writes[r]
        /\ open'[s].writes[r].kind \in ImportKinds /\ open'[s].writes[r].status = "PREVIEW"
    BY <2>2, <2>3 DEF Over
  <2>5. Previews(s, r)'
    BY <2>1, <2>3, <2>4 DEF Previews, Table
  <2> QED BY <2>3, <2>5 DEF Importing
<1>5. CASE ConfirmImport(s)
  <2>1. PICK i \in Live("imports") :
            /\ rows[i].status = "PREVIEW" /\ Spare(rows[i].kind) # {}
            /\ StageLocked(s, InventoryLock \cup {i},
                  Over(Set(i, [status |-> "COMPLETED"]),
                       Insert(rows[i].kind, [code |-> rows[i].code, import |-> i])))
    BY <1>5 DEF ConfirmImport
  <2>2. PICK name, cols, change, locked :
            /\ name = rows[i].kind /\ cols = [code |-> rows[i].code, import |-> i]
            /\ change = [status |-> "COMPLETED"] /\ locked = InventoryLock \cup {i}
            /\ StageLocked(s, locked, Over(Set(i, change), Insert(name, cols)))
    BY <2>1
  <2>3. /\ i \in DOMAIN rows /\ i[1] = "imports" /\ There(i)
        /\ name \in ImportKinds /\ name # "imports"
    BY <2>1, <2>2 DEF Live, Table, ImportsInv, AppliedOnce, ImportFits, ImportKinds
  <2>4. Dirty(i, change) = change /\ DOMAIN change # {}
    BY <2>1, <2>2 DEF Dirty
  <2>5. WritesWith(s, locked, i, change, name, cols)
    BY <2>2, <2>3, <2>4 DEF WritesWith
  <2>6. PICK r : TakesRow(s, name, r)
    BY <1>1, <2>1, <2>2, NewRowTaken
  <2>7. /\ Shape' /\ OthersStay(s) /\ UNCHANGED <<desk, rows, torn>> /\ TakesSpare(s)
        /\ open'[s].locks = locked
        /\ DOMAIN open'[s].writes = {i, r} /\ open'[s].writes[i] = change
        /\ Inserts(s, r)' /\ open'[s].writes[r] = Over([there |-> TRUE], cols)
    BY <1>1, <2>5, <2>6, StageWith
  <2>8. open'[s].writes[r].import = i
    BY <2>2, <2>7 DEF Over
  <2>9. r \in ImportTables' /\ r \in DOMAIN rows'
    BY <2>3, <2>6, <2>7 DEF TakesRow, ImportTables, Table, ImportKinds
  <2>10. i \in Live("imports")' /\ rows'[i].status = "PREVIEW"
    BY <2>1, <2>7 DEF Live, Table, There
  <2>11. Confirms(s, i, r)'
    BY <2>2, <2>7, <2>8, <2>9, <2>10 DEF Confirms
  <2>12. InventoryLock # {}
    BY <2>1, LockIsOne DEF ImportsInv, AppliedOnce, ImportFits
  <2>13. UnderLock(s)'
    BY <2>2, <2>7, <2>12 DEF UnderLock, InventoryLock
  <2> QED BY <2>3, <2>7, <2>9, <2>11, <2>13 DEF Importing
<1> QED BY <1>3, <1>4, <1>5 DEF ImportStep

\* The rows being the same, so is what imports have made.
LEMMA AppliedStays ==
    ASSUME rows' = rows, AppliedOnce
    PROVE  AppliedOnce'
<1>1. \A name : Live(name)' = Live(name)
  BY DEF Live, Table, There
<1>2. \A i : Made(i)' = Made(i)
  BY <1>1 DEF Made
<1>3. \A i : ImportFits(i)' <=> ImportFits(i)
  BY <1>2 DEF ImportFits
<1> QED BY <1>1, <1>3 DEF AppliedOnce

\* An import has made nothing before it is confirmed, and one row when that lands.
LEMMA ImportLands ==
    ASSUME ImportsInv, NEW s \in Sessions, NEW accepted, Commit(s, accepted)
    PROVE  AppliedOnce'
<1>1. /\ Shape /\ AppliedOnce /\ Importing(s)
      /\ DOMAIN rows' = DOMAIN rows
      /\ \A r \in DOMAIN rows :
            /\ r \in DOMAIN open[s].writes => rows'[r] = Written(rows[r], open[s].writes[r])
            /\ r \notin DOMAIN open[s].writes => rows'[r] = rows[r]
  BY CommitShape DEF ImportsInv
<1>2. CASE DOMAIN open[s].writes = {}
  BY <1>1, <1>2, EmptyCommit, AppliedStays
<1>3. /\ Table("imports")' = Table("imports") /\ ImportTables' = ImportTables
      /\ ImportTables \cap Table("imports") = {} /\ NoRef \notin Table("imports")
      /\ Live("items") \cup Live("receipts") = {r \in ImportTables : There(r)}
      /\ (Live("items") \cup Live("receipts"))' = {r \in ImportTables : rows'[r].there}
      /\ ImportTables \subseteq DOMAIN rows /\ Table("imports") \subseteq DOMAIN rows
  BY <1>1 DEF Table, ImportTables, NoRef, Live, There
<1>4. ASSUME NEW r \in ImportTables, r \in DOMAIN open[s].writes,
             DOMAIN open[s].writes \cap ImportTables = {r}, Inserts(s, r)
      PROVE  /\ rows'[r] = open[s].writes[r] /\ rows'[r].there /\ ~There(r)
             /\ \A q \in ImportTables \ {r} : rows'[q] = rows[q]
             /\ \A i : Made(i)' = Made(i) \cup (IF open[s].writes[r].import = i THEN {r} ELSE {})
  <2>1. rows'[r] = open[s].writes[r] /\ rows'[r].there /\ ~There(r)
    BY <1>1, <1>4, InsertLands DEF Inserts, Fresh
  <2>2. \A q \in ImportTables \ {r} : rows'[q] = rows[q]
    BY <1>1, <1>3, <1>4
  <2>3. ASSUME NEW i
        PROVE  Made(i)' = Made(i) \cup (IF open[s].writes[r].import = i THEN {r} ELSE {})
    BY <1>3, <1>4, <2>1, <2>2 DEF Made, There
  <2> QED BY <2>1, <2>2, <2>3
<1>5. ASSUME NEW r \in DOMAIN rows, Saves(s, r)
      PROVE  AppliedOnce'
  <2>1. /\ rows'[r] = open[s].writes[r] /\ r \in ImportTables
        /\ \A q \in ImportTables \ {r} : rows'[q] = rows[q]
        /\ \A i : Made(i)' = Made(i) \cup (IF open[s].writes[r].import = i THEN {r} ELSE {})
    BY <1>4, <1>5 DEF Saves
  <2>2. \A i \in Table("imports") : rows'[i] = rows[i] /\ Made(i)' = Made(i)
    BY <1>1, <1>3, <1>5, <2>1 DEF Saves
  <2>3. Live("imports")' = Live("imports")
    BY <1>3, <2>2 DEF Live, There
  <2>4. \A i \in Live("imports")' : ImportFits(i)'
    BY <1>1, <2>2, <2>3 DEF AppliedOnce, ImportFits, Live
  <2>5. \A q \in (Live("items") \cup Live("receipts"))' :
            rows'[q].import = NoRef \/ rows'[q].import \in Live("imports")'
    BY <1>1, <1>3, <1>5, <2>1, <2>3 DEF Saves, AppliedOnce, There
  <2> QED BY <2>4, <2>5 DEF AppliedOnce
<1>6. ASSUME NEW x \in DOMAIN rows, Previews(s, x)
      PROVE  AppliedOnce'
  <2>1. rows'[x] = open[s].writes[x] /\ rows'[x].there /\ ~There(x)
    BY <1>1, <1>6, InsertLands DEF Previews, Inserts, Fresh
  <2>2. \A q \in DOMAIN rows \ {x} : rows'[q] = rows[q]
    BY <1>1, <1>6 DEF Previews
  <2>3. \A q \in ImportTables : rows'[q] = rows[q]
    BY <1>3, <1>6, <2>2 DEF Previews
  <2>4. (Live("items") \cup Live("receipts"))' = Live("items") \cup Live("receipts")
    BY <1>3, <2>3 DEF There
  <2>5. \A i : Made(i)' = Made(i)
    BY <1>3, <2>3, <2>4 DEF Made
  <2>6. Live("imports")' = Live("imports") \cup {x}
    BY <1>3, <1>6, <2>1, <2>2 DEF Live, There, Previews
  <2>7. Made(x) = {}
    BY <1>3, <1>6, <2>1, <1>1 DEF Live, Previews, AppliedOnce, Made
  <2>8. ImportFits(x)'
    BY <1>6, <2>1, <2>5, <2>7 DEF Previews, ImportFits
  <2>9. \A i \in Live("imports") : i # x /\ i \in DOMAIN rows
    BY <1>3, <2>1 DEF Live
  <2>10. \A i \in Live("imports") : ImportFits(i)'
    BY <1>1, <2>2, <2>5, <2>9 DEF AppliedOnce, ImportFits
  <2>11. \A q \in (Live("items") \cup Live("receipts"))' :
             rows'[q].import = NoRef \/ rows'[q].import \in Live("imports")'
    BY <1>1, <1>3, <2>3, <2>4, <2>6 DEF AppliedOnce
  <2> QED BY <2>6, <2>8, <2>10, <2>11 DEF AppliedOnce
<1>7. ASSUME NEW i \in DOMAIN rows, NEW r \in DOMAIN rows, Confirms(s, i, r)
      PROVE  AppliedOnce'
  <2>1. /\ i \in Live("imports") /\ i \in Table("imports") /\ i \notin ImportTables /\ i # r
        /\ ImportFits(i) /\ Made(i) = {} /\ rows[i].there
    BY <1>1, <1>3, <1>7 DEF Confirms, Live, AppliedOnce, ImportFits, There
  <2>2. /\ rows'[r] = open[s].writes[r] /\ r \in ImportTables
        /\ \A q \in ImportTables \ {r} : rows'[q] = rows[q]
        /\ \A j : Made(j)' = Made(j) \cup (IF open[s].writes[r].import = j THEN {r} ELSE {})
    BY <1>4, <1>7, <2>1 DEF Confirms
  <2>3. \A j \in Table("imports") \ {i} : rows'[j] = rows[j] /\ Made(j)' = Made(j)
    BY <1>1, <1>3, <1>7, <2>2 DEF Confirms
  <2>4. /\ {"there", "kind", "status"} \subseteq DOMAIN rows'[i] /\ rows'[i].there
        /\ rows'[i].kind = rows[i].kind /\ rows'[i].status = "COMPLETED"
    <3>1. PICK w, row : w = [status |-> "COMPLETED"] /\ row = rows[i]
      OBVIOUS
    <3>2. /\ {"there", "kind", "status"} \subseteq DOMAIN Over(w, row) /\ Over(w, row).there
          /\ Over(w, row).kind = row.kind /\ Over(w, row).status = "COMPLETED"
      BY <2>1, <3>1 DEF Over, ImportFits
    <3>3. rows'[i] = Written(row, w)
      BY <1>1, <1>7, <3>1 DEF Confirms
    <3> QED BY <3>1, <3>2, <3>3 DEF Written
  <2>5. Live("imports")' = Live("imports")
    BY <1>3, <2>1, <2>3, <2>4 DEF Live, There
  <2>6. Made(i)' = {r}
    BY <1>7, <2>1, <2>2 DEF Confirms
  <2>7. ImportFits(i)'
    BY <2>1, <2>4, <2>6 DEF ImportFits
  <2>8. \A j \in Live("imports") \ {i} : ImportFits(j)'
    BY <1>1, <2>3 DEF AppliedOnce, ImportFits, Live
  <2>9. \A q \in (Live("items") \cup Live("receipts"))' :
            rows'[q].import = NoRef \/ rows'[q].import \in Live("imports")'
    BY <1>1, <1>3, <1>7, <2>1, <2>2, <2>5 DEF Confirms, AppliedOnce, There
  <2> QED BY <2>5, <2>7, <2>8, <2>9 DEF AppliedOnce
<1> QED BY <1>1, <1>2, <1>5, <1>6, <1>7 DEF Importing

\* A step at this desk.
LEMMA ImportSteps ==
    ASSUME ImportsInv, [SiteNext]_storeVars
    PROVE  ImportsInv'
<1>1. Shape /\ \A t \in Sessions : UnderLock(t) /\ Importing(t)
  BY DEF ImportsInv
<1>2. ASSUME Shape', rows' = rows, desk' = desk, \A t \in Sessions : UnderLock(t)' /\ Importing(t)'
      PROVE  ImportsInv'
  BY <1>2, AppliedStays DEF ImportsInv, SiteIds
<1>3. ASSUME NEW s \in Sessions, SiteStep(s)
      PROVE  ImportsInv'
  BY <1>3, ImportStages, <1>1, StageLeaves, ImportingKept, <1>2 DEF SiteStep, ImportsInv
<1>4. ASSUME NEW s \in Sessions, NEW accepted, Commit(s, accepted)
      PROVE  ImportsInv'
  <2>1. /\ Shape' /\ DOMAIN rows' = DOMAIN rows /\ desk' = desk
        /\ DOMAIN open'[s].writes = {} /\ OthersStay(s)
    BY <1>1, <1>4, CommitShape
  <2>2. UnderLock(s)' /\ Importing(s)'
    BY <2>1 DEF UnderLock, Importing
  <2>3. \A t \in Sessions \ {s} : UnderLock(t)' /\ Importing(t)'
    BY <1>1, <1>4, EmptyCommit, CommitLeaves, ImportingKept, OneAtATime, <2>1 DEF
       OthersStay, UnderLock, Importing
  <2>4. AppliedOnce'
    BY <1>4, ImportLands
  <2> QED BY <2>1, <2>2, <2>3, <2>4 DEF ImportsInv, SiteIds
<1>5. ASSUME NEW s \in Sessions, Abort(s)
      PROVE  ImportsInv'
  BY <1>1, <1>5, AbortShape, AbortLeaves, ImportingKept, <1>2 DEF UnderLock, Importing
<1>6. CASE UNCHANGED storeVars
  BY <1>1, <1>6, StutterShape, StutterLeaves, ImportingKept, <1>2 DEF storeVars
<1>7. CASE SiteNext
  BY <1>7, <1>3, <1>4, <1>5 DEF SiteNext
<1> QED BY <1>6, <1>7

-----------------------------------------------------------------------------
(* Payments. *)

\* The payments of an expense.
Payments(x) == {p \in Live("payments") : rows[p].expense = x}

StatusOf(paid, total) ==
    IF paid = 0 THEN "SUBMITTED" ELSE IF paid < total THEN "PARTIALLY_PAID" ELSE "COMPLETED"

ExpenseFits(x) ==
    /\ {"there", "total", "status"} \subseteq DOMAIN rows[x] /\ rows[x].total \in Days
    /\ Paid(x) <= rows[x].total /\ rows[x].status = StatusOf(Paid(x), rows[x].total)

\* A session raises an expense, or edits or pays one that it holds.
Raises(s, x) ==
    LET w == open[s].writes[x]
    IN /\ DOMAIN open[s].writes = {x} /\ Inserts(s, x) /\ x \in Table("expenses")
       /\ {"there", "total", "status"} \subseteq DOMAIN w
       /\ w.total \in Days /\ w.status = "SUBMITTED"

Corrects(s, x) ==
    /\ DOMAIN open[s].writes = {x} /\ x \in Live("expenses") /\ x \in open[s].locks
    /\ rows[x].status = "SUBMITTED"
    /\ \E total \in Days : open[s].writes[x] = [total |-> total]

Pays(s, x, p) ==
    /\ p \in DOMAIN open[s].writes /\ DOMAIN open[s].writes \subseteq {p, x}
    /\ Inserts(s, p) /\ p \in Table("payments")
    /\ x \in Live("expenses") /\ x \in open[s].locks
    /\ open[s].writes[p].expense = x /\ open[s].writes[p].amount \in Days
    /\ Paid(x) + open[s].writes[p].amount <= rows[x].total
    /\ LET status == StatusOf(Paid(x) + open[s].writes[p].amount, rows[x].total)
       IN IF x \in DOMAIN open[s].writes THEN open[s].writes[x] = [status |-> status]
          ELSE rows[x].status = status

Paying(s) ==
    \/ DOMAIN open[s].writes = {}
    \/ \E x \in DOMAIN rows : Raises(s, x) \/ Corrects(s, x)
    \/ \E x, p \in DOMAIN rows : Pays(s, x, p)

\* A payment is of an expense that is there.
PaymentsStand ==
    \A p \in Live("payments") : rows[p].expense \in Live("expenses") /\ rows[p].amount \in Days

PayInv ==
    /\ Shape
    /\ desk = "payments" /\ DOMAIN rows = PurchaseIds
    /\ PaymentsStand
    /\ \A x \in Live("expenses") : ExpenseFits(x)
    /\ \A s \in Sessions : Paying(s)

\* There are four payments at most.
LEMMA PaymentsAreFew ==
    ASSUME DOMAIN rows = PurchaseIds
    PROVE  IsFiniteSet(Table("payments"))
<1> DEFINE at == [n \in 1..4 |-> <<"payments", n, 0>>]
<1>1. at = [n \in 1..4 |-> at[n]]
  OBVIOUS
<1>4. IsFiniteSet(1..4)
  <2>1. 1 \in Int /\ 4 \in Int
    OBVIOUS
  <2> QED BY <2>1, FS_Interval
<1>2. IsFiniteSet({at[n] : n \in 1..4})
  <2> HIDE DEF at
  <2> QED BY <1>1, <1>4, ImageFinite
<1>3. Table("payments") \subseteq {at[n] : n \in 1..4}
  BY DEF Table, PurchaseIds
<1> QED BY <1>2, <1>3, FS_Subset

\* What was paid for an expense, before and after a step, is a sum over its payments.
LEMMA PaidSum ==
    /\ \A x : Paid(x) = Sum([p \in Payments(x) |-> rows[p].amount], Payments(x))
    /\ \A x : Paid(x)' = Sum([p \in Payments(x)' |-> rows'[p].amount], Payments(x)')
  BY DEF Payments, Live, Table, There, Paid, PaidIn

\* What is paid is what was paid, and what is paid now.
LEMMA PaidIsNat ==
    ASSUME DOMAIN rows = PurchaseIds, PaymentsStand, NEW x
    PROVE  Paid(x) \in Nat
<1> DEFINE f == [p \in Payments(x) |-> rows[p].amount]
<1>1. Payments(x) \subseteq Table("payments")
  BY DEF Payments, Live
<1>2. IsFiniteSet(Payments(x))
  BY <1>1, PaymentsAreFew, FS_Subset
<1>3. \A p \in Payments(x) : f[p] \in Nat
  BY RowStoreAssumption DEF Payments, PaymentsStand, RowStoreAssumption
<1>4. Sum(f, Payments(x)) \in Nat
  BY <1>2, <1>3, SumNat
<1> QED BY <1>4, PaidSum

\* It stays when no payment is written.
LEMMA PaidStays ==
    ASSUME DOMAIN rows = PurchaseIds, DOMAIN rows' = DOMAIN rows,
           \A p \in Table("payments") : rows'[p] = rows[p]
    PROVE  \A x : Paid(x)' = Paid(x)
  BY PaidSum DEF Live, Table, There, Payments

\* A new payment adds its amount to its own expense.
LEMMA PaidMore ==
    ASSUME DOMAIN rows = PurchaseIds, DOMAIN rows' = DOMAIN rows, PaymentsStand,
           NEW p \in Table("payments"), ~There(p), rows'[p].there, rows'[p].amount \in Days,
           \A q \in Table("payments") \ {p} : rows'[q] = rows[q]
    PROVE  \A x : Paid(x)' = Paid(x) + (IF rows'[p].expense = x THEN rows'[p].amount ELSE 0)
<1>1. Live("payments")' = Live("payments") \cup {p} /\ p \notin Live("payments")
  BY DEF Live, Table, There
<1>2. \A q \in Live("payments") : rows'[q] = rows[q]
  BY <1>1 DEF Live
<1>3. ASSUME NEW x
      PROVE  Paid(x)' = Paid(x) + (IF rows'[p].expense = x THEN rows'[p].amount ELSE 0)
  <2> DEFINE S == Payments(x)
             T == Payments(x)'
             f == [q \in S |-> rows[q].amount]
             g == [q \in T |-> rows'[q].amount]
  <2>1. T = S \cup (IF rows'[p].expense = x THEN {p} ELSE {}) /\ p \notin S
    BY <1>1, <1>2 DEF Payments
  <2>2. IsFiniteSet(S)
    BY PaymentsAreFew, FS_Subset DEF Payments, Live
  <2>3. ASSUME NEW q \in S PROVE f[q] \in Int /\ f[q] = g[q]
    <3>5. Days \subseteq Int
      BY RowStoreAssumption DEF RowStoreAssumption
    <3>6. q \in Live("payments")
      BY DEF Payments
    <3>7. rows[q].amount \in Days
      BY <3>6 DEF PaymentsStand
    <3>1. q \in Live("payments") /\ rows[q].amount \in Int
      BY <3>5, <3>6, <3>7
    <3>2. rows'[q] = rows[q] /\ q \in T
      BY <1>2, <2>1, <3>1
    <3>3. f[q] = rows[q].amount
      OBVIOUS
    <3>4. g[q] = rows'[q].amount
      <4> HIDE DEF S, T
      <4> QED BY <3>2
    <3> QED BY <3>1, <3>2, <3>3, <3>4
  <2>4. Paid(x) = Sum(f, S) /\ Paid(x)' = Sum(g, T) /\ Paid(x) \in Nat
    BY PaidSum, PaidIsNat
  <2>5. CASE rows'[p].expense = x
    <3>4. T = S \cup {p}
      BY <2>1, <2>5
    <3>1. g[p] = rows'[p].amount /\ g[p] \in Int
      <4>2. Days \subseteq Int
        BY RowStoreAssumption DEF RowStoreAssumption
      <4>3. p \in T
        BY <3>4
      <4>1. p \in T /\ rows'[p].amount \in Int
        BY <4>2, <4>3
      <4> HIDE DEF S, T
      <4> QED BY <4>1
    <3>2. Sum(g, T) = Sum(f, S) + g[p]
      <4> HIDE DEF f, g, S, T
      <4> QED BY <2>1, <2>2, <2>3, <3>1, <3>4, SumExtend
    <3> QED BY <2>4, <2>5, <3>1, <3>2
  <2>6. CASE rows'[p].expense # x
    <3>1. T = S
      BY <2>1, <2>6
    <3>2. Sum(g, T) = Sum(f, S)
      <4> HIDE DEF f, g, S, T
      <4> QED BY <2>2, <2>3, <3>1, SumSame
    <3> QED BY <2>4, <2>6, <3>2
  <2> QED BY <2>5, <2>6
<1> QED BY <1>3

\* What a session may pay stands as long as it holds the expense.
LEMMA PayingKept ==
    ASSUME NEW t \in Sessions, Kept(t), Paying(t),
           \A x \in open[t].locks : Paid(x)' = Paid(x)
    PROVE  Paying(t)'
<1>1. /\ \A name : Table(name)' = Table(name)
      /\ open'[t].writes = open[t].writes /\ open'[t].locks = open[t].locks
      /\ DOMAIN rows' = DOMAIN rows
  BY DEF Kept, Table
<1>2. CASE DOMAIN open[t].writes = {}
  BY <1>1, <1>2 DEF Paying
<1>3. ASSUME NEW r, r \in DOMAIN open[t].writes, Inserts(t, r)
      PROVE  Inserts(t, r)'
  BY <1>1, <1>3 DEF Inserts, Kept
<1>4. ASSUME NEW x, x \in Live("expenses"), x \in open[t].locks
      PROVE  x \in Live("expenses")' /\ rows'[x] = rows[x] /\ Paid(x)' = Paid(x)
  BY <1>4, <1>1 DEF Live, Table, Kept, There
<1>5. ASSUME NEW x \in DOMAIN rows, Raises(t, x)
      PROVE  Paying(t)'
  BY <1>3, <1>5, <1>1 DEF Raises, Paying
<1>6. ASSUME NEW x \in DOMAIN rows, Corrects(t, x)
      PROVE  Paying(t)'
  BY <1>1, <1>4, <1>6 DEF Corrects, Paying
<1>7. ASSUME NEW x \in DOMAIN rows, NEW p \in DOMAIN rows, Pays(t, x, p)
      PROVE  Paying(t)'
  BY <1>3, <1>7, <1>4, <1>1 DEF Pays, Paying
<1> QED BY <1>2, <1>5, <1>6, <1>7 DEF Paying

\* What a handler stages: an expense that is raised, a total that is corrected, or
\* a payment that fits what is still due.
LEMMA PayStages ==
    ASSUME PayInv, NEW s \in Sessions, PurchaseStep(s)
    PROVE  /\ Shape' /\ OthersStay(s) /\ UNCHANGED <<desk, rows, torn>> /\ TakesSpare(s)
           /\ Paying(s)'
<1>1. Shape /\ \A name : \A r \in Table(name) : r[2] \in Nat
  BY PurchaseNumbers DEF PayInv
<1>2. CASE ExpenseCreate(s)
  <2>1. PICK o \in {NoRef} \cup Live("orders"), total \in Quantities, basket \in {<<>>} :
            /\ Spare("expenses") # {}
            /\ Stage(s, Over(Insert("expenses", [order |-> o, total |-> total,
                                                 status |-> "SUBMITTED"]),
                             IF o = NoRef THEN <<>> ELSE SyncLines(o, basket)))
    BY <1>2 DEF ExpenseCreate, PayInv
  <2>2. o = NoRef
    BY <2>1 DEF Live, Table, PayInv, PurchaseIds, PurchaseTables
  <2>3. PICK cols : cols = [order |-> o, total |-> total, status |-> "SUBMITTED"]
    OBVIOUS
  <2>4. Over(Insert("expenses", cols), <<>>) = Insert("expenses", cols)
    BY DEF Over, Insert, Set
  <2>5. PICK locked : locked = {} /\ StageLocked(s, locked, Insert("expenses", cols))
    BY <2>1, <2>2, <2>3, <2>4 DEF Stage
  <2>6. PICK x : TakesRow(s, "expenses", x)
    BY <1>1, <2>1, NewRowTaken
  <2>7. /\ Shape' /\ OthersStay(s) /\ UNCHANGED <<desk, rows, torn>> /\ TakesSpare(s)
        /\ DOMAIN open'[s].writes = {x} /\ Inserts(s, x)'
        /\ open'[s].writes[x] = Over([there |-> TRUE], cols)
    BY <1>1, <2>5, <2>6, StageNew
  <2>8. /\ {"there", "total", "status"} \subseteq DOMAIN open'[s].writes[x]
        /\ open'[s].writes[x].total = total /\ open'[s].writes[x].status = "SUBMITTED"
    BY <2>3, <2>7 DEF Over
  <2>9. x \in DOMAIN rows' /\ x \in Table("expenses")'
    BY <2>6, <2>7 DEF TakesRow, Table
  <2>10. Raises(s, x)'
    BY <2>7, <2>8, <2>9 DEF Raises, Quantities
  <2> QED BY <2>7, <2>9, <2>10 DEF Paying
<1>3. CASE ExpenseUpdate(s)
  BY <1>3, <1>1, StageShape DEF ExpenseUpdate, Live, Table, Set, TakesSpare, Paying, Dirty,
     There, Corrects, Quantities
<1>4. CASE CompleteExpense(s)
  <2>1. PICK x \in Live("expenses"), amount \in Quantities :
            LET remaining == rows[x].total - Paid(x)
            IN /\ Spare("payments") # {}
               /\ amount <= remaining
               /\ StageLocked(s, {x},
                     Over(Insert("payments", [expense |-> x, amount |-> amount]),
                          Set(x, [status |-> IF amount = remaining THEN "COMPLETED"
                                             ELSE "PARTIALLY_PAID"])))
    BY <1>4 DEF CompleteExpense
  <2>2. PICK p : TakesRow(s, "payments", p)
    BY <1>1, <2>1, NewRowTaken
  <2>3. x \in DOMAIN rows /\ p \in DOMAIN rows /\ x # p /\ There(x)
    BY <2>1, <2>2 DEF Live, Table, TakesRow
  <2>4. /\ Paid(x) \in Nat /\ rows[x].total \in Days /\ rows[x].total \in Nat
        /\ amount \in Nat \ {0}
    BY PaidIsNat, RowStoreAssumption DEF PayInv, ExpenseFits, RowStoreAssumption, Quantities
  <2>5. PICK paid \in Nat, total \in Nat : paid = Paid(x) /\ total = rows[x].total
    BY <2>4
  <2>6. PICK status : status = StatusOf(paid + amount, total)
    OBVIOUS
  <2>7. /\ paid + amount <= total
        /\ status = IF amount = total - paid THEN "COMPLETED" ELSE "PARTIALLY_PAID"
    BY <2>1, <2>4, <2>5, <2>6 DEF StatusOf
  <2>8. PICK locked, cols, row, writes :
            /\ locked = {x} /\ cols = [status |-> status]
            /\ row = Over([there |-> TRUE], [expense |-> x, amount |-> amount])
            /\ writes = Over(Set(p, row), Set(x, cols))
            /\ StageLocked(s, locked, writes)
    BY <2>1, <2>2, <2>5, <2>7 DEF Insert, TakesRow
  <2>9. DOMAIN writes = {p, x} /\ writes[p] = row /\ writes[x] = cols
    BY <2>3, <2>8 DEF Over, Set
  <2>10. /\ row = [a \in DOMAIN row |-> row[a]] /\ row.there = TRUE
         /\ DOMAIN row = {"there", "expense", "amount"} /\ row.expense = x /\ row.amount = amount
    BY <2>8 DEF Over
  <2>11. Dirty(p, row) = row
    BY <2>2, <2>10, NewRowDirty DEF TakesRow
  <2>12. /\ Shape' /\ OthersStay(s) /\ UNCHANGED <<desk, rows, torn>>
         /\ open'[s].locks = locked
         /\ DOMAIN open'[s].writes = {r \in DOMAIN writes : DOMAIN Dirty(r, writes[r]) # {}}
         /\ \A r \in DOMAIN open'[s].writes : open'[s].writes[r] = Dirty(r, writes[r])
    BY <1>1, <2>3, <2>8, <2>9, StageShape
  <2>13. /\ p \in DOMAIN open'[s].writes /\ open'[s].writes[p] = row
         /\ DOMAIN open'[s].writes \subseteq {p, x}
    BY <2>9, <2>10, <2>11, <2>12
  <2>14. TakesSpare(s)
    BY <2>2, <2>3, <2>13 DEF TakesSpare, TakesRow
  <2>15. Fresh(s, p)'
    BY <2>2, <2>12 DEF Fresh, OthersStay, There, TakesRow
  <2>16. Inserts(s, p)'
    BY <2>10, <2>13, <2>15 DEF Inserts
  <2>17. IF x \in DOMAIN open'[s].writes THEN open'[s].writes[x] = cols
         ELSE rows[x].status = status
    BY <2>1, <2>8, <2>9, <2>12 DEF Dirty, PayInv, ExpenseFits
  <2>18. /\ x \in Live("expenses")' /\ x \in DOMAIN rows' /\ p \in DOMAIN rows'
         /\ p \in Table("payments")' /\ rows'[x] = rows[x]
    BY <2>1, <2>2, <2>3, <2>12 DEF Live, Table, There, TakesRow
  <2>19. Paid(x)' = paid
    BY <2>5, <2>12 DEF Paid
  <2>20. Pays(s, x, p)'
    <3>1. /\ open'[s].writes[p].expense = x /\ open'[s].writes[p].amount \in Days
          /\ Paid(x)' + open'[s].writes[p].amount <= rows'[x].total
          /\ status = StatusOf(Paid(x)' + open'[s].writes[p].amount, rows'[x].total)
      BY <2>5, <2>6, <2>7, <2>10, <2>13, <2>18, <2>19 DEF Quantities
    <3>2. x \in open'[s].locks
      BY <2>8, <2>12
    <3>3. IF x \in DOMAIN open'[s].writes THEN open'[s].writes[x] = [status |-> status]
          ELSE rows'[x].status = status
      BY <2>8, <2>17, <2>18
    <3> QED BY <2>13, <2>16, <2>18, <3>1, <3>2, <3>3 DEF Pays
  <2> QED BY <2>12, <2>14, <2>18, <2>20 DEF Paying
<1> QED BY <1>2, <1>3, <1>4 DEF PurchaseStep, PayInv

\* A payment goes to the expense its session holds, and to no other.
LEMMA PayLands ==
    ASSUME PayInv, NEW s \in Sessions, NEW accepted, Commit(s, accepted)
    PROVE  /\ PaymentsStand' /\ \A x \in Live("expenses")' : ExpenseFits(x)'
           /\ \A t \in Sessions \ {s} : \A x \in open[t].locks : Paid(x)' = Paid(x)
<1>1. /\ DOMAIN rows' = DOMAIN rows
      /\ \A r \in DOMAIN rows :
            /\ r \in DOMAIN open[s].writes => rows'[r] = Written(rows[r], open[s].writes[r])
            /\ r \notin DOMAIN open[s].writes => rows'[r] = rows[r]
      /\ \A t \in Sessions \ {s} : DOMAIN open[s].writes \cap open[t].locks = {}
  BY CommitShape DEF PayInv
<1>2. \A name : Table(name)' = Table(name) /\ Table(name) \subseteq DOMAIN rows
  BY <1>1 DEF Table
<1>3. DOMAIN rows = PurchaseIds /\ PaymentsStand /\ Shape
  BY DEF PayInv
<1>4. ASSUME NEW y \in Live("expenses"), y \notin DOMAIN open[s].writes, Paid(y)' = Paid(y)
      PROVE  ExpenseFits(y)'
  BY <1>2, <1>4, <1>1 DEF Live, PayInv, ExpenseFits
<1>5. ASSUME DOMAIN open[s].writes \cap Table("payments") = {}
      PROVE  \A x : Paid(x)' = Paid(x)
  BY <1>1, <1>2, <1>5, <1>3, PaidStays
<1>6. ASSUME DOMAIN open[s].writes \cap Table("payments") = {},
             \A x \in Live("expenses") : x \in Live("expenses")'
      PROVE  PaymentsStand'
  BY <1>1, <1>2, <1>6, <1>3 DEF Live, There, PaymentsStand
<1>7. CASE DOMAIN open[s].writes = {}
  BY <1>1, <1>7, <1>2, <1>4, <1>5, <1>6 DEF Live, There
<1>8. ASSUME NEW x \in DOMAIN rows, Raises(s, x)
      PROVE  /\ PaymentsStand' /\ \A y \in Live("expenses")' : ExpenseFits(y)'
             /\ \A y : Paid(y)' = Paid(y)
  <2>1. DOMAIN open[s].writes = {x} /\ x \in Table("expenses") /\ Inserts(s, x)
    BY <1>8 DEF Raises
  <2>2. rows'[x] = open[s].writes[x] /\ rows'[x].there
    BY <1>3, <2>1, InsertLands
  <2>3. ~There(x)
    BY <2>1 DEF Inserts, Fresh
  <2>4. DOMAIN open[s].writes \cap Table("payments") = {}
    BY <2>1 DEF Table
  <2>5. \A y \in Live("expenses") : y # x /\ y \in Live("expenses")' /\ y \notin DOMAIN open[s].writes
    BY <1>1, <1>2, <2>1, <2>3 DEF Live, There
  <2>6. \A y \in Live("expenses")' : y = x \/ y \in Live("expenses")
    BY <1>1, <1>2, <2>1 DEF Live, There
  <2>7. \A y : Paid(y)' = Paid(y)
    BY <1>5, <2>4
  <2>8. ExpenseFits(x)'
    <3>1. Payments(x) = {}
      BY <1>3, <2>3 DEF Payments, PaymentsStand, Live
    <3>2. Paid(x) = 0
      BY PaidSum, <3>1, SumEmpty
    <3>3. PICK paid, row, total :
              /\ paid = 0 /\ paid = Paid(x)' /\ row = rows'[x] /\ row = open[s].writes[x]
              /\ total = row.total
      BY <2>2, <2>7, <3>2
    <3>4. /\ {"there", "total", "status"} \subseteq DOMAIN row
          /\ total \in Days /\ row.status = "SUBMITTED" /\ total \in Nat
      BY <1>8, <3>3, RowStoreAssumption DEF Raises, RowStoreAssumption
    <3>5. paid <= total /\ StatusOf(paid, total) = "SUBMITTED"
      BY <3>3, <3>4 DEF StatusOf
    <3> QED BY <3>3, <3>4, <3>5 DEF ExpenseFits
  <2>9. \A y \in Live("expenses")' : ExpenseFits(y)'
    BY <1>4, <2>5, <2>6, <2>7, <2>8
  <2> QED BY <1>6, <2>4, <2>5, <2>7, <2>9
<1>9. ASSUME NEW x \in DOMAIN rows, Corrects(s, x)
      PROVE  /\ PaymentsStand' /\ \A y \in Live("expenses")' : ExpenseFits(y)'
             /\ \A y : Paid(y)' = Paid(y)
  <2>1. /\ DOMAIN open[s].writes = {x} /\ x \in Live("expenses") /\ rows[x].status = "SUBMITTED"
        /\ There(x) /\ x \in Table("expenses")
    BY <1>9 DEF Corrects, Live
  <2>2. PICK total \in Days : open[s].writes[x] = [total |-> total]
    BY <1>9 DEF Corrects
  <2>3. PICK w, row : w = [total |-> total] /\ row = rows[x]
    OBVIOUS
  <2>4. rows'[x] = Written(row, w)
    BY <1>1, <2>1, <2>2, <2>3
  <2>5. {"there", "total", "status"} \subseteq DOMAIN row /\ row.there
    BY <2>1, <2>3 DEF PayInv, ExpenseFits, There
  <2>6. /\ rows'[x].there /\ rows'[x].total = total /\ rows'[x].status = "SUBMITTED"
        /\ {"there", "total", "status"} \subseteq DOMAIN rows'[x]
    BY <2>1, <2>3, <2>4, <2>5 DEF Written, Over
  <2>7. DOMAIN open[s].writes \cap Table("payments") = {}
    BY <2>1 DEF Table
  <2>8. /\ \A y \in Live("expenses") : y \in Live("expenses")'
        /\ \A y \in Live("expenses")' : y = x \/ (y \in Live("expenses") /\ y \notin DOMAIN open[s].writes)
    BY <1>1, <1>2, <2>1, <2>6 DEF Live, There
  <2>9. \A y : Paid(y)' = Paid(y)
    BY <1>5, <2>7
  <2>10. ExpenseFits(x)'
    BY <2>9, <1>3, <2>1, PaidIsNat, RowStoreAssumption, <2>6 DEF PayInv, ExpenseFits,
       StatusOf, RowStoreAssumption
  <2>11. \A y \in Live("expenses")' : ExpenseFits(y)'
    BY <1>4, <2>8, <2>9, <2>10
  <2> QED BY <1>6, <2>7, <2>8, <2>9, <2>11
<1>10. ASSUME NEW x \in DOMAIN rows, NEW p \in DOMAIN rows, Pays(s, x, p)
       PROVE  /\ PaymentsStand' /\ \A y \in Live("expenses")' : ExpenseFits(y)'
              /\ \A y : y # x => Paid(y)' = Paid(y)
              /\ x \in open[s].locks
  <2>1. /\ p \in DOMAIN open[s].writes /\ DOMAIN open[s].writes \subseteq {p, x}
        /\ Inserts(s, p) /\ p \in Table("payments")
        /\ x \in Live("expenses") /\ x \in open[s].locks
        /\ open[s].writes[p].expense = x /\ open[s].writes[p].amount \in Days
        /\ Paid(x) + open[s].writes[p].amount <= rows[x].total
    BY <1>10 DEF Pays
  <2>2. rows'[p] = open[s].writes[p] /\ rows'[p].there
    BY <1>3, <2>1, InsertLands
  <2>3. ~There(p) /\ p # x /\ There(x) /\ x \in Table("expenses")
    BY <2>1 DEF Inserts, Fresh, Live
  <2>4. \A q \in Table("payments") \ {p} : rows'[q] = rows[q]
    BY <1>1, <1>2, <2>1, <2>3 DEF Table
  <2>5. rows'[p].amount \in Days /\ rows'[p].expense = x
    BY <2>1, <2>2
  <2>6. PICK amount : amount = rows'[p].amount /\ amount = open[s].writes[p].amount
    BY <2>2
  <2>7. \A y : Paid(y)' = Paid(y) + (IF rows'[p].expense = y THEN rows'[p].amount ELSE 0)
    BY <1>1, <1>3, <2>1, <2>2, <2>3, <2>4, <2>5, PaidMore
  <2>8. \A y : y # x => Paid(y)' = Paid(y)
    BY <1>3, PaidIsNat, <2>5, <2>7
  <2>9. Paid(x)' = Paid(x) + amount
    BY <2>5, <2>6, <2>7
  <2>10. PICK paid, total, status :
             /\ paid = Paid(x) + amount /\ paid = Paid(x)' /\ total = rows[x].total
             /\ status = StatusOf(paid, total) /\ paid <= total
    BY <2>1, <2>6, <2>9
  <2>11. IF x \in DOMAIN open[s].writes THEN open[s].writes[x] = [status |-> status]
         ELSE rows[x].status = status
    BY <1>10, <2>6, <2>10 DEF Pays
  <2>12. PICK row : row = rows[x]
    OBVIOUS
  <2>13. {"there", "total", "status"} \subseteq DOMAIN row /\ row.there /\ row.total \in Days
    BY <2>1, <2>3, <2>12 DEF PayInv, ExpenseFits, There
  <2>14. /\ rows'[x].there /\ rows'[x].total = total /\ rows'[x].status = status
         /\ {"there", "total", "status"} \subseteq DOMAIN rows'[x]
    <3>1. CASE x \in DOMAIN open[s].writes
      <4>1. PICK w : w = [status |-> status]
        OBVIOUS
      <4>2. rows'[x] = Written(row, w)
        BY <1>1, <2>11, <2>12, <3>1, <4>1
      <4> QED BY <2>10, <2>12, <2>13, <4>1, <4>2 DEF Written, Over
    <3>2. CASE x \notin DOMAIN open[s].writes
      BY <1>1, <2>10, <2>11, <2>12, <2>13, <3>2
    <3> QED BY <3>1, <3>2
  <2>15. ExpenseFits(x)'
    BY <2>10, <2>12, <2>13, <2>14 DEF ExpenseFits
  <2>16. /\ \A y \in Live("expenses") : y \in Live("expenses")'
         /\ \A y \in Live("expenses")' : y = x \/ (y \in Live("expenses") /\ y \notin DOMAIN open[s].writes)
    BY <2>1, <1>1, <1>2, <2>14 DEF Table, Live, There
  <2>17. \A y \in Live("expenses")' : ExpenseFits(y)'
    BY <1>4, <2>8, <2>15, <2>16
  <2>18. PaymentsStand'
    BY <2>1, <2>5, <2>16, <1>2, <2>4, <1>3 DEF Live, There, PaymentsStand
  <2> QED BY <2>1, <2>8, <2>17, <2>18
<1>11. \A t \in Sessions \ {s} : open[s].locks \cap open[t].locks = {}
  BY <1>3 DEF Shape
<1> QED BY <1>5, <1>7, <1>8, <1>9, <1>10, <1>11 DEF PayInv, Paying

\* However payments and corrections interleave, the payments fit.
LEMMA PaySteps ==
    ASSUME PayInv, [PurchaseNext]_storeVars
    PROVE  PayInv'
<1>1. Shape /\ desk = "payments"
  BY DEF PayInv
<1>2. ASSUME rows' = rows, desk' = desk, Shape', \A t \in Sessions : Paying(t)'
      PROVE  PayInv'
  BY <1>2, <1>1 DEF Live, Table, There, Paid, PayInv, PurchaseIds, PaymentsStand,
     ExpenseFits
<1>3. ASSUME rows' = rows
      PROVE  \A x : Paid(x)' = Paid(x)
  BY <1>3 DEF Paid
<1>4. ASSUME NEW s \in Sessions, PurchaseStep(s)
      PROVE  PayInv'
  BY <1>4, PayStages, <1>3, StageLeaves, PayingKept, <1>2 DEF PayInv
<1>5. ASSUME NEW s \in Sessions, PurchaseCommit(s)
      PROVE  PayInv'
  BY <1>5, <1>1, CommitShape, PayLands, CommitLeaves, PayingKept DEF PurchaseCommit, PayInv,
     Paying, PurchaseIds
<1>6. ASSUME NEW s \in Sessions, Abort(s)
      PROVE  PayInv'
  BY <1>1, <1>6, AbortShape, <1>3, AbortLeaves, PayingKept, <1>2 DEF PayInv, Paying
<1>7. CASE UNCHANGED storeVars
  BY <1>1, <1>7, StutterShape, <1>3, StutterLeaves, PayingKept, <1>2 DEF storeVars, PayInv
<1> QED BY <1>4, <1>5, <1>6, <1>7 DEF PurchaseNext

\* Nothing is paid yet.
LEMMA PayStarts ==
    ASSUME PurchaseInit, desk = "payments"
    PROVE  PayInv
  BY InitShape DEF PurchaseInit, Live, Table, There, Absent, PayInv, Paying, PaymentsStand

-----------------------------------------------------------------------------
(* Orders and the receipt of their goods. *)

LiveIn(tab, name) == {r \in DOMAIN tab : r[1] = name /\ tab[r].there}
LinesIn(tab, o) == {l \in LiveIn(tab, "lines") : tab[l].order = o}

LineFits(tab, l) ==
    /\ {"there", "order", "ordered", "received"} \subseteq DOMAIN tab[l]
    /\ tab[l].order \in LiveIn(tab, "orders")
    /\ tab[l].ordered \in Nat \ {0} /\ tab[l].received \in Nat

ReceiptFits(tab, o) ==
    LET lines == LinesIn(tab, o)
        came == {l \in lines : tab[l].received > 0}
        due == {l \in lines : tab[l].received < tab[l].ordered}
    IN /\ "status" \in DOMAIN tab[o]
       /\ \A l \in lines : tab[l].received <= tab[l].ordered
       /\ tab[o].status = "PARTIALLY_RECEIVED" => came # {} /\ due # {}
       /\ tab[o].status = "RECEIVED" => came = {} \/ due = {}
       /\ came # {} => tab[o].status \in {"PARTIALLY_RECEIVED", "RECEIVED"}

OrdersFit(tab) ==
    /\ Told(tab)
    /\ \A l \in LiveIn(tab, "lines") : LineFits(tab, l)
    /\ \A o \in LiveIn(tab, "orders") : ReceiptFits(tab, o)

\* Until a request has committed on rows that had changed, the orders fit, and
\* will when a request that read them as they are commits.
OrdersInv ==
    /\ Shape
    /\ desk = "orders" /\ DOMAIN rows = PurchaseIds
    /\ ~torn => OrdersFit(rows) /\ \A s \in Sessions : open[s].fresh => OrdersFit(After(s))

\* Of the orders and lines only those of one order have changed.
OnlyOrder(tab, now, o) ==
    /\ DOMAIN now = DOMAIN tab /\ Told(now)
    /\ o \in LiveIn(now, "orders")
    /\ \A r \in DOMAIN tab : r[1] = "orders" /\ r # o => now[r] = tab[r]
    /\ \A r \in DOMAIN tab :
          r[1] = "lines" /\ r \notin LinesIn(now, o)
              => \/ now[r] = tab[r] /\ r \notin LinesIn(tab, o)
                 \/ now[r] = Absent /\ r \in LinesIn(tab, o)
    /\ \A l \in LinesIn(now, o) : l \in LinesIn(tab, o) \/ ~tab[l].there

\* A step that writes one order and its lines keeps the others as they fit.
LEMMA OneOrder ==
    ASSUME NEW tab, NEW now, OrdersFit(tab), NEW o, OnlyOrder(tab, now, o),
           ReceiptFits(now, o), \A l \in LinesIn(now, o) : LineFits(now, l)
    PROVE  OrdersFit(now)
  BY DEF LiveIn, OnlyOrder, Absent, OrdersFit, LineFits, LinesIn, ReceiptFits

\* An order nothing of which has come.
LEMMA NoneCame ==
    ASSUME NEW tab, NEW o, "status" \in DOMAIN tab[o], tab[o].status # "PARTIALLY_RECEIVED",
           \A l \in LinesIn(tab, o) : LineFits(tab, l) /\ tab[l].received = 0
    PROVE  ReceiptFits(tab, o)
  BY DEF LineFits, ReceiptFits

\* Of an order nothing was received before its status says so.
LEMMA NothingCame ==
    ASSUME NEW tab, NEW o, ReceiptFits(tab, o), \A l \in LinesIn(tab, o) : LineFits(tab, l),
           tab[o].status \notin {"PARTIALLY_RECEIVED", "RECEIVED"}
    PROVE  \A l \in LinesIn(tab, o) : tab[l].received = 0
  BY DEF ReceiptFits, LineFits

\* The lines of an order and of a table are the same.
LEMMA LinesAre ==
    ASSUME NEW o
    PROVE  LinesOf(o) = LinesIn(rows, o) /\ \A name : Live(name) = LiveIn(rows, name)
  BY DEF Live, LiveIn, Table, There, LinesOf, LinesIn

\* New lines take spare rows of their items.
NewLineRows(new, o, basket) ==
    \A l \in DOMAIN new :
        /\ l \in DOMAIN rows /\ l[1] = "lines" /\ ~There(l) /\ ItemOf(l) \in DOMAIN basket
        /\ new[l] = [there |-> TRUE, order |-> o, ordered |-> basket[ItemOf(l)], received |-> 0]

\* The lines of a new order have received nothing (create_purchase_order).
LEMMA NewLinesAre ==
    ASSUME DOMAIN rows = PurchaseIds, NEW o, NEW basket, RoomFor(basket)
    PROVE  NewLineRows(NewLines(o, basket), o, basket)
<1>1. ASSUME NEW i \in DOMAIN basket
      PROVE  NewLine(i) \in Spare("lines") /\ ItemOf(NewLine(i)) = i
  <2> DEFINE spare == {l \in Spare("lines") : ItemOf(l) = i}
             N == {l[2] : l \in spare}
  <2>1. spare # {} /\ \A l \in spare : l[2] \in Nat
    BY <1>1, PurchaseNumbers DEF RoomFor, Spare
  <2>2. N \in SUBSET Nat /\ N # {}
    BY <2>1
  <2>3. \E n \in N : \A m \in N : n <= m
    <3> HIDE DEF N
    <3> QED BY <2>2, SmallestNumber
  <2>4. \E l \in spare : \A x \in spare : l[2] <= x[2]
    BY <2>3
  <2>5. NewLine(i) \in spare
    BY <2>4 DEF NewLine
  <2> QED BY <2>5
<1>2. PICK new : new = NewLines(o, basket)
  OBVIOUS
<1>3. ASSUME NEW l \in DOMAIN new
      PROVE  /\ l \in DOMAIN rows /\ l[1] = "lines" /\ ~There(l) /\ ItemOf(l) \in DOMAIN basket
             /\ new[l] = [there |-> TRUE, order |-> o, ordered |-> basket[ItemOf(l)],
                          received |-> 0]
  BY <1>2, <1>3, <1>1 DEF NewLines, Spare, Table
<1> QED BY <1>2, <1>3 DEF NewLineRows

\* A line once it is new, or has a quantity of its own.
LEMMA NewLineFits ==
    ASSUME NEW now, NEW tab, NEW writes, Laid(tab, now, writes), NEW l \in DOMAIN tab, l[1] = "lines",
           NEW o, NEW n \in Nat \ {0}, l \in DOMAIN writes,
           writes[l] = [there |-> TRUE, order |-> o, ordered |-> n, received |-> 0]
    PROVE  /\ l \in LinesIn(now, o) /\ now[l].received = 0
           /\ o \in LiveIn(now, "orders") => LineFits(now, l)
  BY DEF Laid, LaidRow, LinesIn, LiveIn, LineFits

\* A handler alone takes orders that fit to orders that fit.
Serves(s, locked, writes) ==
    /\ StageLocked(s, locked, writes) /\ DOMAIN writes \subseteq DOMAIN rows
    /\ \A now : OrdersFit(rows) /\ Laid(rows, now, writes) => OrdersFit(now)

\* A basket holds some of each of its items.
LEMMA BasketHolds ==
    ASSUME NEW basket \in Baskets, NEW i \in DOMAIN basket
    PROVE  basket[i] \in Nat \ {0}
<1>1. PICK S : basket \in [S -> Quantities]
  BY DEF Baskets
<1>2. basket[i] \in Days
  BY <1>1 DEF Quantities
<1> QED BY <1>2, RowStoreAssumption DEF RowStoreAssumption

\* A new order is served by rows that nobody has taken.
LEMMA OrderCreateServes ==
    ASSUME OrdersInv, NEW s \in Sessions, OrderCreate(s)
    PROVE  \E locked, writes : Serves(s, locked, writes)
<1>1. Shape /\ DOMAIN rows = PurchaseIds /\ \A name : \A r \in Table(name) : r[2] \in Nat
  BY PurchaseNumbers DEF OrdersInv
<1>2. PICK basket \in Baskets, status \in {"DRAFT", "WAITING_APPROVAL"} :
          /\ Spare("orders") # {} /\ RoomFor(basket)
          /\ Stage(s, Over(Insert("orders", [status |-> status]),
                           NewLines(NewRow("orders"), basket)))
  BY DEF OrderCreate
<1>3. PICK o : TakesRow(s, "orders", o)
  BY <1>1, <1>2, NewRowTaken
<1>4. PICK row, new, locked, writes :
          /\ row = Over([there |-> TRUE], [status |-> status]) /\ new = NewLines(o, basket)
          /\ locked = {} /\ writes = Over(Set(o, row), new)
          /\ StageLocked(s, locked, writes)
  BY <1>2, <1>3 DEF Stage, Insert, TakesRow
<1>5. o \in DOMAIN rows /\ o[1] = "orders" /\ ~There(o) /\ rows[o] = Absent
  BY <1>3 DEF TakesRow, Table, Fresh
<1>6. NewLineRows(new, o, basket)
  BY <1>1, <1>2, <1>4, NewLinesAre
<1>7. /\ DOMAIN writes = {o} \cup DOMAIN new /\ writes[o] = row
      /\ \A l \in DOMAIN new : writes[l] = new[l] /\ l # o
  BY <1>4, <1>5, <1>6 DEF Over, Set, NewLineRows
<1>8. /\ DOMAIN row = {"there", "status"} /\ row.there /\ row.status = status
  BY <1>4 DEF Over
<1>9. ASSUME NEW now, OrdersFit(rows), Laid(rows, now, writes)
      PROVE  OrdersFit(now)
  <2>1. Told(now) /\ DOMAIN now = DOMAIN rows
    BY <1>9, LaidTold DEF OrdersFit, Laid
  <2>2. /\ o \in LiveIn(now, "orders") /\ "status" \in DOMAIN now[o] /\ now[o].status = status
    BY <1>5, <1>7, <1>9, <1>8, <2>1 DEF Laid, LaidRow, LiveIn
  <2>3. ASSUME NEW l \in DOMAIN new
        PROVE  l \in LinesIn(now, o) /\ now[l].received = 0 /\ LineFits(now, l)
    BY <1>6, <1>7, BasketHolds, <1>9, <2>2, NewLineFits DEF NewLineRows
  <2>4. LinesIn(rows, o) = {}
    BY <1>5, <1>9 DEF LinesIn, OrdersFit, LineFits, LiveIn, There
  <2>5. LinesIn(now, o) \subseteq DOMAIN new
    BY <1>5, <1>7, <2>1, <1>9, <2>4 DEF LinesIn, LiveIn, Laid
  <2>6. OnlyOrder(rows, now, o)
    BY <1>9, <1>6, <1>5, <1>7, <2>1, <2>2, <2>3, <2>4, <2>5 DEF Laid, NewLineRows, There,
       OnlyOrder
  <2>7. ReceiptFits(now, o)
    BY <2>2, <2>3, <2>5, NoneCame
  <2> QED BY <1>9, <2>3, <2>5, <2>6, <2>7, OneOrder
<1>10. DOMAIN writes \subseteq DOMAIN rows
  BY <1>5, <1>6, <1>7 DEF NewLineRows
<1> QED BY <1>4, <1>9, <1>10 DEF Serves

\* Lines nothing was received for are replaced.
LEMMA OrderUpdateServes ==
    ASSUME OrdersInv, NEW s \in Sessions, OrderUpdate(s)
    PROVE  \E locked, writes : Serves(s, locked, writes)
<1>1. Shape /\ DOMAIN rows = PurchaseIds
  BY DEF OrdersInv
<1>2. PICK o \in Live("orders"), basket \in Baskets :
          /\ \A l \in LinesOf(o) : rows[l].received = 0
          /\ RoomFor(basket)
          /\ Stage(s, Over(NewLines(o, basket), SetAll(LinesOf(o), Absent)))
  BY DEF OrderUpdate
<1>3. PICK old, new, locked, writes :
          /\ old = LinesIn(rows, o) /\ new = NewLines(o, basket)
          /\ locked = {} /\ writes = Over(new, SetAll(old, Absent))
          /\ StageLocked(s, locked, writes)
  BY <1>2, LinesAre DEF Stage
<1>4. o \in DOMAIN rows /\ o[1] = "orders" /\ There(o)
  BY <1>2 DEF Live, Table
<1>5. NewLineRows(new, o, basket)
  BY <1>1, <1>2, <1>3, NewLinesAre
<1>6. \A l \in old : l \in DOMAIN rows /\ l[1] = "lines" /\ There(l) /\ l \notin DOMAIN new
  BY <1>3, <1>5 DEF LinesIn, LiveIn, There, NewLineRows
<1>7. /\ DOMAIN writes = old \cup DOMAIN new
      /\ \A l \in DOMAIN new : writes[l] = new[l]
      /\ \A l \in old : writes[l] = Absent
      /\ o \notin DOMAIN writes
  BY <1>3, <1>4, <1>5, <1>6 DEF Over, SetAll, NewLineRows
<1>8. ASSUME NEW now, OrdersFit(rows), Laid(rows, now, writes)
      PROVE  OrdersFit(now)
  <2>1. Told(now) /\ DOMAIN now = DOMAIN rows
    BY <1>8, LaidTold DEF OrdersFit, Laid
  <2>2. now[o] = rows[o] /\ o \in LiveIn(now, "orders") /\ o \in LiveIn(rows, "orders")
    BY <1>4, <1>7, <1>8, <2>1 DEF Laid, LiveIn, There
  <2>3. ASSUME NEW l \in DOMAIN new
        PROVE  l \in LinesIn(now, o) /\ now[l].received = 0 /\ LineFits(now, l)
    BY <1>5, <1>7, BasketHolds, <1>8, <2>2, NewLineFits DEF NewLineRows
  <2>4. ASSUME NEW l \in old
        PROVE  now[l] = Absent
    <3>1. LaidRow(now[l], Absent, rows[l])
      BY <1>6, <1>7, <1>8, <2>4 DEF Laid
    <3> QED BY <3>1 DEF LaidRow, Absent
  <2>5. LinesIn(now, o) \subseteq DOMAIN new
    <3>1. ASSUME NEW l \in LinesIn(now, o), l \notin DOMAIN new PROVE FALSE
      <4>1. l \in DOMAIN rows /\ l \notin old
        BY <2>1, <2>4, <3>1 DEF LinesIn, LiveIn, Absent
      <4>2. now[l] = rows[l]
        BY <1>7, <1>8, <3>1, <4>1 DEF Laid
      <4> QED BY <1>3, <2>1, <3>1, <4>1, <4>2 DEF LinesIn, LiveIn
    <3> QED BY <3>1
  <2>6. OnlyOrder(rows, now, o)
    BY <1>8, <1>5, <1>3, <1>6, <1>7, <2>1, <2>2, <2>3, <2>4, <2>5 DEF Laid, NewLineRows,
       There, OnlyOrder
  <2>7. ReceiptFits(rows, o) /\ \A l \in LinesIn(rows, o) : rows[l].received = 0
    BY <1>2, <1>8, <2>2, LinesAre DEF OrdersFit
  <2>8. "status" \in DOMAIN rows[o] /\ rows[o].status # "PARTIALLY_RECEIVED"
    BY <2>7 DEF ReceiptFits
  <2>9. ReceiptFits(now, o)
    BY <2>2, <2>3, <2>5, <2>8, NoneCame
  <2> QED BY <1>8, <2>3, <2>5, <2>6, <2>9, OneOrder
<1>9. DOMAIN writes \subseteq DOMAIN rows
  BY <1>5, <1>6, <1>7 DEF NewLineRows
<1> QED BY <1>3, <1>8, <1>9 DEF Serves

\* An order is submitted and approved before anything comes.
LEMMA OrderMovesOn ==
    ASSUME OrdersInv, NEW s \in Sessions, OrderSubmit(s) \/ OrderApprove(s)
    PROVE  \E locked, writes : Serves(s, locked, writes)
<1>1. PICK o \in Live("orders"), status \in {"WAITING_APPROVAL", "APPROVED"} :
          /\ rows[o].status \in {"DRAFT", "WAITING_APPROVAL"}
          /\ Stage(s, Set(o, [status |-> status]))
  BY DEF OrderSubmit, OrderApprove
<1>2. PICK cols, locked, writes :
          /\ cols = [status |-> status] /\ locked = {} /\ writes = Set(o, cols)
          /\ StageLocked(s, locked, writes)
  BY <1>1 DEF Stage
<1>3. /\ o \in DOMAIN rows /\ o[1] = "orders" /\ There(o)
      /\ DOMAIN writes = {o} /\ writes[o] = cols
  BY <1>1, <1>2 DEF Live, Table, Set
<1>4. ASSUME NEW now, OrdersFit(rows), Laid(rows, now, writes)
      PROVE  OrdersFit(now)
  <2>1. Told(now) /\ DOMAIN now = DOMAIN rows
    BY <1>4, LaidTold DEF OrdersFit, Laid
  <2>2. \A r \in DOMAIN rows : r # o => now[r] = rows[r]
    BY <1>3, <1>4 DEF Laid
  <2>3. now[o].there /\ "status" \in DOMAIN now[o] /\ now[o].status = status
    BY <1>3, <1>4, <1>2 DEF Laid, LaidRow, There, OrdersFit, Told
  <2>4. LinesIn(now, o) = LinesIn(rows, o) /\ \A l \in LinesIn(rows, o) : now[l] = rows[l]
    BY <1>3, <2>1, <2>2 DEF LinesIn, LiveIn
  <2>5. o \in LiveIn(now, "orders") /\ o \in LiveIn(rows, "orders")
    BY <1>3, <2>1, <2>3 DEF LiveIn, There
  <2>6. OnlyOrder(rows, now, o)
    BY <2>1, <2>2, <2>4, <2>5, <1>3 DEF OnlyOrder
  <2>7. \A l \in LinesIn(rows, o) : LineFits(rows, l)
    BY <1>4 DEF OrdersFit, LinesIn
  <2>8. \A l \in LinesIn(rows, o) : rows[l].received = 0
    BY <1>4, <2>5, <1>1, <2>7, NothingCame DEF OrdersFit
  <2>9. \A l \in LinesIn(now, o) : LineFits(now, l) /\ now[l].received = 0
    BY <1>3, <2>2, <2>4, <2>5, <2>7, <2>8, <2>1 DEF LineFits, LiveIn
  <2>10. ReceiptFits(now, o)
    BY <1>1, <2>3, <2>9, NoneCame
  <2> QED BY <1>4, <2>6, <2>9, <2>10, OneOrder
<1> QED BY <1>2, <1>3, <1>4 DEF Serves

\* Goods are counted against what is still due.
LEMMA ReceiveServes ==
    ASSUME OrdersInv, NEW s \in Sessions, ReceiveGoods(s)
    PROVE  \E locked, writes : Serves(s, locked, writes)
<1>1. PICK o \in Live("orders"), basket \in Baskets :
          LET now(l) == rows[l].received
                        + (IF ItemOf(l) \in DOMAIN basket THEN basket[ItemOf(l)] ELSE 0)
              status == IF \A l \in LinesOf(o) : now(l) = rows[l].ordered THEN "RECEIVED"
                        ELSE IF \E l \in LinesOf(o) : now(l) > 0 THEN "PARTIALLY_RECEIVED"
                        ELSE rows[o].status
          IN /\ rows[o].status \in {"APPROVED", "PARTIALLY_RECEIVED"}
             /\ \A l \in LinesOf(o) : now(l) <= rows[l].ordered
             /\ Stage(s, Over(Set(o, [status |-> status]),
                              [l \in LinesOf(o) |-> [received |-> now(l)]]))
  BY DEF ReceiveGoods
<1>2. PICK old : old = LinesOf(o)
  OBVIOUS
<1>3. PICK got : got = [l \in old |-> rows[l].received
                          + (IF ItemOf(l) \in DOMAIN basket THEN basket[ItemOf(l)] ELSE 0)]
  OBVIOUS
<1>4. PICK status :
          status = IF \A l \in old : got[l] = rows[l].ordered THEN "RECEIVED"
                   ELSE IF \E l \in old : got[l] > 0 THEN "PARTIALLY_RECEIVED"
                   ELSE rows[o].status
  OBVIOUS
<1>5. PICK cols, locked, writes :
          /\ cols = [status |-> status] /\ locked = {}
          /\ writes = Over(Set(o, cols), [l \in old |-> [received |-> got[l]]])
          /\ StageLocked(s, locked, writes)
  BY <1>1, <1>2, <1>3, <1>4 DEF Stage
<1>6. /\ rows[o].status \in {"APPROVED", "PARTIALLY_RECEIVED"}
      /\ \A l \in old : got[l] <= rows[l].ordered
  BY <1>1, <1>2, <1>3
<1>7. o \in DOMAIN rows /\ o[1] = "orders" /\ There(o)
  BY <1>1 DEF Live, Table
<1>8. \A l \in old : l \in DOMAIN rows /\ l[1] = "lines" /\ rows[l].there /\ rows[l].order = o
  BY <1>2, LinesAre DEF LinesIn, LiveIn
<1>9. /\ DOMAIN writes = {o} \cup old /\ writes[o] = cols
      /\ \A l \in old : writes[l] = [received |-> got[l]]
  BY <1>5, <1>7, <1>8 DEF Over, Set
<1>10. ASSUME NEW now, OrdersFit(rows), Laid(rows, now, writes)
       PROVE  OrdersFit(now)
  <2>1. Told(now) /\ DOMAIN now = DOMAIN rows
    BY <1>10, LaidTold DEF OrdersFit, Laid
  <2>2. now[o].there /\ "status" \in DOMAIN now[o] /\ now[o].status = status
    BY <1>7, <1>9, <1>10, <1>5 DEF Laid, LaidRow, There, OrdersFit, Told
  <2>3. \A r \in DOMAIN rows : r \notin old /\ r # o => now[r] = rows[r]
    BY <1>9, <1>10 DEF Laid
  <2>4. o \in LiveIn(now, "orders") /\ o \in LiveIn(rows, "orders")
    BY <1>7, <2>1, <2>2 DEF LiveIn, There
  <2>5. old = LinesIn(rows, o) /\ \A l \in old : LineFits(rows, l)
    BY <1>2, <1>10, LinesAre DEF OrdersFit, LinesIn
  <2>6. ReceiptFits(rows, o)
    BY <1>10, <2>4 DEF OrdersFit
  <2>7. ASSUME NEW l \in old
        PROVE  /\ LineFits(now, l) /\ l \in LinesIn(now, o)
               /\ now[l].received = got[l] /\ now[l].ordered = rows[l].ordered
               /\ got[l] \in Nat /\ got[l] >= rows[l].received /\ rows[l].received \in Nat
               /\ rows[l].ordered \in Nat \ {0}
    <3>1. /\ {"there", "order", "ordered", "received"} \subseteq DOMAIN rows[l]
          /\ rows[l].ordered \in Nat \ {0} /\ rows[l].received \in Nat
      BY <2>5, <2>7 DEF LineFits
    <3>2. got[l] \in Nat /\ got[l] >= rows[l].received
      BY <1>3, <2>7, <3>1, BasketHolds
    <3>3. PICK w, new : w = [received |-> got[l]] /\ new = now[l] /\ LaidRow(new, w, rows[l])
      BY <1>8, <1>9, <1>10, <2>7 DEF Laid
    <3>4. DOMAIN w = {"received"} /\ w.received = got[l]
      BY <3>3
    <3>5. /\ new.there /\ DOMAIN rows[l] \subseteq DOMAIN new
          /\ new.received = got[l] /\ new.ordered = rows[l].ordered /\ new.order = o
      BY <1>8, <2>7, <3>1, <3>3, <3>4 DEF LaidRow
    <3>6. l \in LinesIn(now, o)
      BY <1>8, <2>1, <2>7, <3>3, <3>5 DEF LinesIn, LiveIn
    <3>7. LineFits(now, l)
      BY <2>4, <3>1, <3>2, <3>3, <3>5 DEF LineFits
    <3> QED BY <3>1, <3>2, <3>3, <3>5, <3>6, <3>7
  <2>8. LinesIn(now, o) = old
    BY <1>7, <2>1, <2>3, <2>5, <2>7 DEF LinesIn, LiveIn
  <2>9. OnlyOrder(rows, now, o)
    BY <1>7, <1>8, <2>1, <2>3, <2>4, <2>5, <2>8 DEF OnlyOrder
  <2>10. ReceiptFits(now, o)
    BY <1>6, <2>7, <1>4, <2>2, <2>8, <2>5, <2>6 DEF ReceiptFits
  <2> QED BY <1>10, <2>7, <2>8, <2>9, <2>10, OneOrder
<1>11. DOMAIN writes \subseteq DOMAIN rows
  BY <1>7, <1>8, <1>9
<1> QED BY <1>5, <1>10, <1>11 DEF Serves

\* An expense gives a line its quantity, adds it, or drops it.
Resized(o, basket, l, w) ==
    /\ l \in LinesOf(o) /\ ItemOf(l) \in DOMAIN basket /\ w = [ordered |-> basket[ItemOf(l)]]

AddedLine(o, basket, l, w) ==
    /\ l \in DOMAIN rows /\ l[1] = "lines" /\ ~There(l) /\ ItemOf(l) \in DOMAIN basket
    /\ w = [there |-> TRUE, order |-> o, ordered |-> basket[ItemOf(l)], received |-> 0]

Dropped(o, l, w) == l \in LinesOf(o) /\ w = Absent

\* Rewriting the lines of an order resizes, adds or drops each one (create_expense).
LEMMA SyncLinesAre ==
    ASSUME DOMAIN rows = PurchaseIds, NEW o, NEW basket, RoomFor(basket),
           NEW sync, sync = SyncLines(o, basket), NEW l \in DOMAIN sync
    PROVE  \/ Resized(o, basket, l, sync[l]) \/ AddedLine(o, basket, l, sync[l])
           \/ Dropped(o, l, sync[l])
<1>1. PICK named, added, dropped, few, new, inner :
          /\ named = {x \in LinesOf(o) : ItemOf(x) \in DOMAIN basket}
          /\ added = {i \in DOMAIN basket : LineOf(o, i) = {}}
          /\ dropped = {x \in LinesOf(o) \ named : rows[x].received = 0}
          /\ few = [i \in added |-> basket[i]] /\ new = NewLines(o, few)
          /\ inner = Over(new, SetAll(dropped, Absent))
  OBVIOUS
<1>2. CASE basket = <<>>
  BY <1>2 DEF SyncLines
<1>3. CASE basket # <<>>
  <2>1. sync = Over([x \in named |-> [ordered |-> basket[ItemOf(x)]]], inner)
    BY <1>1, <1>3 DEF SyncLines
  <2>2. RoomFor(few)
    BY <1>1 DEF RoomFor
  <2>3. NewLineRows(new, o, few)
    BY <1>1, <2>2, NewLinesAre
  <2>4. CASE l \in named
    BY <2>1, <2>4, <1>1 DEF Over, Resized
  <2>5. CASE l \notin named /\ l \in DOMAIN new
    BY <1>1, <2>1, <2>5, <2>3 DEF Over, SetAll, NewLineRows, AddedLine
  <2>6. CASE l \notin named /\ l \notin DOMAIN new
    BY <1>1, <2>1, <2>6 DEF Over, SetAll, Dropped
  <2> QED BY <2>4, <2>5, <2>6
<1> QED BY <1>2, <1>3

\* An expense is for an order nothing of which has come.
LEMMA ExpenseServes ==
    ASSUME OrdersInv, NEW s \in Sessions, ExpenseCreate(s)
    PROVE  \E locked, writes : Serves(s, locked, writes)
<1>1. Shape /\ DOMAIN rows = PurchaseIds /\ \A name : \A r \in Table(name) : r[2] \in Nat
  BY PurchaseNumbers DEF OrdersInv
<1>2. PICK o \in Live("orders"), total \in Quantities, basket \in Baskets :
          /\ Spare("expenses") # {} /\ RoomFor(basket) /\ rows[o].status = "APPROVED"
          /\ Stage(s, Over(Insert("expenses", [order |-> o, total |-> total,
                                               status |-> "SUBMITTED"]),
                           SyncLines(o, basket)))
  BY DEF ExpenseCreate, OrdersInv
<1>3. PICK x : TakesRow(s, "expenses", x)
  BY <1>1, <1>2, NewRowTaken
<1>4. PICK row, sync, locked, writes :
          /\ row = Over([there |-> TRUE], [order |-> o, total |-> total, status |-> "SUBMITTED"])
          /\ sync = SyncLines(o, basket)
          /\ locked = {} /\ writes = Over(Set(x, row), sync)
          /\ StageLocked(s, locked, writes)
  BY <1>2, <1>3 DEF Stage, Insert, TakesRow
<1>5. /\ o \in DOMAIN rows /\ o[1] = "orders" /\ There(o)
      /\ x \in DOMAIN rows /\ x[1] = "expenses"
  BY <1>2, <1>3 DEF Live, Table, TakesRow
<1>6. ASSUME NEW l \in DOMAIN sync
      PROVE  \/ Resized(o, basket, l, sync[l]) \/ AddedLine(o, basket, l, sync[l])
             \/ Dropped(o, l, sync[l])
  BY <1>1, <1>2, <1>4, SyncLinesAre
<1>7. /\ \A l \in DOMAIN sync : l \in DOMAIN rows /\ l[1] = "lines"
      /\ \A l \in LinesOf(o) : l \in DOMAIN rows /\ l[1] = "lines"
  BY <1>6, LinesAre DEF Resized, AddedLine, Dropped, LinesIn, LiveIn
<1>8. /\ DOMAIN writes = {x} \cup DOMAIN sync
      /\ \A l \in DOMAIN sync : writes[l] = sync[l]
      /\ o \notin DOMAIN writes
  BY <1>4, <1>5, <1>7 DEF Over, Set
<1>9. ASSUME NEW now, OrdersFit(rows), Laid(rows, now, writes)
      PROVE  OrdersFit(now)
  <2>1. Told(now) /\ DOMAIN now = DOMAIN rows
    BY <1>9, LaidTold DEF OrdersFit, Laid
  <2>2. now[o] = rows[o] /\ o \in LiveIn(now, "orders") /\ o \in LiveIn(rows, "orders")
    BY <1>5, <1>8, <1>9, <2>1 DEF Laid, LiveIn, There
  <2>3. \A l \in LinesIn(rows, o) : LineFits(rows, l)
    BY <1>9 DEF OrdersFit, LinesIn
  <2>4. /\ ReceiptFits(rows, o) /\ "status" \in DOMAIN rows[o]
        /\ \A l \in LinesIn(rows, o) : rows[l].received = 0
    BY <1>9, <2>2, <1>2, <2>3, NothingCame DEF OrdersFit, ReceiptFits
  <2>5. ASSUME NEW l \in DOMAIN sync, Resized(o, basket, l, sync[l])
        PROVE  /\ l \in LinesIn(rows, o) /\ l \in LinesIn(now, o)
               /\ now[l].received = 0 /\ LineFits(now, l)
    BY <2>5, LinesAre, BasketHolds, <2>3, <2>4, <1>8, <1>9, <2>1, <2>2 DEF Resized, LinesIn,
       LiveIn, LineFits, Laid, LaidRow
  <2>6. ASSUME NEW l \in DOMAIN sync, AddedLine(o, basket, l, sync[l])
        PROVE  /\ ~There(l) /\ l \in LinesIn(now, o)
               /\ now[l].received = 0 /\ LineFits(now, l)
    BY <1>8, <2>6, BasketHolds, <1>9, <2>2, NewLineFits DEF AddedLine
  <2>7. ASSUME NEW l \in DOMAIN sync, Dropped(o, l, sync[l])
        PROVE  l \in LinesIn(rows, o) /\ now[l] = Absent
    <3>1. LaidRow(now[l], Absent, rows[l])
      BY <1>7, <1>8, <1>9, <2>7 DEF Laid, Dropped
    <3> QED BY <2>7, <3>1, LinesAre DEF LaidRow, Absent, Dropped
  <2>8. ASSUME NEW l \in DOMAIN rows, l \notin DOMAIN sync, l[1] = "lines"
        PROVE  /\ now[l] = rows[l] /\ (l \in LinesIn(now, o) <=> l \in LinesIn(rows, o))
               /\ l \in LinesIn(now, o) => now[l].received = 0 /\ LineFits(now, l)
    BY <1>5, <1>8, <1>9, <2>8, <2>1, <2>2, <2>3, <2>4 DEF Laid, LinesIn, LiveIn, LineFits
  <2>9. ASSUME NEW l \in LinesIn(now, o)
        PROVE  now[l].received = 0 /\ LineFits(now, l) /\ (l \in LinesIn(rows, o) \/ ~rows[l].there)
    BY <2>1, <2>9, <1>6, <2>5, <2>6, <2>7, <2>8 DEF LinesIn, LiveIn, Absent, There
  <2>10. ASSUME NEW l \in DOMAIN rows, l[1] = "lines", l \notin LinesIn(now, o)
         PROVE  \/ now[l] = rows[l] /\ l \notin LinesIn(rows, o)
                \/ now[l] = Absent /\ l \in LinesIn(rows, o)
    BY <1>6, <2>5, <2>6, <2>7, <2>10, <2>8
  <2>11. \A r \in DOMAIN rows : r[1] = "orders" => now[r] = rows[r]
    BY <1>5, <1>7, <1>8, <1>9 DEF Laid
  <2>12. OnlyOrder(rows, now, o)
    BY <2>1, <2>2, <2>9, <2>10, <2>11 DEF OnlyOrder
  <2>13. ReceiptFits(now, o)
    BY <1>2, <2>2, <2>4, <2>9, NoneCame
  <2> QED BY <1>9, <2>9, <2>12, <2>13, OneOrder
<1>10. DOMAIN writes \subseteq DOMAIN rows
  BY <1>5, <1>7, <1>8
<1> QED BY <1>4, <1>9, <1>10 DEF Serves

\* Whatever runs into what, the orders fit until a request commits on rows that
\* had changed.
LEMMA OrderSteps ==
    ASSUME OrdersInv, [PurchaseNext]_storeVars
    PROVE  OrdersInv'
<1>1. Shape /\ desk = "orders" /\ DOMAIN rows = PurchaseIds
  BY DEF OrdersInv
<1>2. ASSUME NEW s \in Sessions, PurchaseStep(s)
      PROVE  OrdersInv'
  <2>1. PICK locked, writes : Serves(s, locked, writes)
    BY <1>1, <1>2, OrderCreateServes, OrderUpdateServes, OrderMovesOn, ReceiveServes,
       ExpenseServes DEF PurchaseStep
  <2>2. StageLocked(s, locked, writes) /\ DOMAIN writes \subseteq DOMAIN rows
    BY <2>1 DEF Serves
  <2>3. Shape' /\ UNCHANGED <<desk, rows, torn>>
    BY <1>1, <2>2, StageShape
  <2>4. \A t \in Sessions \ {s} : open'[t] = open[t] /\ After(t)' = After(t)
    BY <1>1, <2>2, StageAfter
  <2>5. ASSUME ~torn
        PROVE  OrdersFit(After(s)')
    BY <2>5, <1>1, <2>2, StagedLaid, <2>1 DEF OrdersInv, OrdersFit, Serves
  <2>6. ASSUME ~torn', NEW t \in Sessions, open'[t].fresh
        PROVE  OrdersFit(After(t)')
    BY <2>3, <2>5, <2>6, <2>4 DEF OrdersInv
  <2>7. ~torn' => OrdersFit(rows')
    BY <2>3 DEF OrdersInv
  <2> QED BY <1>1, <2>3, <2>6, <2>7 DEF OrdersInv, PurchaseIds
<1>3. ASSUME NEW s \in Sessions, PurchaseCommit(s)
      PROVE  OrdersInv'
  <2>1. PICK accepted : Commit(s, accepted)
    BY <1>3 DEF PurchaseCommit
  <2>2. Shape' /\ desk' = desk /\ DOMAIN rows' = DOMAIN rows
    BY <1>1, <2>1, CommitShape
  <2>3. /\ rows' = After(s) /\ torn' = (torn \/ ~open[s].fresh)
        /\ \A t \in Sessions : open'[t].fresh => After(t)' = rows'
    BY <1>1, <2>1, CommitAfter
  <2>4. ~torn' => OrdersFit(rows')
    BY <2>3 DEF OrdersInv
  <2>5. ASSUME ~torn', NEW t \in Sessions, open'[t].fresh
        PROVE  OrdersFit(After(t)')
    BY <2>3, <2>4, <2>5
  <2> QED BY <1>1, <2>2, <2>4, <2>5 DEF OrdersInv, PurchaseIds
<1>4. ASSUME NEW s \in Sessions, Abort(s)
      PROVE  OrdersInv'
  BY <1>1, <1>4, AbortShape, AbortAfter DEF OrdersInv, PurchaseIds
<1>5. CASE UNCHANGED storeVars
  BY <1>1, <1>5, StutterShape DEF storeVars, After, OrdersInv, PurchaseIds
<1> QED BY <1>2, <1>3, <1>4, <1>5 DEF PurchaseNext

\* Nothing is ordered yet.
LEMMA OrderStarts ==
    ASSUME PurchaseInit, desk = "orders"
    PROVE  OrdersInv
  BY InitShape DEF PurchaseInit, After, Told, LiveIn, Absent, OrdersFit, OrdersInv

\* Orders that fit add up.
LEMMA OrdersAddUp ==
    ASSUME OrdersFit(rows), NEW o \in Live("orders")
    PROVE  LET came == {l \in LinesOf(o) : rows[l].received > 0}
               due == {l \in LinesOf(o) : rows[l].received < rows[l].ordered}
           IN /\ \A l \in LinesOf(o) : rows[l].received <= rows[l].ordered
              /\ rows[o].status = "PARTIALLY_RECEIVED" => came # {} /\ due # {}
              /\ rows[o].status = "RECEIVED" => came = {} \/ due = {}
              /\ came # {} => rows[o].status \in {"PARTIALLY_RECEIVED", "RECEIVED"}
  BY LinesAre DEF OrdersFit, ReceiptFits

-----------------------------------------------------------------------------
(* Intervals and the target of their hole. *)

\* The columns a report will have; whether they are of an interval it has not yet.
Saved(s, r) == Written(rows[r], open[s].writes[r])

Deepens(s, r) ==
    /\ Saved(s, r).there /\ Saved(s, r).hole # NoRef
    /\ There(r) => <<Saved(s, r).hole, Saved(s, r).to>> # <<rows[r].hole, rows[r].to>>

\* Whoever saves an interval holds its hole, does not write it, and stays within
\* the target it has.
Within(s, r) ==
    LET h == Saved(s, r).hole
    IN Deepens(s, r) =>
          /\ h \in DOMAIN rows /\ h \in open[s].locks /\ h \notin DOMAIN open[s].writes
          /\ rows[h].target = NoDepth \/ Saved(s, r).to <= rows[h].target

Targeted(s) == \A r \in Table("reports") : r \in DOMAIN open[s].writes => Within(s, r)

\* What a session saves stays within the target as long as it holds the hole.
LEMMA TargetedKept ==
    ASSUME NEW t \in Sessions, Targeted(t), DOMAIN rows' = DOMAIN rows,
           open'[t].writes = open[t].writes, open'[t].locks = open[t].locks,
           \A h \in DOMAIN rows : h \in open[t].locks => rows'[h] = rows[h],
           \A r \in Table("reports") : r \in DOMAIN open[t].writes => rows'[r] = rows[r]
    PROVE  Targeted(t)'
  BY DEF Table, Targeted, Saved, Deepens, There, Within

\* A report that is made with an interval, or given another one.
LEMMA MadeWithin ==
    ASSUME DrillInv, NEW s \in Sessions, ShiftCreate(s)
    PROVE  Targeted(s)' /\ OthersStay(s) /\ UNCHANGED <<desk, rows, torn>>
<1>1. PICK body \in ReportBodies :
          /\ Spare("reports") # {} /\ ValidInterval(body, {})
          /\ StageLocked(s, HoleLock(body), Insert("reports", Over([corrected |-> FALSE], body)))
  BY DEF ShiftCreate
<1>2. Shape /\ \A r \in Table("reports") : r[2] \in Nat
  BY DrillingIdsAre, RowStoreAssumption DEF DrillInv, RowStoreAssumption
<1>3. PICK x : TakesRow(s, "reports", x)
  BY <1>1, <1>2, NewRowTaken
<1>4. PICK cols, locked : /\ cols = Over([corrected |-> FALSE], body) /\ locked = HoleLock(body)
                          /\ StageLocked(s, locked, Insert("reports", cols))
  BY <1>1
<1>5. /\ OthersStay(s) /\ UNCHANGED <<desk, rows, torn>>
      /\ open'[s].locks = locked /\ DOMAIN open'[s].writes = {x}
      /\ open'[s].writes[x] = Over([there |-> TRUE], cols)
  BY <1>2, <1>3, <1>4, StageNew
<1>6. x \in DOMAIN rows /\ x[1] = "reports" /\ ~There(x) /\ rows[x] = Absent
  BY <1>3 DEF TakesRow, Table, Fresh
<1>7. PICK new : new = Over([there |-> TRUE], cols)
  OBVIOUS
<1>8. DOMAIN body = {"site", "hole", "to", "status"} /\ body.hole \in HoleRefs
  BY ReportBodiesAre
<1>9. /\ new = [c \in DOMAIN new |-> new[c]] /\ "there" \in DOMAIN new /\ new.there = TRUE
      /\ new.hole = body.hole /\ new.to = body.to
  BY <1>4, <1>7, <1>8 DEF Over
<1>10. Written(Absent, new) = new
  BY <1>6, <1>9, NewRowDirty
<1>11. Saved(s, x)' = new
  BY <1>5, <1>6, <1>7, <1>10 DEF Saved
<1>12. PICK h : h = body.hole
  OBVIOUS
<1>13. ASSUME h # NoRef
       PROVE  /\ h \in DOMAIN rows /\ h \in locked /\ h \notin {x}
              /\ rows[h].target = NoDepth \/ new.to <= rows[h].target
  BY <1>8, <1>12, <1>13, <1>4, <1>1, <1>6, <1>9 DEF HoleRefs, HoleLock, ValidInterval, Table
<1>14. Within(s, x)'
  BY <1>9, <1>11, <1>12, <1>5, <1>13 DEF Deepens, Within
<1> QED BY <1>5, <1>14 DEF Targeted

\* A report whose interval is saved under the lock on its hole.
LEMMA SavedWithin ==
    ASSUME DrillInv, NEW s \in Sessions, NEW r \in Live("reports"), NEW body, NEW mark,
           DOMAIN body \subseteq {"site", "hole", "to"},
           "hole" \in DOMAIN body => body.hole \in HoleRefs,
           DOMAIN mark \subseteq {"corrected"},
           SaveShift(s, r, body, mark)
    PROVE  Targeted(s)' /\ OthersStay(s) /\ UNCHANGED <<desk, rows, torn>>
<1>1. PICK row, cols, locked :
          /\ row = Over(body, rows[r]) /\ cols = Over(mark, body)
          /\ locked = {r} \cup HoleLock(row)
          /\ ValidInterval(row, {r}) /\ StageLocked(s, locked, Set(r, cols))
  BY DEF SaveShift
<1>2. r \in DOMAIN rows /\ There(r) /\ ReportRow(rows[r]) /\ r[1] = "reports"
  BY DEF DrillInv, Live, Table
<1>3. /\ OthersStay(s) /\ UNCHANGED <<desk, rows, torn>>
      /\ DOMAIN open'[s].writes = {r} /\ open'[s].writes[r] = Dirty(r, cols)
      /\ open'[s].locks = locked
  <2>1. StageLocked(s, locked, Set(r, cols)) /\ r \in DOMAIN rows /\ There(r)
    BY <1>1, <1>2
  <2>2. OthersStay(s)
    BY ONLY DrillInv, s \in Sessions, <2>1, OneReport
  <2>3. UNCHANGED <<desk, rows, torn>>
    BY ONLY DrillInv, s \in Sessions, <2>1, OneReport
  <2>4. DOMAIN open'[s].writes = {r}
    BY ONLY DrillInv, s \in Sessions, <2>1, OneReport
  <2>5. open'[s].writes[r] = Dirty(r, cols)
    BY ONLY DrillInv, s \in Sessions, <2>1, OneReport
  <2>6. open'[s].locks = locked
    BY ONLY DrillInv, s \in Sessions, <2>1, OneReport
  <2> QED BY <2>2, <2>3, <2>4, <2>5, <2>6
<1>4. PICK old, dirty, new :
          old = rows[r] /\ dirty = Dirty(r, cols) /\ new = Saved(s, r)'
  OBVIOUS
<1>5. /\ DOMAIN old = {"there", "site", "hole", "to", "status", "corrected"}
      /\ old.there = TRUE /\ old.hole \in HoleRefs
  BY <1>2, <1>4 DEF ReportRow
<1>6. /\ DOMAIN dirty = {c \in DOMAIN cols : c \notin DOMAIN old \/ old[c] # cols[c]}
      /\ \A c \in DOMAIN dirty : dirty[c] = cols[c]
  BY <1>4 DEF Dirty
<1>7. /\ DOMAIN cols = DOMAIN mark \cup DOMAIN body
      /\ \A c \in {"hole", "to"} : c \in DOMAIN cols <=> c \in DOMAIN body
      /\ \A c \in {"hole", "to"} : c \in DOMAIN body => cols[c] = body[c]
      /\ "there" \notin DOMAIN cols
  BY <1>1 DEF Over
<1>8. \A c \in {"hole", "to"} : row[c] = IF c \in DOMAIN body THEN body[c] ELSE old[c]
  BY <1>1, <1>4, <1>5 DEF Over
<1>9. new.there => new.hole = row.hole /\ new.to = row.to
  BY <1>3, <1>4, <1>5, <1>6, <1>7, <1>8 DEF Saved, Over, Written
<1>10. PICK h, to : h = row.hole /\ to = row.to
  OBVIOUS
<1>11. h \in HoleRefs
  BY <1>5, <1>8, <1>10
<1>12. ASSUME h # NoRef
       PROVE  /\ h \in DOMAIN rows /\ h \in locked /\ h \notin {r}
              /\ rows[h].target = NoDepth \/ to <= rows[h].target
  BY <1>11, <1>12, <1>1, <1>10, <1>2 DEF HoleRefs, HoleLock, ValidInterval, Table
<1>13. Within(s, r)'
  BY <1>4, <1>9, <1>10, <1>3, <1>12 DEF Deepens, Within
<1> QED BY <1>3, <1>13 DEF Targeted

\* A report that is written without an interval.
LEMMA UndeepenedWithin ==
    ASSUME DrillInv, NEW s \in Sessions, NEW r \in Live("reports"), UNCHANGED <<desk, rows, torn>>,
           r \in DOMAIN open'[s].writes,
           \/ DOMAIN open'[s].writes[r] \subseteq {"status"}
           \/ open'[s].writes[r] = Absent
    PROVE  Within(s, r)'
<1>1. PICK old, w : old = rows[r] /\ w = open'[s].writes[r]
  OBVIOUS
<1>2. /\ DOMAIN old = {"there", "site", "hole", "to", "status", "corrected"}
      /\ old.there = TRUE
  BY <1>1 DEF DrillInv, ReportRow
<1>3. Saved(s, r)' = Written(old, w)
  BY <1>1 DEF Saved
<1>4. CASE w = Absent
  BY <1>4, <1>3 DEF Over, Absent, Written, Within, Deepens
<1>5. CASE DOMAIN w \subseteq {"status"}
  <2>1. PICK laid : laid = Over(w, old)
    OBVIOUS
  <2>2. laid.there = TRUE /\ laid.hole = old.hole /\ laid.to = old.to
    BY <1>2, <1>5, <2>1 DEF Over
  <2>3. Written(old, w) = laid
    BY <2>1, <2>2 DEF Written
  <2>4. Saved(s, r)'.hole = rows'[r].hole /\ Saved(s, r)'.to = rows'[r].to /\ There(r)'
    BY <1>1, <1>2, <1>3, <2>2, <2>3 DEF There
  <2> QED BY <2>4 DEF Within, Deepens
<1> QED BY <1>1, <1>4, <1>5

\* Making or editing a hole saves no interval (update_drill_hole).
LEMMA HoleWithin ==
    ASSUME DrillInv, NEW s \in Sessions, HoleCreate(s) \/ HoleUpdate(s)
    PROVE  Targeted(s)' /\ OthersStay(s) /\ UNCHANGED <<desk, rows, torn>>
<1>1. PICK x, cols : /\ x \in Table("holes") /\ StageLocked(s, {}, Set(x, cols))
                     /\ ~There(x) => \A t \in Sessions : x \notin DOMAIN open[t].writes
  <2>1. CASE HoleCreate(s)
    BY DrillingIdsAre, <2>1, NewRowIsSpare DEF DrillInv, HoleCreate, Insert, Stage
  <2>2. CASE HoleUpdate(s)
    BY <2>2 DEF HoleUpdate, Stage, Live
  <2> QED BY <2>1, <2>2
<1>2. PICK locked : locked = {} /\ StageLocked(s, locked, Set(x, cols))
  BY <1>1
<1>3. x \in DOMAIN rows /\ x[1] = "holes"
  BY <1>1 DEF Table
<1>4. OthersStay(s)
  BY <1>1, <1>2, <1>3, OneReport
<1>5. UNCHANGED <<desk, rows, torn>>
  BY <1>1, <1>2, <1>3, OneReport
<1>6. DOMAIN open'[s].writes = {x}
  BY <1>1, <1>2, <1>3, OneReport
<1>7. Targeted(s)'
  BY <1>3, <1>6 DEF Targeted, Table
<1> QED BY <1>4, <1>5, <1>7

\* Nor does deleting a report.
LEMMA DeleteWithin ==
    ASSUME DrillInv, NEW s \in Sessions, ShiftDelete(s)
    PROVE  Targeted(s)' /\ OthersStay(s) /\ UNCHANGED <<desk, rows, torn>>
<1>1. PICK r \in Live("reports") : StageLocked(s, {r}, Set(r, Absent))
  BY DEF ShiftDelete
<1>2. PICK locked, cols : /\ locked = {r} /\ cols = Absent
                          /\ StageLocked(s, locked, Set(r, cols))
  BY <1>1
<1>3. r \in DOMAIN rows /\ There(r)
  BY DEF Live, Table
<1>4. Dirty(r, cols) = cols
  <2>1. rows[r].there = TRUE
    BY DEF DrillInv, ReportRow
  <2>2. /\ DOMAIN cols = {"there"} /\ cols.there = FALSE
        /\ cols = [c \in DOMAIN cols |-> cols[c]]
    BY <1>2 DEF Absent
  <2>3. {c \in DOMAIN cols : c \notin DOMAIN rows[r] \/ rows[r][c] # cols[c]} = DOMAIN cols
    BY <2>1, <2>2
  <2> QED BY <2>2, <2>3 DEF Dirty
<1>5. OthersStay(s)
  BY <1>2, <1>3, OneReport
<1>6. UNCHANGED <<desk, rows, torn>>
  BY <1>2, <1>3, OneReport
<1>7. DOMAIN open'[s].writes = {r}
  BY <1>2, <1>3, OneReport
<1>8. open'[s].writes[r] = Dirty(r, cols)
  BY <1>2, <1>3, OneReport
<1>9. Within(s, r)'
  BY <1>2, <1>4, <1>6, <1>7, <1>8, UndeepenedWithin
<1> QED BY <1>5, <1>6, <1>7, <1>9 DEF Targeted

\* An approval saves no interval, and deepens the hole it has read.
LEMMA ApproveWithin ==
    ASSUME DrillInv, NEW s \in Sessions, ShiftApprove(s)
    PROVE  Targeted(s)' /\ OthersStay(s) /\ UNCHANGED <<desk, rows, torn>>
<1>1. PICK r, post, cols :
          /\ r \in Live("reports") /\ rows[r].status # "APPROVED" /\ post = PostRevenue(r)
          /\ StageLocked(s, {r}, Over(Set(r, [status |-> "APPROVED"]),
                 Over(IF rows[r].hole = NoRef THEN <<>> ELSE Set(rows[r].hole, cols), post)))
  BY DEF ShiftApprove
<1>2. PICK status, hole, locked, writes :
          /\ status = [status |-> "APPROVED"] /\ locked = {r}
          /\ hole = IF rows[r].hole = NoRef THEN <<>> ELSE Set(rows[r].hole, cols)
          /\ writes = Over(Set(r, status), Over(hole, post))
          /\ StageLocked(s, locked, writes)
  BY <1>1
<1>3. /\ r \in DOMAIN rows /\ There(r) /\ r[1] = "reports" /\ rows[r].hole \in HoleRefs
  BY <1>1 DEF DrillInv, Live, Table, ReportRow
<1>4. \A x \in DOMAIN hole : x \in DOMAIN rows /\ x[1] = "holes"
  BY <1>2, <1>3 DEF HoleRefs, Set, Table
<1>5. \A v \in DOMAIN post : v \in DOMAIN rows /\ v[1] = "revenue"
  BY <1>1, RevenueOf DEF Table
<1>6. DOMAIN writes = {r} \cup DOMAIN hole \cup DOMAIN post /\ writes[r] = status
  BY <1>2 DEF Over, Set
<1>7. DOMAIN writes \subseteq DOMAIN rows /\ Shape
  BY <1>3, <1>4, <1>5, <1>6 DEF DrillInv
<1>8. /\ OthersStay(s) /\ UNCHANGED <<desk, rows, torn>>
      /\ DOMAIN open'[s].writes = {x \in DOMAIN writes : DOMAIN Dirty(x, writes[x]) # {}}
      /\ \A x \in DOMAIN open'[s].writes : open'[s].writes[x] = Dirty(x, writes[x])
  <2>1. StageLocked(s, locked, writes)
    BY <1>2
  <2> QED BY ONLY s \in Sessions, <1>7, <2>1, StageShape
<1>9. DOMAIN Dirty(r, status) \subseteq {"status"}
  BY <1>2 DEF Dirty
<1>10. ASSUME NEW x \in Table("reports"), x \in DOMAIN open'[s].writes
       PROVE  Within(s, x)'
  BY <1>4, <1>5, <1>6, <1>8, <1>10, <1>9, <1>1, UndeepenedWithin DEF Table
<1>11. Targeted(s)'
  BY <1>8, <1>10 DEF Table, Targeted
<1> QED BY <1>8, <1>11

\* What a handler of the desk for shifts stages is within the target.
LEMMA TargetStages ==
    ASSUME DrillInv, desk = "shifts", NEW s \in Sessions, DrillingStep(s)
    PROVE  Targeted(s)' /\ OthersStay(s) /\ UNCHANGED <<desk, rows, torn>>
  BY SavedWithin, HoleWithin, MadeWithin, DeleteWithin, ApproveWithin DEF ReportChanges,
     Intervals, HoleRefs, ShiftUpdate, FieldShiftUpdate, DrillingStep, ReportStep

\* A commit does not touch what the others hold, nor a report they make.
LEMMA TargetCommits ==
    ASSUME DrillInv, \A t \in Sessions : Targeted(t), NEW s \in Sessions, NEW accepted,
           Commit(s, accepted), NEW t \in Sessions
    PROVE  Targeted(t)'
<1>1. /\ OthersStay(s) /\ DOMAIN rows' = DOMAIN rows /\ DOMAIN open'[s].writes = {} /\ Shape
      /\ \A r \in DOMAIN rows : r \notin DOMAIN open[s].writes => rows'[r] = rows[r]
  BY CommitShape DEF DrillInv
<1>2. CASE t = s
  BY <1>1, <1>2 DEF Targeted
<1>3. CASE t # s
  <2>1. open'[t].writes = open[t].writes /\ open'[t].locks = open[t].locks
    BY <1>1, <1>3 DEF OthersStay
  <2>2. \A h \in DOMAIN rows : h \in open[t].locks => rows'[h] = rows[h]
    BY <1>1, <1>3, HeldStays
  <2>3. ASSUME NEW r \in Table("reports"), r \in DOMAIN open[t].writes
        PROVE  rows'[r] = rows[r]
    BY <2>3, <1>1, <1>3, <2>2 DEF DrillInv, ReportPending, Table, Reporting, Unruled,
       Edited, Deleted, Moved, Posted, Reported, ReportHeld
  <2> QED BY <1>1, <2>1, <2>2, <2>3, TargetedKept
<1> QED BY <1>2, <1>3

\* Sessions that a step leaves alone.
LEMMA TargetStays ==
    ASSUME NEW t \in Sessions, Targeted(t), UNCHANGED <<desk, rows>>,
           open'[t].writes = open[t].writes, open'[t].locks = open[t].locks
    PROVE  Targeted(t)'
  BY TargetedKept

\* Every step at the desk of shifts keeps the hole of an interval held.
LEMMA DepthSteps ==
    ASSUME DrillInv, desk = "shifts", \A t \in Sessions : Targeted(t), [DrillingNext]_storeVars
    PROVE  \A t \in Sessions : Targeted(t)'
  BY TargetStages, TargetStays, TargetCommits, AbortShape DEF OthersStay, DrillingCommit,
     DrillInv, Targeted, storeVars, DrillingNext

\* What a step may do to the interval of a report (NeverBeyondTarget).
ShallowStay ==
    \A r \in Table("reports") :
        /\ desk = "shifts" /\ rows'[r].there /\ rows'[r].hole # NoRef
        /\ There(r) => <<rows'[r].hole, rows'[r].to>> # <<rows[r].hole, rows[r].to>>
        => rows'[rows'[r].hole].target = NoDepth
           \/ rows'[r].to <= rows'[rows'[r].hole].target

\* An interval that is saved is within the target, as its hole was held since the look
\* (validate_site_intervals).
LEMMA TargetStands ==
    ASSUME DrillInv, desk = "shifts", \A t \in Sessions : Targeted(t), [DrillingNext]_storeVars
    PROVE  ShallowStay
  BY CommitShape, DrillingHandlers DEF ShallowStay, There, DrillingCommit, DrillInv, Table,
     Saved, Deepens, Targeted, Within, Abort, storeVars, DrillingNext

-----------------------------------------------------------------------------
(* The desks together. *)

\* A handler, of whatever desk, changes no row, nor the desk.
LEMMA RegisterDesk == ASSUME NEW s \in Sessions, RegisterStep(s) PROVE UNCHANGED <<desk, rows>>
<1>1. \A locked, writes : StageLocked(s, locked, writes) => UNCHANGED <<desk, rows>>
  BY DEF StageLocked
<1>2. CASE MediaStep(s) \/ OwnershipAdd(s)
  BY <1>1, <1>2 DEF MediaStep, MediaAdd, MediaUpdate, PrimaryMedia, ArchiveMedia, OwnershipAdd,
     AddRecord
<1>3. CASE CategoryStep(s)
  BY <1>1, <1>3 DEF CategoryStep, CategoryCreate, CategoryUpdate, CategoryArchive, Stage
<1>4. CASE ComponentStep(s)
  BY <1>1, <1>4 DEF ComponentStep, ComponentAdd, ComponentChange, ComponentRemove,
     ComponentReplace, UpdateComponent, AddRecord, Stage
<1>5. CASE DefectStep(s)
  BY <1>1, <1>5 DEF DefectStep, DefectReport, DefectChange, ResolveDefect, UpdateDefect,
     AddRecord, Stage
<1>6. CASE RecordStep(s) \/ MachineDocumentStep(s)
  BY <1>1, <1>6 DEF RecordStep, PaperAdd, PaperChange, MachineDocumentStep, AddDocument,
     VerifyDocument, ArchiveDocument, AddRecord, Stage
<1> QED BY <1>2, <1>3, <1>4, <1>5, <1>6 DEF RegisterStep

\* The handlers of vendors stage rows, and commit none;
LEMMA VendorDesk == ASSUME NEW s \in Sessions, VendorStep(s) PROVE UNCHANGED <<desk, rows>>
<1>1. \A locked, writes : StageLocked(s, locked, writes) => UNCHANGED <<desk, rows>>
  BY DEF StageLocked
<1>2. \A name, number, takes, other : EnsureVendor(s, name, number, takes, other) => UNCHANGED <<desk, rows>>
  BY <1>1 DEF EnsureVendor, Stage
<1> QED BY <1>1, <1>2 DEF VendorStep, CreateVendor, UpdateVendor, RenameSupplier,
       ArchiveSupplier, PayTo

\* so do those of sites,
LEMMA SiteDesk ==
    ASSUME NEW s \in Sessions, SiteStep(s), desk \in DOMAIN SiteTables PROVE UNCHANGED <<desk, rows>>
<1>1. \A locked, writes : StageLocked(s, locked, writes) => UNCHANGED <<desk, rows>>
  BY DEF StageLocked
<1>2. CASE ProjectStep(s)
  BY <1>1, <1>2 DEF ProjectStep, ClientCreate, ProjectCreate, ProjectUpdate, ArchiveProject,
     ProjectNote, Stage
<1>3. SiteCreate(s) \/ SiteUpdate(s) => UNCHANGED <<desk, rows>>
  BY <1>1 DEF SiteCreate, SiteUpdate, Stage
<1>4. CASE FuelStep(s)
  BY <1>1, <1>3, <1>4 DEF EnsureVendor, Stage, FuelStep, FuelDelivery, FuelAllocation,
     FuelAllocationUpdate
<1>5. CASE SafetyStep(s)
  BY <1>1, <1>3, <1>5 DEF SafetyStep, CreateIncident, UpdateIncident, AddActionToIncident,
     UpdateAction, Stage
<1>6. CASE LogStep(s) \/ LogConsumption(s)
  BY <1>1, <1>6 DEF LogStep, CreateLog, EditLog, RetireMachine, LogConsumption
<1>7. CASE ImportStep(s)
  BY <1>1, <1>7 DEF ImportStep, MasterSave, PreviewImport, ConfirmImport
<1>8. desk \in {"projects", "grounds", "safety", "logs", "consumables", "imports"}
  BY DEF SiteTables
<1> QED BY <1>2, <1>4, <1>5, <1>6, <1>7, <1>8 DEF SiteStep

\* of the workshop,
LEMMA WorkshopDesk ==
    ASSUME NEW s \in Sessions, WorkshopStep(s), desk \in DOMAIN WorkshopTables PROVE UNCHANGED <<desk, rows>>
<1>1. \A locked, writes : StageLocked(s, locked, writes) => UNCHANGED <<desk, rows>>
  BY DEF StageLocked
<1>2. CreateBreakdown(s) \/ UpdateBreakdown(s) \/ SiteUpdate(s) => UNCHANGED <<desk, rows>>
  BY <1>1 DEF CreateBreakdown, UpdateBreakdown, SiteUpdate, Stage
<1>3. CreateCard(s) \/ UpdateCard(s) => UNCHANGED <<desk, rows>>
  BY <1>1 DEF CreateCard, UpdateCard, Stage
<1>4. CreateAssessment(s) \/ UpdateAssessment(s) => UNCHANGED <<desk, rows>>
  BY <1>1 DEF CreateAssessment, UpdateAssessment, Stage
<1>5. /\ CreateTrackedAction(s) \/ UpdateTrackedAction(s) => UNCHANGED <<desk, rows>>
      /\ CreatePlan(s) \/ UpdatePlan(s) => UNCHANGED <<desk, rows>>
  BY <1>1 DEF CreateTrackedAction, UpdateTrackedAction, CreatePlan, UpdatePlan, Stage
<1>6. CreateEntry(s) \/ UpdateEntry(s) => UNCHANGED <<desk, rows>>
  BY <1>1 DEF CreateEntry, UpdateEntry, Stage
<1>7. desk \in {"breakdowns", "cards", "assessments", "tracked", "plans", "register"}
  BY DEF WorkshopTables
<1> QED BY <1>2, <1>3, <1>4, <1>5, <1>6, <1>7 DEF WorkshopStep

\* and of serials.
LEMMA SerialDesk == ASSUME NEW s \in Sessions, SerialStep(s) PROVE UNCHANGED <<desk, rows>>
<1>1. \A kind, n, store, row, moves, more :
          PostSerial(s, kind, n, store, row, moves, more) => UNCHANGED <<desk, rows>>
  BY DEF PostSerial, StageLocked
<1> QED BY <1>1 DEF SerialStep, ReceiveSerial, IssueSerial, IssueReserved, ReturnSerial,
       DispatchSerial, ReceiveTransfer, ScrapSerial, Quarantine, CountSerial, Reserve, Release,
       Reverse

\* Whatever the desk, a step begins a request, commits one, or ends one.
LEMMA OneDesk == BusinessNext => Alike
<1> SUFFICES ASSUME BusinessNext PROVE Alike
  OBVIOUS
<1>1. ASSUME NEW s \in Sessions, NEW accepted, Commit(s, accepted) PROVE Alike
  BY <1>1 DEF Commit, After, Alike
<1>2. ASSUME NEW s \in Sessions, Abort(s) PROVE Alike
  BY <1>2 DEF Abort, Alike
<1>3. CASE RegisterNext
  BY <1>3, <1>1, <1>2, RegisterDesk DEF RegisterNext, RegisterCommit, Alike
<1>4. CASE DrillingNext
  <2>1. PICK s \in Sessions : DrillingStep(s) \/ DrillingCommit(s) \/ Abort(s)
    BY <1>4 DEF DrillingNext
  <2>2. CASE DrillingStep(s)
    <3>1. HoleCreate(s) \/ HoleUpdate(s) \/ ContractStep(s) \/ ReportStep(s) \/ ProgramStep(s)
      BY <2>2 DEF DrillingStep
    <3>2. \E locked, writes : StageLocked(s, locked, writes)
      <4>1. CASE HoleCreate(s) \/ HoleUpdate(s) \/ ContractStep(s)
        BY <4>1 DEF HoleCreate, HoleUpdate, ContractStep, ContractCreate, ContractUpdate,
           ContractDelete, AddRateCard, Stage
      <4>2. CASE ReportStep(s)
        BY <4>2 DEF ReportStep, ShiftCreate, ShiftUpdate, FieldShiftUpdate, SaveShift,
           ShiftSubmit, ShiftReturn, SetStatus, ShiftDelete, ShiftApprove
      <4>3. CASE ProgramStep(s)
        BY <4>3 DEF ProgramStep, Stage
      <4> QED BY <3>1, <4>1, <4>2, <4>3
    <3> QED BY <3>2 DEF StageLocked, Alike
  <2> QED BY <1>1, <1>2, <2>1, <2>2 DEF DrillingCommit
<1>5. CASE PurchaseNext
  BY <1>5, <1>1, <1>2, PurchaseHandlers DEF PurchaseNext, PurchaseCommit, Alike
<1>6. CASE VendorNext
  BY <1>6, <1>1, <1>2, VendorDesk DEF VendorNext, Alike
<1>7. CASE SiteNext
  BY <1>7, <1>1, <1>2, SiteDesk DEF SiteNext, Alike
<1>8. CASE WorkshopNext
  BY <1>8, <1>1, <1>2, WorkshopDesk DEF WorkshopNext, Alike
<1>9. CASE SerialNext
  BY <1>9, <1>1, <1>2, SerialDesk DEF SerialNext, Alike
<1> QED BY <1>3, <1>4, <1>5, <1>6, <1>7, <1>8, <1>9 DEF BusinessNext

\* What holds at each of the desks proved about, and where their tables are.
BusinessInv ==
    /\ desk \in {"shifts", "billing"} => DrillInv
    /\ desk \notin {"shifts", "billing"} => Table("reports") = {}
    /\ desk = "shifts" => \A s \in Sessions : Targeted(s)
    /\ desk = "orders" => OrdersInv
    /\ desk = "payments" => PayInv
    /\ desk = "numbers" => DrawInv
    /\ desk = "logs" => LogsInv
    /\ desk # "logs" => Table("logs") = {}
    /\ desk = "consumables" => IssuesInv
    /\ desk = "imports" => ImportsInv

Clerks ==
    {"shifts", "billing", "orders", "payments", "numbers", "logs", "consumables", "imports"}

\* The desks of sites begin with nothing under way.
LEMMA SiteStarts == SiteInit => BusinessInv
<1> SUFFICES ASSUME SiteInit PROVE BusinessInv
  OBVIOUS
<1>1. /\ desk \in {"projects", "grounds", "safety", "logs", "consumables", "imports"}
      /\ DOMAIN rows = SiteIds /\ StoreInit /\ rows = [r \in DOMAIN rows |-> rows[r]]
      /\ \A r \in DOMAIN rows : rows[r] = SiteFirst(r)
  BY DEF SiteInit, SiteTables
<1>2. \A r \in DOMAIN rows : There(r) \/ rows[r] = Absent
  BY <1>1 DEF SiteFirst, There
<1>3. Shape /\ \A s \in Sessions : DOMAIN open[s].writes = {}
  BY <1>1, <1>2, InitShape
<1>4. \A name : Table(name) # {} => name \in SiteTables[desk]
  BY <1>1 DEF Table, SiteIds
<1>5. Table("reports") = {} /\ (desk # "logs" => Table("logs") = {})
  BY <1>1, <1>4 DEF SiteTables
<1>6. Live("issues") = {} /\ Live("imports") = {} /\ Live("items") = {} /\ Live("receipts") = {}
  BY <1>1 DEF Live, Table, There, SiteFirst, Absent
<1>7. desk = "logs" => LogsInv
  BY <1>1, <1>3 DEF LogsInv, Logging
<1>8. desk = "consumables" => IssuesInv
  BY <1>1, <1>3, <1>6 DEF IssuesInv, SubmittedOnce, UnderLock, Issuing
<1>9. desk = "imports" => ImportsInv
  BY <1>1, <1>3, <1>6 DEF ImportsInv, AppliedOnce, UnderLock, Importing
<1> QED BY <1>1, <1>5, <1>7, <1>8, <1>9 DEF BusinessInv

\* So do all the desks.
LEMMA BusinessStarts == BusinessInit => BusinessInv
<1> SUFFICES ASSUME BusinessInit PROVE BusinessInv
  OBVIOUS
<1>1. ASSUME desk \notin Clerks, Table("reports") = {}, Table("logs") = {}
      PROVE  BusinessInv
  BY <1>1 DEF BusinessInv, Clerks
<1>2. CASE RegisterInit
  BY <1>2, <1>1 DEF RegisterInit, RegisterTables, Table, RegisterIds, Clerks
<1>3. CASE DrillingInit
  <2>1. desk \in {"shifts", "billing", "programs"} /\ DOMAIN rows = DrillingIds
    BY <1>3 DEF DrillingInit, DrillingTables
  <2>2. \A name : Table(name) # {} => name \in DrillingTables[desk]
    BY <2>1 DEF Table, DrillingIds
  <2>3. Table("logs") = {}
    BY <2>1, <2>2 DEF DrillingTables
  <2>4. DrillingInv
    BY <1>3, DrillingStarts
  <2>5. \A s \in Sessions : Targeted(s)
    BY <1>3 DEF DrillingInit, StoreInit, Idle, Targeted
  <2> QED BY <2>1, <2>3, <2>4, <2>5 DEF BusinessInv, DrillingInv
<1>4. CASE PurchaseInit
  BY <1>4, NumbersStart, OrderStarts, PayStarts DEF PurchaseInit, PurchaseTables, Table,
     PurchaseIds, BusinessInv, NumbersInv
<1>5. CASE VendorInit
  BY <1>5, <1>1 DEF VendorInit, Table, VendorIds, Clerks
<1>6. CASE WorkshopInit
  BY <1>6, <1>1 DEF WorkshopInit, WorkshopTables, Table, WorkshopIds, Clerks
<1>7. CASE SerialInit
  BY <1>7, <1>1 DEF SerialInit, Table, SerialIds, LastMovement, Clerks
<1> QED BY <1>2, <1>3, <1>4, <1>5, <1>6, <1>7, SiteStarts DEF BusinessInit

\* At each of the desks only its own requests are made.
LEMMA OwnRequests ==
    ASSUME [BusinessNext]_storeVars
    PROVE  /\ desk \in {"shifts", "billing"} => [DrillingNext]_storeVars
           /\ desk \in {"orders", "payments", "numbers"} => [PurchaseNext]_storeVars
           /\ desk \in {"logs", "consumables", "imports"} => [SiteNext]_storeVars
  BY DEF BusinessNext, RegisterNext, DrillingNext, PurchaseNext, VendorNext, SiteNext,
     WorkshopNext, SerialNext, RegisterTables, DrillingTables, PurchaseTables, SiteTables,
     WorkshopTables

\* Every step of the run keeps the invariants of all its desks.
LEMMA BusinessSteps == BusinessInv /\ [BusinessNext]_storeVars => BusinessInv'
<1> SUFFICES ASSUME BusinessInv, [BusinessNext]_storeVars PROVE BusinessInv'
  OBVIOUS
<1>1. desk' = desk /\ DOMAIN rows' = DOMAIN rows
  BY OneDesk DEF Alike, storeVars
<1>2. \A name : Table(name)' = Table(name)
  BY <1>1 DEF Table
<1>3. desk \in {"shifts", "billing"} => DrillInv'
  BY OwnRequests, DrillingSteps, <1>1 DEF BusinessInv, DrillingInv
<1>4. desk = "numbers" => DrawInv'
  BY OwnRequests, NumbersSteps, <1>1 DEF BusinessInv, NumbersInv, PurchaseTables
<1>5. desk = "logs" => LogsInv'
  BY OwnRequests, LogSteps DEF BusinessInv
<1>6. desk = "consumables" => IssuesInv'
  BY OwnRequests, IssueSteps DEF BusinessInv
<1>7. desk = "imports" => ImportsInv'
  BY OwnRequests, ImportSteps DEF BusinessInv
<1>8. desk = "orders" => OrdersInv'
  BY OwnRequests, OrderSteps DEF BusinessInv
<1>9. desk = "payments" => PayInv'
  BY OwnRequests, PaySteps DEF BusinessInv
<1>10. desk = "shifts" => \A s \in Sessions : Targeted(s)'
  BY OwnRequests, DepthSteps DEF BusinessInv
<1> QED BY <1>1, <1>2, <1>3, <1>4, <1>5, <1>6, <1>7, <1>8, <1>9, <1>10 DEF BusinessInv

\* An import has made as many rows as its status says.
LEMMA ImportCounts ==
    ASSUME ImportsInv, NEW i \in Live("imports")
    PROVE  Cardinality({r \in Live("items") \cup Live("receipts") : rows[r].import = i})
               = (IF rows[i].status = "COMPLETED" THEN 1 ELSE 0)
  BY FS_EmptySet, FS_Singleton DEF Made, ImportsInv, AppliedOnce, ImportFits

\* However requests on the same reports run into each other, a report is charged
\* for its metres once at most, only once it is approved, and for the metres it
\* reports unless it was corrected (approve_shift_report,
\* calculate_and_post_shift_revenue).
THEOREM MetresChargedOnce == BusinessSpec => []ChargedOnce
<1>1. BusinessInv => ChargedOnce
  BY DrillingIsCharged DEF BusinessInv, ChargedOnce
<1> QED BY <1>1, BusinessStarts, BusinessSteps, PTL DEF BusinessSpec

\* However many requests draw at once, the first time too, no number is given twice
\* and the counter is at the last one (next_business_number); a submission is issued
\* once (log_consumption), a file of items or stock applied once, when it is confirmed
\* (confirm).
THEOREM NothingDrawnTwice == BusinessSpec => []DrawnOnce
<1>1. BusinessInv => NumbersDiffer
  BY DEF BusinessInv, NumbersDiffer, DrawInv, CounterFits
<1>2. BusinessInv => IssuedOnce
  BY ImportCounts DEF BusinessInv, IssuedOnce, IssuesInv, SubmittedOnce
<1>3. BusinessInv => DrawnOnce
  BY <1>1, <1>2 DEF DrawnOnce
<1> QED BY <1>3, BusinessStarts, BusinessSteps, PTL DEF BusinessSpec

\* However payments and edits of an expense run into each other, no more is paid
\* than it costs and its status says what was paid (complete_expense,
\* update_expense); as long as no request committed on rows that had changed since it
\* read them, an order has received no more than it orders and its status says what
\* came (receive_goods, update_purchase_order, create_expense).
THEOREM PaidAndReceived == BusinessSpec => []PurchasesAddUp
<1>1. BusinessInv => PaymentsFit
  BY DEF BusinessInv, PaymentsFit, PayInv, ExpenseFits, StatusOf
<1>2. BusinessInv => ReceiptsAddUp
  BY OrdersAddUp DEF ReceiptsAddUp, BusinessInv, OrdersInv
<1>3. BusinessInv => PurchasesAddUp
  BY <1>1, <1>2 DEF PurchasesAddUp
<1> QED BY <1>3, BusinessStarts, BusinessSteps, PTL DEF BusinessSpec

\* Whatever runs into it, an interval is never saved deeper than the target its hole
\* has at that moment: the look at the target and the save are under the lock on the
\* hole (validate_site_intervals).
THEOREM IntervalsWithinTarget == BusinessSpec => NeverBeyondTarget
<1>1. BusinessInv /\ [BusinessNext]_storeVars => [ShallowStay]_storeVars
  BY OwnRequests, TargetStands DEF BusinessInv, ShallowStay
<1>2. BusinessSpec => [][ShallowStay]_storeVars
  BY <1>1, BusinessStarts, BusinessSteps, PTL DEF BusinessSpec
<1>3. [][ShallowStay]_storeVars => NeverBeyondTarget
  BY PTL DEF ShallowStay, NeverBeyondTarget
<1> QED BY <1>2, <1>3

\* A log changes only while the machine is in use (RetiredIsSilent).
RetiredSilent ==
    \A l \in Table("logs") :
        rows'[l] # rows[l] => \A m \in Live("machines") : rows'[m].active

\* An approved report stays approved and there, and another interval of it is a
\* correction (update_shift_report, delete_shift_report); nothing is logged for a
\* machine once it is retired (writable_asset, retire_asset).
THEOREM ClosedIsClosed == BusinessSpec => ClosedStaysClosed
<1>1. BusinessInv /\ [BusinessNext]_storeVars => [ApprovedStay]_storeVars
  BY OwnRequests, ApprovalStands DEF BusinessInv, ApprovedStay
<1>2. BusinessInv /\ [BusinessNext]_storeVars => [RetiredSilent]_rows
  BY OwnRequests, LogSteps DEF BusinessInv, RetiredSilent, Live
<1>3. BusinessSpec => [][ApprovedStay]_storeVars
  BY <1>1, BusinessStarts, BusinessSteps, PTL DEF BusinessSpec
<1>4. BusinessSpec => [][RetiredSilent]_rows
  BY <1>2, BusinessStarts, BusinessSteps, PTL DEF BusinessSpec
<1>5. [][ApprovedStay]_storeVars => ApprovalIsFinal
  BY PTL DEF ApprovedStay, ApprovalIsFinal
<1>6. [][RetiredSilent]_rows => RetiredIsSilent
  BY PTL DEF RetiredSilent, RetiredIsSilent
<1> QED BY <1>3, <1>4, <1>5, <1>6 DEF ClosedStaysClosed
=============================================================================
