------------------------------ MODULE Workshop ------------------------------
(***************************************************************************)
(* What the workshop writes about maintenance: job cards for breakdowns    *)
(* and for preventive maintenance, assessment reports, and the trackers    *)
(* (endpoints/pm_job_cards.py, maintenance_assessments.py,                 *)
(* action_tracker.py, pm_tracker.py, equipment_register.py).  Cards and    *)
(* reports are young enough to be edited; equipment and people are there,  *)
(* and checked no further.                                                 *)
(***************************************************************************)
EXTENDS SiteRecords

(***************************************************************************)
(* Job cards.  The site is checked against the project where both are set, *)
(* by the three handlers that look; a new preventive card is not looked    *)
(* at.                                                                     *)
(***************************************************************************)
CardStatuses == {"DRAFT", "COMPLETED"}   \* or any other: none has a rule

PlacedAt == [project : {NoRef} \cup Table("projects"), site : {NoRef} \cup Table("sites")]

Belongs(place) ==
    place.site # NoRef =>
        /\ There(place.site)
        /\ place.project # NoRef => rows[place.site].project = place.project

BreakdownRows ==
    [there : {TRUE}, project : {NoRef} \cup Table("projects"),
     site : {NoRef} \cup Table("sites"), status : CardStatuses]

CreateBreakdown(s) ==
    \E place \in PlacedAt :
        /\ Spare("breakdowns") # {}
        /\ Belongs(place)
        /\ Stage(s, Insert("breakdowns", Over(place, [status |-> "DRAFT"])))

UpdateBreakdown(s) ==
    \E b \in Live("breakdowns"),
       body \in [status : CardStatuses] \cup [site : {NoRef} \cup Table("sites")] :
        /\ "site" \in DOMAIN body => Belongs(Over(body, rows[b]))
        /\ Stage(s, Set(b, body))

\* order is the work order of a card, of its equipment when it was linked.
CardRows ==
    [there : {TRUE}, project : {NoRef} \cup Table("projects"),
     site : {NoRef} \cup Table("sites"), machine : {NoRef} \cup Table("machines"),
     order : {NoRef} \cup Table("orders"), number : Names, status : CardStatuses,
     completed : BOOLEAN]

\* Work orders by their equipment.
CardOrderRows == [there : {TRUE}, machine : Table("machines")]

OrderFits(order, machine) ==
    order # NoRef => machine # NoRef /\ rows[order].machine = machine

NumberUnused(table, number, self) ==
    \A c \in Live(table) \ self : rows[c].number # number

CreateCard(s) ==
    \E number \in Names, place \in PlacedAt, machine \in {NoRef} \cup Live("machines"),
       order \in {NoRef} \cup Live("orders") :
        /\ Spare("cards") # {}
        /\ Known(place.site)
        /\ OrderFits(order, machine)
        /\ NumberUnused("cards", number, {})
        /\ Stage(s, Insert("cards", Over(place, [number |-> number, machine |-> machine,
                                                 order |-> order, status |-> "DRAFT",
                                                 completed |-> FALSE])))

\* The order is looked at only if it is sent.
UpdateCard(s) ==
    \E c \in Live("cards"),
       body \in [status : CardStatuses] \cup [number : Names]
                \cup [site : {NoRef} \cup Table("sites")]
                \cup [project : {NoRef} \cup Table("projects")]
                \cup [machine : {NoRef} \cup Live("machines")] \cup [order : Live("orders")] :
        LET row == Over(body, rows[c])
        IN /\ Belongs(row)
           /\ NumberUnused("cards", row.number, {c})
           /\ "order" \in DOMAIN body => OrderFits(body.order, row.machine)
           /\ Stage(s, Set(c, IF row.status = "COMPLETED" /\ ~row.completed
                              THEN Over([completed |-> TRUE], body) ELSE body))

(***************************************************************************)
(* Assessment reports: their number, their period, their place.            *)
(***************************************************************************)
AssessmentRows == [there : {TRUE}, number : Names, from : Days, until : Days]

\* The place is checked as a breakdown's, and left out.
CreateAssessment(s) ==
    \E number \in Names, from, until \in Days :
        /\ Spare("assessments") # {}
        /\ NumberUnused("assessments", number, {})
        /\ from <= until
        /\ Stage(s, Insert("assessments", [number |-> number, from |-> from,
                                           until |-> until]))

UpdateAssessment(s) ==
    \E r \in Live("assessments"), body \in [number : Names] \cup [from : Days] \cup [until : Days] :
        LET row == Over(body, rows[r])
        IN /\ InOrder(row)
           /\ NumberUnused("assessments", row.number, {r})
           /\ Stage(s, Set(r, body))

(***************************************************************************)
(* Trackers.  An entry of the register made twice a day is one entry, if   *)
(* the first is seen; the entries here are of one day and one project.     *)
(***************************************************************************)
TrackedActionRows == [there : {TRUE}, from : Days, until : Dates]
PlanRows == [there : {TRUE}, plan : {"PLANNED", "ACTUAL"}]
EntryRows == [there : {TRUE}, equipment : Names, status : Days]

CreateTrackedAction(s) ==
    \E from \in Days, until \in Dates :
        /\ Spare("tracked") # {}
        /\ InOrder([from |-> from, until |-> until])
        /\ Stage(s, Insert("tracked", [from |-> from, until |-> until]))

UpdateTrackedAction(s) ==
    \E a \in Live("tracked"), body \in [from : Days] \cup [until : Dates] :
        InOrder(Over(body, rows[a])) /\ Stage(s, Set(a, body))

CreatePlan(s) ==
    \E plan \in {"PLANNED", "ACTUAL"} :
        Spare("plans") # {} /\ Stage(s, Insert("plans", [plan |-> plan]))

UpdatePlan(s) ==
    \E p \in Live("plans"), plan \in {"PLANNED", "ACTUAL"} : Stage(s, Set(p, [plan |-> plan]))

CreateEntry(s) ==
    \E equipment \in Names, status \in Days :
        LET same == {e \in Live("entries") : rows[e].equipment = equipment}
        IN \/ \E e \in same : StageLocked(s, same, Set(e, [status |-> status]))
           \/ /\ same = {} /\ Spare("entries") # {}
              /\ Stage(s, Insert("entries", [equipment |-> equipment, status |-> status]))

UpdateEntry(s) ==
    \E e \in Live("entries"), body \in [equipment : Names] \cup [status : Days] :
        Stage(s, Set(e, body))

-----------------------------------------------------------------------------

\* A bound: the rows of each table, and one project.
WorkshopTables ==
    [breakdowns |-> {"projects", "sites", "breakdowns"},
     cards |-> {"projects", "sites", "machines", "orders", "cards"},
     assessments |-> {"assessments"}, tracked |-> {"tracked"}, plans |-> {"plans"},
     register |-> {"entries"}]

WorkshopIds ==
    {r \in WorkshopTables[desk] \X Numbers :
        r[2] = 1 \/ r[1] \in {"assessments", "machines", "entries"}}

\* Sites, equipment and an order for the first machine are there.
WorkshopFirst(r) ==
    CASE r[1] = "projects" -> [there |-> TRUE, from |-> NoDay, until |-> NoDay, archived |-> FALSE]
      [] r[1] = "sites" -> [there |-> TRUE, project |-> <<"projects", 1>>, active |-> TRUE]
      [] r[1] = "machines" -> [there |-> TRUE, active |-> TRUE]
      [] r[1] = "orders" -> [there |-> TRUE, machine |-> <<"machines", 1>>]
      [] OTHER -> Absent

WorkshopInit ==
    /\ desk \in DOMAIN WorkshopTables
    /\ rows = [r \in WorkshopIds |-> WorkshopFirst(r)]
    /\ StoreInit

WorkshopStep(s) ==
    CASE desk = "breakdowns" -> CreateBreakdown(s) \/ UpdateBreakdown(s) \/ SiteUpdate(s)
      [] desk = "cards" -> CreateCard(s) \/ UpdateCard(s)
      [] desk = "assessments" -> CreateAssessment(s) \/ UpdateAssessment(s)
      [] desk = "tracked" -> CreateTrackedAction(s) \/ UpdateTrackedAction(s)
      [] desk = "plans" -> CreatePlan(s) \/ UpdatePlan(s)
      [] desk = "register" -> CreateEntry(s) \/ UpdateEntry(s)

\* Numbers of cards and reports are unique.
WorkshopConstraints(after) ==
    LET number(row) == row.number
    IN ~Clash(after, "cards", number) /\ ~Clash(after, "assessments", number)

WorkshopNext ==
    /\ desk \in DOMAIN WorkshopTables
    /\ \E s \in Sessions :
          WorkshopStep(s) \/ Commit(s, WorkshopConstraints(After(s))) \/ Abort(s)

WorkshopSpec == WorkshopInit /\ [][WorkshopNext]_storeVars

-----------------------------------------------------------------------------

WorkshopTableRows(r) ==
    CASE r[1] = "breakdowns" -> BreakdownRows [] r[1] = "cards" -> CardRows
      [] r[1] = "orders" -> CardOrderRows [] r[1] = "assessments" -> AssessmentRows
      [] r[1] = "tracked" -> TrackedActionRows [] r[1] = "plans" -> PlanRows
      [] r[1] = "entries" -> EntryRows [] OTHER -> SiteTableRows(r)

WorkshopTypeOK ==
    desk \in DOMAIN WorkshopTables =>
        \A r \in DOMAIN rows : There(r) => rows[r] \in WorkshopTableRows(r)

\* As long as no request committed on rows that had changed since it read them, the
\* periods of reports and the dates of tracked actions are in order
\* (update_report, update_action); a completed card says when, whatever ran into its
\* completion (update_card).
WorkshopIsSound ==
    desk \in DOMAIN WorkshopTables =>
        /\ ~torn => \A r \in Live("assessments") \cup Live("tracked") : InOrder(rows[r])
        /\ \A c \in Live("cards") : rows[c].status = "COMPLETED" => rows[c].completed
=============================================================================
