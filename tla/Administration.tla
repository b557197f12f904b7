--------------------------- MODULE Administration ---------------------------
(***************************************************************************)
(* What the head office keeps beside the records of people: roles and what *)
(* they permit (services/user.py), requests to download a document and     *)
(* reminders of what expires (endpoints/hr.py, services/hr.py,             *)
(* services/field_notifications.py), inboxes                               *)
(* (services/notification_service.py), and the control tower               *)
(* (services/control_tower.py).                                            *)
(***************************************************************************)
EXTENDS RowStore

\* Rows whose key the request chooses: an insert is refused if the key is taken,
\* and a delete if it no longer is.
Keyed == {"permissions", "grants", "documents", "access"}
KeysFit(s) ==
    \A r \in DOMAIN open[s].writes :
        r[1] \in Keyed => open[s].writes[r].there # There(r)

(***************************************************************************)
(* Roles.  A bound: the permissions of one role, each a row of its own     *)
(* that says it is granted; an edit sends the difference to those it read. *)
(***************************************************************************)
RoleRows == [there : {TRUE}, name : Names]

Granted(n) == <<"grants", n>>
Changed(wanted) == {n \in Numbers : There(Granted(n)) # (n \in wanted)}

\* list_permissions adds what is missing whenever roles are looked at, in a
\* transaction of its own.
SeedPermissions(s) ==
    LET missing == Table("permissions") \ Live("permissions")
    IN missing # {} /\ Stage(s, SetAll(missing, [there |-> TRUE]))

Seeded == Live("permissions") = Table("permissions")

CreateRole(s) ==
    \E name \in Names :
        /\ Seeded /\ Spare("roles") # {}
        /\ \A r \in Live("roles") : rows[r].name # name
        /\ Stage(s, Insert("roles", [name |-> name]))

UpdateRolePermissions(s) ==
    \E wanted \in SUBSET Numbers :
        /\ Seeded
        /\ Stage(s, [r \in {Granted(n) : n \in Changed(wanted)} |-> [there |-> r[2] \in wanted]])

RoleStep(s) == SeedPermissions(s) \/ CreateRole(s) \/ UpdateRolePermissions(s)

(***************************************************************************)
(* Requests to download a document.  The document is made if there is none *)
(* of that id; a review is of any request, reviewed or not.                *)
(***************************************************************************)
Document == <<"documents", 1>>

RequestRows ==
    [there : {TRUE}, by : Employees, token : BOOLEAN,
     status : {"PENDING", "APPROVED", "REJECTED"}]

PendingOf(who) == {q \in Live("requests") : rows[q].by = who /\ rows[q].status = "PENDING"}

RequestDownload(s) ==
    \E who \in Employees :
        /\ Spare("requests") # {}
        /\ PendingOf(who) = {}
        /\ Stage(s, Over(Insert("requests", [by |-> who, token |-> FALSE, status |-> "PENDING"]),
                         IF There(Document) THEN <<>> ELSE Set(Document, [there |-> TRUE])))

\* An approval adds a token; a rejection leaves one that is there.
ReviewDownload(s) ==
    \E q \in Live("requests"), status \in {"APPROVED", "REJECTED"} :
        Stage(s, Set(q, IF status = "APPROVED" THEN [status |-> status, token |-> TRUE]
                        ELSE [status |-> status]))

DownloadStep(s) == RequestDownload(s) \/ ReviewDownload(s)

(***************************************************************************)
(* Reminders.  One contract, one rule that remembers it, one leave, each   *)
(* with one recipient.  A rule writes a notice per day of expiry and mails *)
(* it; what expires, and what becomes of a leave, makes notices whose      *)
(* keys, and those of their mails, are made of what they are about: an     *)
(* insert of one that is there does nothing.                               *)
(***************************************************************************)
Contract == <<"contracts", 1>>
Rule == <<"rules", 1>>
Leave == <<"leaves", 1>>

Expiries == {Today, Today + 1}   \* a bound
LeaveKey == [PENDING |-> 1, APPROVED |-> 2, REJECTED |-> 3]

ContractRows == [there : {TRUE}, expiry : Expiries, rejected : BOOLEAN]
RuleRows == [there : {TRUE}, lead : 0..1, active : BOOLEAN]
LeaveStates == [there : {TRUE}, status : DOMAIN LeaveKey]
NoticeRows == [there : {TRUE}, read : BOOLEAN]
LetterRows == [there : {TRUE}, expiry : Expiries]

\* emit_event, of what nobody reads here.
Emit(table, key) == Set(<<table, key>>, [there |-> TRUE])

\* The update of an employment contract, by the people who keep it.
ChangeContract(s) ==
    \E body \in [expiry : Expiries] \cup [rejected : BOOLEAN] : Stage(s, Set(Contract, body))

AddRule(s) ==
    \E lead \in 0..1 :
        /\ ~There(Rule)
        /\ Spare("rules") # {}
        /\ Stage(s, Insert("rules", [lead |-> lead, active |-> TRUE]))

EditRule(s) ==
    /\ There(Rule)
    /\ \E lead \in 0..1, active \in BOOLEAN :
          StageLocked(s, {Rule}, Set(Rule, [lead |-> lead, active |-> active]))

ReminderLock == {"alerts"} \X Names

\* reminder_date is not later than today.
ReminderDue == rows[Contract].expiry - rows[Rule].lead <= Today

\* A notice nobody has read yet, and its mail.
Announced(expiry) ==
    Over(Insert("letters", [expiry |-> expiry]),
         Set(<<"reminders", expiry>>, [there |-> TRUE, read |-> FALSE]))

\* The notice of a rule, and its mail if it is a new one.
Reminder(expiry) == IF There(<<"reminders", expiry>>) THEN <<>> ELSE Announced(expiry)

\* generate_alerts: one at a time, the scheduler's or one asked for; the others
\* do not wait.
GenerateAlerts(s) ==
    /\ There(Rule) /\ rows[Rule].active
    /\ ~rows[Contract].rejected
    /\ ReminderDue
    /\ Spare("letters") # {}
    /\ StageLocked(s, ReminderLock, Reminder(rows[Contract].expiry))

BookLeave(s) ==
    /\ ~There(Leave)
    /\ Stage(s, Over(Set(Leave, [there |-> TRUE, status |-> "PENDING"]),
                     Emit("answers", LeaveKey["PENDING"])))

\* The decision and its notice are one transaction.
DecideLeave(s) ==
    \E status \in {"APPROVED", "REJECTED"} :
        /\ There(Leave) /\ rows[Leave].status = "PENDING"
        /\ StageLocked(s, {Leave}, Over(Set(Leave, [status |-> status]),
                                        Emit("answers", LeaveKey[status])))

\* generate_people_alerts says again what every leave has come to; training is a
\* leave in this.
PeopleAlerts == IF There(Leave) THEN Emit("answers", LeaveKey[rows[Leave].status]) ELSE <<>>

\* What has expired or is about to is told once a stage, and every day of expiry
\* is in one here.  Jobs and orders that are due are contracts in this.
ExpiryAlerts ==
    IF rows[Contract].rejected THEN <<>> ELSE Emit("expiries", rows[Contract].expiry)

\* generate_field_alerts: all of it in one transaction.
GenerateFieldAlerts(s) == Stage(s, Over(PeopleAlerts, ExpiryAlerts))

ReadNotification(s) ==
    \E n \in Live("reminders") : Stage(s, Set(n, [read |-> TRUE]))

ReminderStep(s) ==
    \/ ChangeContract(s) \/ AddRule(s) \/ EditRule(s)
    \/ GenerateAlerts(s) \/ ReadNotification(s)

AnswerStep(s) ==
    \/ ChangeContract(s) \/ GenerateFieldAlerts(s)
    \/ BookLeave(s) \/ DecideLeave(s)

(***************************************************************************)
(* The inbox.  A notice is told to its recipient, who reads, resolves and  *)
(* forwards it; what is told or forwarded by mail is queued as a mail in   *)
(* the same transaction.  Bounds: one event, told to one employee, and     *)
(* forwarded to one with an active account at a time.                      *)
(***************************************************************************)
InboxRows == [there : {TRUE}, of : Employees,
              mailed : BOOLEAN, read : BOOLEAN, resolved : BOOLEAN, forwarded : BOOLEAN]
CopyRows == [there : {TRUE}, to : Employees]

Notice(of, mailed, forwarded) ==
    Over(Insert("inbox", [of |-> of, mailed |-> mailed, read |-> FALSE,
                          resolved |-> FALSE, forwarded |-> forwarded]),
         IF mailed THEN Insert("copies", [to |-> of]) ELSE <<>>)

\* notify_assigned_employee.
TellEmployee(s) ==
    \E who \in Employees, mailed \in BOOLEAN :
        /\ Spare("inbox") = Table("inbox")
        /\ mailed => Spare("copies") # {}
        /\ Stage(s, Notice(who, mailed, FALSE))

MarkRead(s) == \E n \in Live("inbox") : Stage(s, Set(n, [read |-> TRUE]))
ResolveNotification(s) == \E n \in Live("inbox") : Stage(s, Set(n, [resolved |-> TRUE]))

\* The recipient forwards it, again if it was forwarded before, and to whom it
\* came from as well.
ForwardNotification(s) ==
    \E n \in Live("inbox"), target \in Employees :
        /\ Spare("inbox") # {}
        /\ rows[n].mailed => Spare("copies") # {}
        /\ Stage(s, Over(Notice(target, rows[n].mailed, TRUE), Set(n, [forwarded |-> TRUE])))

InboxStep(s) ==
    TellEmployee(s) \/ MarkRead(s) \/ ResolveNotification(s) \/ ForwardNotification(s)

(***************************************************************************)
(* The control tower: scorecards of supervisors, opportunities, and what a *)
(* client may see.  Numbers are Purchasing's; periods and stages have no   *)
(* rule.                                                                   *)
(***************************************************************************)
Totals == {59, 60, 70, 80, 90}   \* a bound: the least of every grade, and less

Grade(total) ==
    CASE total >= 90 -> "A" [] total >= 80 -> "B" [] total >= 70 -> "C"
      [] total >= 60 -> "D" [] OTHER -> "F"

TenderStages == {"PROSPECT", "QUALIFIED", "PROPOSAL_SENT", "NEGOTIATION", "WON", "LOST"}
ScorecardRows == [there : {TRUE}, grade : {"A", "B", "C", "D", "F"}, from : Days, until : Days]
OpportunityRows == [there : {TRUE}, stage : TenderStages]

CreateScorecard(s) ==
    \E total \in Totals, from, until \in Days :
        /\ Spare("scorecards") # {}
        /\ Stage(s, Insert("scorecards", [grade |-> Grade(total), from |-> from,
                                          until |-> until]))

CreateOpportunity(s) ==
    \E stage \in TenderStages :
        /\ Spare("opportunities") # {}
        /\ Stage(s, Insert("opportunities", [stage |-> stage]))

UpdateOpportunity(s) ==
    \E o \in Live("opportunities"), stage \in TenderStages : Stage(s, Set(o, [stage |-> stage]))

\* Of one client and project.
GrantAccess(s) == Stage(s, Set(<<"access", 1>>, [there |-> TRUE]))

PublishArtifact(s) == Spare("artifacts") # {} /\ Stage(s, Insert("artifacts", <<>>))

TowerStep(s) ==
    \/ CreateScorecard(s) \/ CreateOpportunity(s) \/ UpdateOpportunity(s)

ClientStep(s) == GrantAccess(s) \/ PublishArtifact(s)

-----------------------------------------------------------------------------

\* A bound: the rows of each table.
OneOf(tables) == tables \X {1}
AdministrationIds ==
    [roles |-> {"permissions", "grants", "roles"} \X Numbers,
     downloads |-> OneOf({"documents"}) \cup ({"requests"} \X Numbers),
     reminders |-> OneOf({"contracts", "rules"}) \cup ({"letters"} \X (1..3))
                       \cup ({"reminders"} \X Expiries),
     answers |-> OneOf({"contracts", "leaves"}) \cup ({"answers"} \X (1..3))
                     \cup ({"expiries"} \X Expiries),
     inbox |-> {"inbox", "copies"} \X (1..3),
     tower |-> OneOf({"scorecards", "opportunities"}),
     clients |-> OneOf({"access", "artifacts"})]

AdministrationFirst(r) ==
    IF r = Contract THEN [there |-> TRUE, expiry |-> Today + 1, rejected |-> FALSE] ELSE Absent

AdministrationInit ==
    /\ desk \in DOMAIN AdministrationIds
    /\ rows = [r \in AdministrationIds[desk] |-> AdministrationFirst(r)]
    /\ StoreInit

AdministrationStep(s) ==
    CASE desk = "roles" -> RoleStep(s) [] desk = "downloads" -> DownloadStep(s)
      [] desk = "reminders" -> ReminderStep(s) [] desk = "answers" -> AnswerStep(s)
      [] desk = "inbox" -> InboxStep(s)
      [] desk = "tower" -> TowerStep(s) [] desk = "clients" -> ClientStep(s)

\* The unique indexes; those of notices refuse nothing.
AdministrationConstraints(s) ==
    LET name(row) == row.name
    IN KeysFit(s) /\ ~Clash(After(s), "roles", name)

AdministrationNext ==
    /\ desk \in DOMAIN AdministrationIds
    /\ \E s \in Sessions :
          AdministrationStep(s) \/ Commit(s, AdministrationConstraints(s)) \/ Abort(s)

-----------------------------------------------------------------------------

AdministrationRows(r) ==
    CASE r[1] = "roles" -> RoleRows [] r[1] = "requests" -> RequestRows
      [] r[1] = "contracts" -> ContractRows [] r[1] = "rules" -> RuleRows
      [] r[1] = "inbox" -> InboxRows [] r[1] = "copies" -> CopyRows
      [] r[1] = "leaves" -> LeaveStates [] r[1] = "letters" -> LetterRows
      [] r[1] = "reminders" -> NoticeRows [] r[1] = "scorecards" -> ScorecardRows
      [] r[1] = "opportunities" -> OpportunityRows [] OTHER -> [there : {TRUE}]

AdministrationTypeOK ==
    desk \in DOMAIN AdministrationIds =>
        \A r \in DOMAIN rows : There(r) => rows[r] \in AdministrationRows(r)

\* A contract is mailed about once for every day it was to expire, however often
\* reminders are made, and rules and contracts changed in between
\* (generate_alerts); what a leave has come to has been announced, whoever fails
\* (notify_leave); what is told or forwarded to somebody by mail, and nothing else,
\* is a mail to them (emit_event, forward_notification); and as long as no request committed on rows that had changed
\* since it read them, nobody has two requests pending for a document
\* (create_document_download_request).
TellsOnce ==
    desk \in DOMAIN AdministrationIds =>
        /\ \A n \in Table("reminders") :
               Cardinality({l \in Live("letters") : rows[l].expiry = n[2]})
                   = (IF There(n) THEN 1 ELSE 0)
        /\ \A l \in Live("leaves") : There(<<"answers", LeaveKey[rows[l].status]>>)
        /\ \A who \in Employees :
               Cardinality({n \in Live("inbox") : rows[n].of = who /\ rows[n].mailed})
                   = Cardinality({c \in Live("copies") : rows[c].to = who})
        /\ ~torn => \A who \in Employees : Cardinality(PendingOf(who)) <= 1
=============================================================================
