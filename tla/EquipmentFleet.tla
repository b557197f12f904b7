--------------------------- MODULE EquipmentFleet ---------------------------
(***************************************************************************)
(* One machine of the fleet: its status, its assignments to projects and   *)
(* its meter (EquipmentService of app/services/equipment.py and the        *)
(* handlers of app/api/v1/endpoints/operational_logs.py that write the     *)
(* same rows).  Machines share no row but their projects, so one machine   *)
(* stands for the fleet.                                                   *)
(*                                                                         *)
(* Every operation locks the row of the machine (SELECT ... FOR UPDATE)    *)
(* before it reads anything else and keeps the lock to its commit: it is   *)
(* one action.  Projects, defects and inspections change without that lock *)
(* and only ever refuse an assignment: they are left out, so a machine may *)
(* be found grounded or fit, and a project closed or open, at any time.    *)
(*                                                                         *)
(* A reading carries two times: recorded_at, which the client names, and   *)
(* created_at, which PostgreSQL stamps with the START of the transaction,  *)
(* before its wait for the lock.  The stamp of a reading is the number of  *)
(* readings that had been committed when its request began.                *)
(*                                                                         *)
(* Permissions are left out: a step some user may take is a step.          *)
(***************************************************************************)
EXTENDS Integers, Sequences, FiniteSets

CONSTANTS AssignmentIds,  \* rows an assignment may be created as
          Statuses,       \* statuses users set, of AssetStatus
          MeterTypes,     \* kinds of meter, NONE apart
          Instants,       \* times a client may name
          Readings,       \* values of a meter
          MaxRows,        \* bound on the assignments and readings created
          MaxWait,        \* readings committed while a request waits
          MayEdit         \* whether readings are edited in place

AssetStatus == {"AVAILABLE", "ASSIGNED", "OPERATING", "MOBILIZING", "STANDBY",
                "UNDER_MAINTENANCE", "BREAKDOWN", "OUT_OF_SERVICE", "DISPOSED",
                "DEMOBILIZING", "QUARANTINED", "LOST", "STOLEN"}

NoReading == -1

ASSUME FleetAssumption ==
    /\ Statuses \subseteq AssetStatus
    /\ "NONE" \notin MeterTypes
    /\ Instants \subseteq Int /\ Instants # {}
    /\ Readings \subseteq Nat
    /\ IsFiniteSet(AssignmentIds)
    /\ MaxRows \in Nat
    /\ MaxWait \in Nat
    /\ MayEdit \in BOOLEAN

VARIABLES asset,        \* [status, active, mtype, meter]
          assignments,  \* assignment -> [status, at, start]
          readings,     \* the readings, in the order they were inserted
          edited        \* whether a reading was ever edited in place

fleetVars == <<asset, assignments, readings, edited>>

-----------------------------------------------------------------------------
(* Helpers. *)

Meters == Readings \cup {NoReading}

Absent == [status |-> "ABSENT"]

Closed == {"COMPLETED", "CANCELLED"}

\* The assignments that are ACTIVE (active_assignment).
Active == {x \in AssignmentIds : assignments[x].status = "ACTIVE"}

\* The readings the query for the previous one may return: the latest by
\* recorded_at, then created_at; a tie leaves the choice to the database.
Latest(rs, type) ==
    {i \in DOMAIN rs :
        /\ rs[i].type = type
        /\ \A j \in DOMAIN rs :
              rs[j].type = type =>
                 \/ rs[j].at < rs[i].at
                 \/ rs[j].at = rs[i].at /\ rs[j].stamp <= rs[i].stamp}

\* _meter accepts a reading after the previous one of its type.
Acceptable(rs, r) ==
    \/ \A i \in DOMAIN rs : rs[i].type # r.type
    \/ \E i \in Latest(rs, r.type) :
          /\ r.at >= rs[i].at
          /\ r.value >= rs[i].value \/ r.adjusted

\* Changed for a mutant: only a higher reading moves the meter.
MeteredUpwards(a, r) ==
    IF r.type = a.mtype /\ r.value > a.meter
    THEN [a EXCEPT !.meter = r.value]
    ELSE a

\* The machine once a reading is recorded: only its own type moves the meter.
Metered(a, r) ==
    IF r.type = a.mtype THEN [a EXCEPT !.meter = r.value] ELSE a

Reading(type, value, at, adjusted, stamp) ==
    [type |-> type, value |-> value, at |-> at, adjusted |-> adjusted,
     stamp |-> stamp]

\* When a request may have begun, in readings committed by then.
Begun == {n \in 0..Len(readings) : n + MaxWait >= Len(readings)}

\* Changed for a mutant: an assignment without a meter value notes one.
NotedAlways(a, rs, value, at, stamp) ==
    LET r == Reading(a.mtype, value, at, FALSE, stamp)
    IN [machine |-> Metered(a, r), log |-> Append(rs, r)]

\* The machine and the readings after an assignment notes a meter value;
\* without a value nothing is recorded.
Noted(a, rs, value, at, stamp) ==
    IF value = NoReading
    THEN [machine |-> a, log |-> rs]
    ELSE LET r == Reading(a.mtype, value, at, FALSE, stamp)
         IN [machine |-> Metered(a, r), log |-> Append(rs, r)]

CanNote(a, rs, value, at, stamp) ==
    value # NoReading =>
        /\ a.mtype # "NONE"
        /\ Acceptable(rs, Reading(a.mtype, value, at, FALSE, stamp))

\* Changed for a mutant: an archived machine is not refused.
EligibleArchived(a) ==
    a.status \notin {"DISPOSED", "UNDER_MAINTENANCE", "BREAKDOWN",
                     "OUT_OF_SERVICE", "QUARANTINED", "LOST", "STOLEN"}

\* Only what the machine itself forbids; missing papers are warnings.
Eligible(a) ==
    /\ a.active
    /\ a.status \notin {"DISPOSED", "UNDER_MAINTENANCE", "BREAKDOWN",
                        "OUT_OF_SERVICE", "QUARANTINED", "LOST", "STOLEN"}

\* Changed for a mutant: whatever the status, an assignment that ends makes the
\* machine available.
ReleasedAlways(a) == [a EXCEPT !.status = "AVAILABLE"]

\* An assignment that ends gives a machine in use back.
Released(a) ==
    IF a.status \in {"ASSIGNED", "OPERATING", "MOBILIZING", "STANDBY"}
    THEN [a EXCEPT !.status = "AVAILABLE"]
    ELSE a

\* Changed for a mutant: the assignment the machine is taken from stays active.
NoneSuperseded(x) == assignments

\* The assignments once every active one but x is completed: what starting x
\* does to the one it takes the machine from.
Superseded(x) ==
    [y \in AssignmentIds |->
        IF y \in Active \ {x} THEN [assignments[y] EXCEPT !.status = "COMPLETED"]
                              ELSE assignments[y]]

\* The check constraint returned_at >= assigned_at of the superseded rows.
MaySupersede(x, at) == \A y \in Active \ {x} : at >= assignments[y].at

-----------------------------------------------------------------------------
(* Initial states: a machine as create() registers it, with the reading    *)
(* create() imports unless the machine has no meter.                       *)

FleetInit ==
    /\ asset \in [status : Statuses \ {"DISPOSED"}, active : {TRUE},
                  mtype : MeterTypes \cup {"NONE"}, meter : Meters]
    /\ readings = IF asset.meter = NoReading \/ asset.mtype = "NONE"
                  THEN <<>>
                  ELSE <<Reading(asset.mtype, asset.meter,
                                 CHOOSE t \in Instants : TRUE, FALSE, 0)>>
    /\ assignments = [x \in AssignmentIds |-> Absent]
    /\ edited = FALSE

-----------------------------------------------------------------------------
(* Assignments. *)

\* _assign, for a machine a that may just have been released.  The checks, in
\* the order of the code; PLANNED assignments are checked like active ones.
MayAssign(a, start) ==
    /\ Eligible(a)
    /\ start = NoReading \/ a.meter = NoReading \/ start >= a.meter

NewAssignment(status, at, start) ==
    [status |-> status, at |-> at, start |-> start]

\* create_assignment, of an assignment that starts at once: the active one is
\* completed without a word.
StartAssignment(x, at, start, stamp) ==
    /\ assignments[x].status = "ABSENT"
    /\ MayAssign(asset, start)
    /\ MaySupersede(x, at)
    /\ LET a == [asset EXCEPT !.status = "ASSIGNED"]
       IN /\ CanNote(a, readings, start, at, stamp)
          /\ asset' = Noted(a, readings, start, at, stamp).machine
          /\ readings' = Noted(a, readings, start, at, stamp).log
    /\ assignments' = [Superseded(x) EXCEPT
                          ![x] = NewAssignment("ACTIVE", at, start)]
    /\ UNCHANGED edited

\* create_assignment, of a planned one.
PlanAssignment(x, at, start) ==
    /\ assignments[x].status = "ABSENT"
    /\ MayAssign(asset, start)
    /\ assignments' = [assignments EXCEPT
                          ![x] = NewAssignment("PLANNED", at, start)]
    /\ UNCHANGED <<asset, readings, edited>>

\* An ending meter may not precede the starting one.  Any request on an open
\* assignment may write one and a later one replace it, so the row keeps none:
\* end is the value the row holds once it is closed.
MayEnd(x, end) ==
    end # NoReading /\ assignments[x].start # NoReading
        => end >= assignments[x].start

\* update_assignment that makes a planned assignment active.
ActivateAssignment(x, now, stamp) ==
    /\ assignments[x].status = "PLANNED"
    /\ MaySupersede(x, now)
    /\ Eligible(asset)
    /\ LET a == [asset EXCEPT !.status = "ASSIGNED"]
           start == assignments[x].start
           at == assignments[x].at
       IN /\ CanNote(a, readings, start, at, stamp)
          /\ asset' = Noted(a, readings, start, at, stamp).machine
          /\ readings' = Noted(a, readings, start, at, stamp).log
    /\ assignments' = [Superseded(x) EXCEPT ![x].status = "ACTIVE"]
    /\ UNCHANGED edited

\* update_assignment of an assignment that is, or becomes again, planned: the
\* machine is not released.
ReviseAssignment(x) ==
    /\ assignments[x].status \in {"PLANNED", "ACTIVE"}
    /\ assignments' = [assignments EXCEPT ![x].status = "PLANNED"]
    /\ UNCHANGED <<asset, readings, edited>>

\* update_assignment, and the complete and cancel handlers: only the end of an
\* active assignment releases the machine, and only its completion is read.
CloseAssignment(x, status, end, back, stamp) ==
    /\ assignments[x].status \in {"PLANNED", "ACTIVE"}
    /\ status \in Closed
    /\ status = "COMPLETED" => back >= assignments[x].at
    /\ MayEnd(x, end)
    /\ assignments' = [assignments EXCEPT ![x].status = status]
    /\ LET value == IF status = "COMPLETED" THEN end ELSE NoReading
           a == Released(asset)
       IN IF assignments[x].status = "ACTIVE"
          THEN /\ CanNote(a, readings, value, back, stamp)
               /\ asset' = Noted(a, readings, value, back, stamp).machine
               /\ readings' = Noted(a, readings, value, back, stamp).log
          ELSE UNCHANGED <<asset, readings>>
    /\ UNCHANGED edited

\* transfer: the active assignment x is completed and y started in one
\* transaction, so both readings carry one recorded_at and one created_at.
Transfer(x, y, at, start, end, stamp) ==
    /\ assignments[x].status = "ACTIVE"
    /\ assignments[y].status = "ABSENT"
    /\ start # NoReading /\ end # NoReading => start >= end
    /\ at >= assignments[x].at
    /\ MayEnd(x, end)
    /\ LET given == IF start = NoReading THEN end ELSE start
           return == Noted(Released(asset), readings, end, at, stamp)
           a == [return.machine EXCEPT !.status = "ASSIGNED"]
       IN /\ CanNote(asset, readings, end, at, stamp)
          /\ MayAssign(return.machine, given)
          /\ CanNote(a, return.log, given, at, stamp)
          /\ asset' = Noted(a, return.log, given, at, stamp).machine
          /\ readings' = Noted(a, return.log, given, at, stamp).log
          /\ assignments' = [assignments EXCEPT
                                ![x].status = "COMPLETED",
                                ![y] = NewAssignment("ACTIVE", at, given)]
    /\ UNCHANGED edited

-----------------------------------------------------------------------------
(* Status, archiving and the meter. *)

\* change_status, and update() with a status: disposed is for good.
ChangeStatus(status) ==
    /\ asset.status = "DISPOSED" => status = "DISPOSED"
    /\ asset' = [asset EXCEPT !.status = status]
    /\ UNCHANGED <<assignments, readings, edited>>

\* update() with another meter type; the value on the machine stays.
ChangeMeterType(mtype) ==
    /\ readings = <<>>
    /\ asset' = [asset EXCEPT !.mtype = mtype]
    /\ UNCHANGED <<assignments, readings, edited>>

Archive ==
    /\ asset.active
    /\ Active = {}
    /\ asset' = [asset EXCEPT !.active = FALSE]
    /\ UNCHANGED <<assignments, readings, edited>>

Restore ==
    /\ asset' = [asset EXCEPT !.active = TRUE]
    /\ UNCHANGED <<assignments, readings, edited>>

\* retire_asset; that open maintenance refuses it is left out here.
Retire ==
    /\ asset.active
    /\ Active = {}
    /\ asset' = [asset EXCEPT
                    !.active = FALSE,
                    !.status = IF @ = "DISPOSED" THEN @ ELSE "OUT_OF_SERVICE"]
    /\ UNCHANGED <<assignments, readings, edited>>

\* record_meter_reading, of any type a machine with a meter may have read.
RecordReading(type, value, at, adjusted, stamp) ==
    LET r == Reading(type, value, at, adjusted, stamp)
    IN /\ asset.mtype # "NONE"
       /\ Acceptable(readings, r)
       /\ readings' = Append(readings, r)
       /\ asset' = Metered(asset, r)
       /\ UNCHANGED <<assignments, edited>>

\* reset_meter: an adjustment of a meter that shows a value.
ResetMeter(value, at, stamp) ==
    /\ asset.meter # NoReading
    /\ RecordReading(asset.mtype, value, at, TRUE, stamp)

\* update_meter_reading writes over a reading, and looks at no other.
EditReading(i, value, at) ==
    /\ MayEdit
    /\ asset.active
    /\ asset.status # "DISPOSED"
    /\ readings' = [readings EXCEPT ![i].value = value, ![i].at = at]
    /\ edited' = TRUE
    /\ UNCHANGED <<asset, assignments>>

-----------------------------------------------------------------------------

AssignmentStep(x, stamp) ==
    \/ \E at \in Instants, start \in Meters :
          \/ StartAssignment(x, at, start, stamp)
          \/ PlanAssignment(x, at, start)
          \/ \E y \in AssignmentIds, end \in Meters :
                Transfer(x, y, at, start, end, stamp)
    \/ \E now \in Instants : ActivateAssignment(x, now, stamp)
    \/ ReviseAssignment(x)
    \/ \E end \in Meters, status \in Closed, back \in Instants :
          CloseAssignment(x, status, end, back, stamp)

MeterStep(stamp) ==
    \E value \in Readings, at \in Instants :
        \/ \E type \in MeterTypes, adjusted \in BOOLEAN :
              RecordReading(type, value, at, adjusted, stamp)
        \/ ResetMeter(value, at, stamp)
        \/ \E i \in DOMAIN readings : EditReading(i, value, at)

MachineStep ==
    \/ \E status \in Statuses : ChangeStatus(status)
    \/ \E mtype \in MeterTypes \cup {"NONE"} : ChangeMeterType(mtype)
    \/ Archive
    \/ Restore
    \/ Retire

Created == {x \in AssignmentIds : assignments[x].status # "ABSENT"}

\* MaxRows bounds the tables.
FleetNext ==
    /\ \/ \E stamp \in Begun :
             \/ \E x \in AssignmentIds : AssignmentStep(x, stamp)
             \/ MeterStep(stamp)
       \/ MachineStep
    /\ Len(readings') + Cardinality(Created') <= MaxRows

FleetSpec == FleetInit /\ [][FleetNext]_fleetVars

-----------------------------------------------------------------------------
(* Properties. *)

AssignmentRows ==
    [status : {"PLANNED", "ACTIVE"} \cup Closed, at : Instants, start : Meters]

ReadingRows ==
    [type : MeterTypes, value : Readings, at : Instants, adjusted : BOOLEAN,
     stamp : Nat]

\* The rows keep their shape: a status the lifecycle knows, a meter that shows a
\* reading or nothing.
FleetTypeOK ==
    /\ asset \in [status : AssetStatus, active : BOOLEAN,
                   mtype : MeterTypes \cup {"NONE"}, meter : Meters]
    /\ assignments \in [AssignmentIds -> {Absent} \cup AssignmentRows]
    /\ readings \in Seq(ReadingRows)
    /\ edited \in BOOLEAN

\* A machine is at one place: whether an assignment is created active, a
\* planned one is activated, or the machine is transferred, at most one is
\* active afterwards (the partial unique index would refuse the second).
OneActive == \A x, y \in Active : x = y

\* An archived or retired machine is nowhere: no path, a plan made before it
\* was archived included, puts it to work until it is restored.
ArchivedIsIdle == ~asset.active => Active = {}

\* What ended has ended: a completed or cancelled assignment is never written
\* again, and no operation, retirement and the release of a machine included,
\* brings disposed equipment back.
HistoryIsFinal ==
    [][/\ \A x \in AssignmentIds :
             assignments[x].status \in Closed
                 => assignments'[x] = assignments[x]
       /\ asset.status = "DISPOSED" => asset'.status = "DISPOSED"]_fleetVars

\* The readings of the type of reading j inserted before it.
Before(j) == {i \in 1..(j - 1) : readings[i].type = readings[j].type}

\* While nobody edits readings, the machine shows the reading recorded last,
\* and an ordinary reading falls below the one recorded before it only where
\* two readings share the latest recorded_at, so that "latest" is ambiguous.
MeterFollows ==
    ~edited =>
        \A j \in DOMAIN readings :
            /\ (readings[j].type = asset.mtype
                 /\ \A k \in DOMAIN readings :
                       readings[k].type = asset.mtype => k <= j)
                   => asset.meter = readings[j].value
            /\ \A i \in Before(j) :
                  /\ \A k \in Before(j) : k <= i
                  /\ readings[j].value < readings[i].value
                  /\ ~readings[j].adjusted
                  => \E k \in Before(j) \ {i} :
                        readings[k].at = readings[i].at

\* docs/domain-model.md:45-46: "Meter readings cannot decrease per
\* asset/meter-type unless resubmitted with is_correction: true and a reason".
MeterNeverFalls ==
    \A j \in DOMAIN readings : \A i \in Before(j) :
        readings[j].value < readings[i].value
            => \E k \in (i + 1)..j :
                  readings[k].type = readings[j].type /\ readings[k].adjusted

=============================================================================
