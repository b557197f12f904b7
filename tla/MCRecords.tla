----------------------------- MODULE MCRecords -----------------------------
(***************************************************************************)
(* The machines, the jobs and the work orders for TLC.  The three share no *)
(* state, so a behaviour is one of the first, of the second or of the      *)
(* third: part says which, and the other two keep their initial state.     *)
(***************************************************************************)
EXTENDS EquipmentFleet, MaintenanceJobs, WorkOrders, TLC

VARIABLE part

recordsVars == <<fleetVars, jobsVars, ordersVars, part>>

RecordsInit ==
    /\ part \in {"FLEET", "JOBS", "ORDERS"}
    /\ FleetInit /\ JobsInit /\ OrdersInit
    /\ part # "FLEET" => readings = <<>> /\ asset.mtype = "NONE"
    /\ part # "FLEET" => asset.meter = NoReading
    /\ part # "ORDERS" => \A l \in LineIds : ~lines[l].there

RecordsNext ==
    /\ UNCHANGED part
    /\ \/ part = "FLEET" /\ FleetNext /\ UNCHANGED <<jobsVars, ordersVars>>
       \/ part = "JOBS" /\ JobsNext /\ UNCHANGED <<fleetVars, ordersVars>>
       \/ part = "ORDERS" /\ OrdersNext /\ UNCHANGED <<fleetVars, jobsVars>>

RecordsSpec == RecordsInit /\ [][RecordsNext]_recordsVars

\* Every row keeps its shape.
RecordsTypeOK == FleetTypeOK /\ JobsTypeOK /\ OrdersTypeOK

\* No retired machine owes a job, what a supervisor approved is and stays completed,
\* and a successor follows a completion: RetiredOwesNothing, ApprovedIsCompleted and
\* FollowsCompletion.
JobsAreSound == RetiredOwesNothing /\ ApprovedIsCompleted /\ FollowsCompletion

\* The subledger has every posted line, and one more only for each overlap of two
\* completions: PostedMeansBooked and BookedPerOverlap.
CostsAddUp == PostedMeansBooked /\ BookedPerOverlap

\* Only the machines are many enough to be worth it.
Rows == Permutations(AssignmentIds)
=============================================================================
