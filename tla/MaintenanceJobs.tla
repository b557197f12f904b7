--------------------------- MODULE MaintenanceJobs ---------------------------
(***************************************************************************)
(* The maintenance jobs of one machine, and the recurring jobs that follow *)
(* one another (the maintenance handlers of                                *)
(* app/api/v1/endpoints/operational_logs.py, the field portal's side of    *)
(* them in app/services/field_work.py and                                  *)
(* app/api/v1/endpoints/work_completion.py).                               *)
(*                                                                         *)
(* The office locks the machine and then the job, the field portal the job *)
(* alone; whatever is read is read under these locks, so every handler is  *)
(* one action.  Retirement locks the machine alone, which is why a field   *)
(* update may come at any point of it.                                     *)
(*                                                                         *)
(* Who is assigned, the checklist, costs and notes are left out: they only *)
(* refuse a step, or no step reads them.                                   *)
(***************************************************************************)
EXTENDS Naturals

CONSTANTS JobIds,  \* rows a job may be created as
          NoJob    \* the predecessor of a job somebody asked for

ASSUME JobsAssumption == NoJob \notin JobIds

VARIABLES jobs,    \* job -> [status, approved, recurring, from]
          machine  \* [active, disposed, retired]

jobsVars == <<jobs, machine>>

-----------------------------------------------------------------------------

NotCreated == [status |-> "ABSENT"]

NewJob(recurring, from) ==
    [status |-> "OPEN", approved |-> FALSE, recurring |-> recurring,
     from |-> from]

\* Changed for a mutant: completed work may be reopened.
MovesBack(status) ==
    CASE status = "OPEN" -> {"IN_PROGRESS", "COMPLETED", "CANCELLED"}
      [] status = "IN_PROGRESS" -> {"COMPLETED", "CANCELLED"}
      [] status = "COMPLETED" -> {"IN_PROGRESS"}
      [] OTHER -> {}

\* The transitions the office allows.
Moves(status) ==
    CASE status = "OPEN" -> {"IN_PROGRESS", "COMPLETED", "CANCELLED"}
      [] status = "IN_PROGRESS" -> {"COMPLETED", "CANCELLED"}
      [] OTHER -> {}

Exists(j) == jobs[j].status # "ABSENT"

Finished(j) == jobs[j].status \in {"COMPLETED", "CANCELLED"}

OpenJobs == {j \in JobIds : jobs[j].status \in {"OPEN", "IN_PROGRESS"}}

\* writable_asset.
Writable == machine.active /\ ~machine.disposed

JobsInit ==
    /\ jobs = [j \in JobIds |-> NotCreated]
    /\ machine = [active |-> TRUE, disposed |-> FALSE, retired |-> FALSE]

-----------------------------------------------------------------------------
(* The office. *)

CreateJob(j, recurring) ==
    /\ Writable
    /\ ~Exists(j)
    /\ jobs' = [jobs EXCEPT ![j] = NewJob(recurring, NoJob)]
    /\ UNCHANGED machine

\* update_maintenance without a status.
ReviseJob(j, recurring) ==
    /\ Writable
    /\ Exists(j)
    /\ jobs' = [jobs EXCEPT ![j].recurring = recurring]
    /\ UNCHANGED machine

\* Changed for a mutant: however a recurring job ends, its successor is created.
SucceededAnyway(j, status, recurring, k) ==
    LET now == [jobs EXCEPT ![j].status = status, ![j].recurring = recurring]
    IN IF status \in {"COMPLETED", "CANCELLED"} /\ recurring
       THEN [now EXCEPT ![k] = NewJob(TRUE, j)]
       ELSE now

\* The jobs once j is given a status and, if that completes a recurring job,
\* its successor k is created.
Succeeded(j, status, recurring, k) ==
    LET now == [jobs EXCEPT ![j].status = status, ![j].recurring = recurring]
    IN IF status = "COMPLETED" /\ recurring
       THEN [now EXCEPT ![k] = NewJob(TRUE, j)]
       ELSE now

\* Changed for a mutant: like maintenance_status, it asks nothing of the machine.
PatchJobAnywhere(j, status, recurring, k) ==
    /\ Exists(j)
    /\ status \in Moves(jobs[j].status) \cup {jobs[j].status}
    /\ status = "COMPLETED" /\ recurring => ~Exists(k)
    /\ jobs' = Succeeded(j, status, recurring, k)
    /\ UNCHANGED machine

\* update_maintenance with a status.  The status a job already has is no
\* transition, yet COMPLETED creates a successor every time it is sent.
PatchJob(j, status, recurring, k) ==
    /\ Writable
    /\ Exists(j)
    /\ status \in Moves(jobs[j].status) \cup {jobs[j].status}
    /\ status = "COMPLETED" /\ recurring => ~Exists(k)
    /\ jobs' = Succeeded(j, status, recurring, k)
    /\ UNCHANGED machine

\* maintenance_status, which asks nothing of the machine and creates no
\* successor.
SetJobStatus(j, status) ==
    /\ status \in Moves(jobs[j].status)
    /\ jobs' = [jobs EXCEPT ![j].status = status]
    /\ UNCHANGED machine

-----------------------------------------------------------------------------
(* The field portal. *)

\* update_work by the assigned employee, also through complete_work_order.
FieldUpdate(j, status) ==
    /\ Exists(j)
    /\ ~jobs[j].approved
    /\ ~Finished(j)
    /\ jobs' = [jobs EXCEPT ![j].status = status]
    /\ UNCHANGED machine

\* update_work by a supervisor, who approves.
FieldApprove(j) ==
    /\ jobs[j].status = "COMPLETED"
    /\ jobs' = [jobs EXCEPT ![j].approved = TRUE]
    /\ UNCHANGED machine

\* edit_work by a supervisor.
FieldEdit(j, recurring) ==
    /\ Exists(j)
    /\ ~jobs[j].approved
    /\ ~Finished(j)
    /\ jobs' = [jobs EXCEPT ![j].recurring = recurring]
    /\ UNCHANGED machine

-----------------------------------------------------------------------------
(* The machine. *)

\* retire_asset; that an active assignment refuses it is in EquipmentFleet.
RetireMachine ==
    /\ machine.active
    /\ OpenJobs = {}
    /\ machine' = [machine EXCEPT !.active = FALSE, !.retired = TRUE]
    /\ UNCHANGED jobs

\* archive(), which does not ask for open maintenance.
ArchiveMachine ==
    /\ machine.active
    /\ machine' = [machine EXCEPT !.active = FALSE]
    /\ UNCHANGED jobs

RestoreMachine ==
    /\ machine' = [machine EXCEPT !.active = TRUE, !.retired = FALSE]
    /\ UNCHANGED jobs

\* change_status to DISPOSED.
DisposeMachine ==
    /\ machine' = [machine EXCEPT !.disposed = TRUE]
    /\ UNCHANGED jobs

-----------------------------------------------------------------------------

JobsNext ==
    \/ \E j \in JobIds, recurring \in BOOLEAN :
          \/ CreateJob(j, recurring)
          \/ ReviseJob(j, recurring)
          \/ FieldEdit(j, recurring)
          \/ \E status \in {"OPEN", "IN_PROGRESS", "COMPLETED", "CANCELLED"},
                k \in JobIds : PatchJob(j, status, recurring, k)
    \/ \E j \in JobIds :
          \/ \E status \in {"IN_PROGRESS", "COMPLETED", "CANCELLED"} :
                SetJobStatus(j, status)
          \/ \E status \in {"IN_PROGRESS", "COMPLETED"} : FieldUpdate(j, status)
          \/ FieldApprove(j)
    \/ RetireMachine
    \/ ArchiveMachine
    \/ RestoreMachine
    \/ DisposeMachine

JobsSpec == JobsInit /\ [][JobsNext]_jobsVars

-----------------------------------------------------------------------------
(* Properties. *)

\* The rows keep their shape: the check constraint maintenance_status.
JobsTypeOK ==
    /\ jobs \in [JobIds -> {NotCreated} \cup
                    [status : {"OPEN", "IN_PROGRESS", "COMPLETED", "CANCELLED"},
                     approved : BOOLEAN, recurring : BOOLEAN,
                     from : JobIds \cup {NoJob}]]
    /\ machine \in [active : BOOLEAN, disposed : BOOLEAN, retired : BOOLEAN]

\* A retired machine owes no work: retire_asset refuses while a job is open and,
\* until the machine is restored, no path opens one, a completion whose
\* recurring job is due again and an update from the field included.
RetiredOwesNothing == machine.retired => OpenJobs = {}

\* Work a supervisor approved is completed work: neither the office nor the
\* field takes a job back from COMPLETED once the approval is given.
ApprovedIsCompleted ==
    \A j \in JobIds :
        Exists(j) => (jobs[j].approved => jobs[j].status = "COMPLETED")

\* A job the system scheduled follows one that was completed, never one that is
\* open again or cancelled.
FollowsCompletion ==
    \A k \in JobIds :
        Exists(k) /\ jobs[k].from # NoJob => jobs[jobs[k].from].status = "COMPLETED"

=============================================================================
