----------------------------- MODULE WorkOrders -----------------------------
(***************************************************************************)
(* One maintenance work order and its cost lines, booked to the cost       *)
(* subledger when the order is completed (app/services/maintenance.py and  *)
(* app/api/v1/endpoints/maintenance.py; the field portal's side in         *)
(* app/services/field_work.py).                                            *)
(*                                                                         *)
(* The office reads the order and its lines without a lock, decides on     *)
(* what it read, and commits later: a request is two or three steps, and   *)
(* those of several requests interleave.  An update writes only the        *)
(* columns whose value differs from the one that was READ (SQLAlchemy's    *)
(* change tracking).  The field portal locks the order: one action.        *)
(*                                                                         *)
(* The linked defect, notes and technical findings are left out.           *)
(***************************************************************************)
EXTENDS Naturals, FiniteSets

CONSTANTS LineIds,   \* rows a cost line may be created as
          Requests   \* requests of the office that may be under way at once

ASSUME OrdersAssumption == IsFiniteSet(Requests)

WorkOrderStatus ==
    {"OPEN", "IN_PROGRESS", "WAITING_PARTS", "COMPLETED", "CANCELLED"}

VARIABLES order,    \* [status, approved]
          lines,    \* line -> [there, posted, booked]
          request   \* request -> what it is doing and has read

ordersVars == <<order, lines, request>>

-----------------------------------------------------------------------------

Idle == [at |-> "IDLE"]

\* Changed for a mutant: a completion books every line of the order.
EveryLine == {l \in LineIds : lines[l].there}

\* What a completion books of what it reads: the lines not posted.
Unposted == {l \in LineIds : lines[l].there /\ ~lines[l].posted}

\* Changed for a mutant: the entry is written, the flag is not.
BookedUnmarked(ls) ==
    [l \in LineIds |->
        IF l \in ls THEN [lines[l] EXCEPT !.booked = @ + 1] ELSE lines[l]]

\* The lines after those in ls are booked: a subledger entry each, and the flag
\* that keeps the next completion from booking them.
Booked(ls) ==
    [l \in LineIds |->
        IF l \in ls
        THEN [lines[l] EXCEPT !.posted = TRUE, !.booked = @ + 1]
        ELSE lines[l]]

\* create_work_order: lines may come with the order.
OrdersInit ==
    /\ order = [status |-> "OPEN", approved |-> FALSE]
    /\ \E given \in SUBSET LineIds :
          lines = [l \in LineIds |->
                      [there |-> l \in given, posted |-> FALSE, booked |-> 0]]
    /\ request = [r \in Requests |-> Idle]

\* add_cost_line_to_work_order, whatever the status of the order.
AddCostLine(l) ==
    /\ ~lines[l].there
    /\ lines' = [lines EXCEPT ![l].there = TRUE]
    /\ UNCHANGED <<order, request>>

-----------------------------------------------------------------------------
(* complete_work_order of the service. *)

\* It reads the order; a completed one is returned as it is, a cancelled one is
\* completed like any other.
ReadOrder(r) ==
    /\ request[r] = Idle
    /\ order.status # "COMPLETED"
    /\ request' = [request EXCEPT ![r] = [at |-> "ORDER_READ"]]
    /\ UNCHANGED <<order, lines>>

\* It reads the lines, with a second query.
ReadLines(r) ==
    /\ request[r].at = "ORDER_READ"
    /\ request' = [request EXCEPT
                      ![r] = [at |-> "LINES_READ", unposted |-> Unposted]]
    /\ UNCHANGED <<order, lines>>

\* It commits what it decided.
CommitCompletion(r) ==
    /\ request[r].at = "LINES_READ"
    /\ order' = [order EXCEPT !.status = "COMPLETED"]
    /\ lines' = Booked(request[r].unposted)
    /\ request' = [request EXCEPT ![r] = Idle]

\* The request fails, and nothing of it is written: the connection is lost, or
\* the subledger refuses the entry of an order without a project, whose entry
\* names the machine where a project is required.
FailRequest(r) ==
    /\ request[r] # Idle
    /\ request' = [request EXCEPT ![r] = Idle]
    /\ UNCHANGED <<order, lines>>

-----------------------------------------------------------------------------
(* update_work_order, which sets any status. *)

ReadForUpdate(r) ==
    /\ request[r] = Idle
    /\ request' = [request EXCEPT
                      ![r] = [at |-> "UPDATING", seen |-> order.status]]
    /\ UNCHANGED <<order, lines>>

CommitUpdate(r, status) ==
    /\ request[r].at = "UPDATING"
    /\ order' = IF status = request[r].seen
                THEN order
                ELSE [order EXCEPT !.status = status]
    /\ request' = [request EXCEPT ![r] = Idle]
    /\ UNCHANGED lines

-----------------------------------------------------------------------------
(* The field portal: a completion there books nothing. *)

FieldUpdateOrder(status) ==
    /\ ~order.approved
    /\ order.status \notin {"COMPLETED", "CANCELLED"}
    /\ order' = [order EXCEPT !.status = status]
    /\ UNCHANGED <<lines, request>>

FieldApproveOrder ==
    /\ order.status = "COMPLETED"
    /\ order' = [order EXCEPT !.approved = TRUE]
    /\ UNCHANGED <<lines, request>>

-----------------------------------------------------------------------------

OrdersNext ==
    \/ \E l \in LineIds : AddCostLine(l)
    \/ \E r \in Requests :
          \/ ReadOrder(r)
          \/ ReadLines(r)
          \/ CommitCompletion(r)
          \/ FailRequest(r)
          \/ ReadForUpdate(r)
          \/ \E status \in WorkOrderStatus : CommitUpdate(r, status)
    \/ \E status \in {"IN_PROGRESS", "COMPLETED"} : FieldUpdateOrder(status)
    \/ FieldApproveOrder

OrdersSpec == OrdersInit /\ [][OrdersNext]_ordersVars

-----------------------------------------------------------------------------
(* Properties. *)

\* The rows and the requests keep their shape.
OrdersTypeOK ==
    /\ order \in [status : WorkOrderStatus, approved : BOOLEAN]
    /\ lines \in [LineIds -> [there : BOOLEAN, posted : BOOLEAN, booked : Nat]]
    /\ request \in [Requests -> {Idle, [at |-> "ORDER_READ"]}
                       \cup [at : {"LINES_READ"}, unposted : SUBSET LineIds]
                       \cup [at : {"UPDATING"}, seen : WorkOrderStatus]]

\* The flag on a line tells the truth about the subledger: it is set exactly
\* when the line was booked, although completions, updates and failures of
\* several requests overlap.
PostedMeansBooked ==
    \A l \in LineIds : lines[l].posted <=> lines[l].booked > 0

\* A line is booked at most once by each of the requests that overlap: however
\* often the order is reopened and completed again, only completions that had
\* read the line before the first of them committed book it again.
BookedPerOverlap ==
    \A l \in LineIds :
        lines[l].booked
            + Cardinality({r \in Requests : /\ request[r].at = "LINES_READ"
                                            /\ l \in request[r].unposted})
        <= Cardinality(Requests)

\* docs/next-steps-execution-plan.md:56: "One source transaction must post
\* once."
BookedOnce == \A l \in LineIds : lines[l].booked <= 1

=============================================================================
