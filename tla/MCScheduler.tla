----------------------------- MODULE MCScheduler -----------------------------
(***************************************************************************)
(* The background work of a process for TLC: scheduler_tick runs the       *)
(* schedules that are due and sends the mail that is queued, and worker    *)
(* indexes the documents.  The three share no row but the mail a           *)
(* notification adds, which MailQueue has of its own: a behaviour is one   *)
(* of the schedules, of the mail or of the documents, and fairness is owed *)
(* to the part that runs.                                                  *)
(***************************************************************************)
EXTENDS MailQueue, AlertSchedules, DocumentLibrary

VARIABLE runs

schedulerVars == <<vars, alertsVars, libraryVars, runs>>

\* One document is uploaded in any way there is, the others are papers beside it.
OneOfAnyKind ==
    LET one == CHOOSE d \in Docs : TRUE
    IN \A d \in Docs \ {one} : kind[d] = Papers /\ column[d] = NoFile

SchedulerInit ==
    /\ runs \in {"MAIL", "ALERTS", "INDEX"}
    /\ Init /\ AlertsInit /\ LibraryInit
    /\ runs # "ALERTS" => matching = {} /\ reachable = {}
    /\ OneOfAnyKind
    /\ runs # "INDEX" => \A d \in Docs : kind[d] = Papers /\ column[d] = NoFile

Mailing == runs = "MAIL" /\ UNCHANGED <<alertsVars, libraryVars, runs>>
Alerting == runs = "ALERTS" /\ UNCHANGED <<vars, libraryVars, runs>>
Indexing == runs = "INDEX" /\ UNCHANGED <<vars, alertsVars, runs>>

SchedulerNext ==
    \/ Mailing /\ Next
    \/ Alerting /\ AlertsNext
    \/ Indexing /\ LibraryNext

\* Without a mail nothing of Fairness is enabled in a behaviour of the others.
SchedulerFairness ==
    /\ Fairness
    /\ \A s \in Schedulers : WF_schedulerVars(Alerting /\ SchedulerStep(s))
    /\ \A e \in Editors : WF_schedulerVars(Alerting /\ RequestEnds(e))
    /\ \A w \in Indexers : WF_schedulerVars(Indexing /\ IndexStep(w))

SchedulerSpec == SchedulerInit /\ [][SchedulerNext]_schedulerVars /\ SchedulerFairness
=============================================================================
