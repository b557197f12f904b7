------------------------------ MODULE MailQueue ------------------------------
(***************************************************************************)
(* The e-mail queue (table email_deliveries): deliver_one and scheduler_tick *)
(* of app/services/mail.py, which every application process runs, and the   *)
(* requests that compete with it for the same rows: account resets, account *)
(* links, completed password setups and deactivations.                      *)
(*                                                                         *)
(* A worker locks the job, then the recipient's user row, then talks to the *)
(* mail server with both locks held, then commits.  An account reset locks  *)
(* the user row first and the jobs after.  A row lock is held from the step *)
(* that takes it to the commit or rollback; PostgreSQL breaks a cycle of    *)
(* waits by aborting one transaction of it.                                 *)
(***************************************************************************)
EXTENDS Integers, FiniteSets

CONSTANTS
    Users,
    Leavers,      \* the users a client may deactivate in this instance
    Workers,      \* the scheduler tasks, one per application process
    Admins,       \* clients that reset accounts
    Errors,       \* "short" and "long": do the texts fit last_error, String(200)?
    MaxAttempts,  \* 10 in the code
    MaxMails,     \* bound: rows of email_deliveries
    MaxFailures,  \* bound: crashes, lost answers of a mail, aborted resets, retries
    NULL

ASSUME MailAssumption ==
    /\ MaxAttempts \in Nat \ {0} /\ MaxMails \in Nat /\ MaxFailures \in Nat
    /\ Errors \subseteq {"short", "long"}
    /\ Leavers \subseteq Users
    /\ NULL \notin Users /\ NULL \notin Nat
    /\ IsFiniteSet(Admins)

Mails == 1..MaxMails              \* in the order of created_at

VARIABLES
    mail,          \* the rows of email_deliveries
    made,          \* how many there are
    worker,        \* what each worker is doing, and the job it has locked
    admin,         \* the user and the jobs an account reset has locked
    active,        \* the users with is_active
    required,      \* the users with setup_required
    link,          \* the password_setups row a SETUP mail created
    sent,          \* how often the mail server accepted a mail
    unheard,       \* ... without the queue having committed it
    failures

vars == <<mail, made, worker, admin, active, required, link, sent, unheard, failures>>

-----------------------------------------------------------------------------
(* Rows and locks *)

Status == {"NONE", "PENDING", "SENT", "FAILED", "CANCELLED"}
Kinds == {"SETUP", "ALERT"}       \* ALERT: every kind but SETUP

NewMail(u, k) == [status |-> "PENDING", attempts |-> 0, due |-> TRUE, kind |-> k, user |-> u]

\* The bound: a new row, and one for every reset under way.
Promised == {a \in Admins : admin[a].user # NULL}
Room == made + Cardinality(Promised) < MaxMails
New == made + 1

Idle == [pc |-> "idle", job |-> NULL]
NoReset == [user |-> NULL, jobs |-> {}]
Busy(m) == (\E w \in Workers : worker[w].job = m) \/ (\E a \in Admins : m \in admin[a].jobs)
Holding == {"ready", "ok"} \cup Errors
UserFree(u) ==
    /\ \A a \in Admins : admin[a].user # u
    /\ \A w \in Workers : worker[w].pc \in Holding => mail[worker[w].job].user # u

-----------------------------------------------------------------------------
Init ==
    /\ mail = [m \in Mails |-> [status |-> "NONE", attempts |-> 0, due |-> FALSE,
                                kind |-> "ALERT", user |-> NULL]]
    /\ worker = [w \in Workers |-> Idle]
    /\ admin = [a \in Admins |-> NoReset]
    /\ active = Users /\ required = {}
    /\ link = [m \in Mails |-> "none"]
    /\ sent = [m \in Mails |-> 0] /\ unheard = [m \in Mails |-> 0]
    /\ failures = 0
    /\ made = 0

-----------------------------------------------------------------------------
(* deliver_one *)

\* Mutant of Claimable: jobs locked by another worker are taken again.
ClaimableUnlocked == {m \in Mails : mail[m].status = "PENDING" /\ mail[m].due}

\* FOR UPDATE SKIP LOCKED: due, pending and not locked.
Claimable == {m \in Mails : mail[m].status = "PENDING" /\ mail[m].due /\ ~Busy(m)}

\* The oldest job goes first.
Claim(w) ==
    /\ worker[w].pc = "idle"
    /\ \E m \in Claimable :
          /\ \A n \in Claimable : m <= n
          /\ worker' = [worker EXCEPT ![w] = [pc |-> "claimed", job |-> m]]
    /\ UNCHANGED <<mail, made, admin, active, required, link, sent, unheard, failures>>

LockUser(w) ==
    /\ worker[w].pc = "claimed"
    /\ UserFree(mail[worker[w].job].user)
    /\ worker' = [worker EXCEPT ![w].pc = "ready"]
    /\ UNCHANGED <<mail, made, admin, active, required, link, sent, unheard, failures>>

Deliverable(m) ==
    /\ mail[m].user \in active
    /\ mail[m].kind = "SETUP" => mail[m].user \in required

Refuse(w) ==
    /\ worker[w].pc = "ready" /\ ~Deliverable(worker[w].job)
    /\ mail' = [mail EXCEPT ![worker[w].job].status = "CANCELLED"]
    /\ worker' = [worker EXCEPT ![w] = Idle]
    /\ UNCHANGED <<made, admin, active, required, link, sent, unheard, failures>>

\* send_email.  The connection may also fail after the server accepted.
Attempt(w) ==
    LET m == worker[w].job
    IN  /\ worker[w].pc = "ready" /\ Deliverable(m)
        /\ \E outcome \in {"ok"} \cup Errors, accepted \in {0, 1} :
              /\ IF outcome = "ok" THEN accepted = 1
                 ELSE accepted = 1 => unheard[m] < MaxFailures
              /\ worker' = [worker EXCEPT ![w].pc = outcome]
              /\ sent' = [sent EXCEPT ![m] = @ + accepted]
              /\ unheard' = [unheard EXCEPT ![m] = IF outcome = "ok" THEN @ ELSE @ + accepted]
        /\ UNCHANGED <<mail, made, admin, active, required, link, failures>>

\* Mutant of UsedUp: earlier links of the user stay usable.
UsedUpNone(u) == link
\* UPDATE password_setups SET used_at for every unused link of the user.
UsedUp(u) == [m \in Mails |-> IF mail[m].user = u /\ link[m] \in {"live", "expired"}
                              THEN "used" ELSE link[m]]

Delivered(w) ==
    LET m == worker[w].job
        u == mail[m].user
    IN  /\ worker[w].pc = "ok"
        /\ mail' = [mail EXCEPT ![m].status = "SENT"]
        /\ link' = IF mail[m].kind = "SETUP" THEN [UsedUp(u) EXCEPT ![m] = "live"] ELSE link
        /\ worker' = [worker EXCEPT ![w] = Idle]
        /\ UNCHANGED <<made, admin, active, required, sent, unheard, failures>>

\* Mutants of Retried: the attempt is not counted; the last attempt does not fail the job.
RetriedForFree(row) == [row EXCEPT !.due = FALSE]
RetriedForEver(row) == [row EXCEPT !.attempts = @ + 1, !.due = FALSE]
\* One attempt more, after a pause that doubles; the tenth gives up.
Retried(row) ==
    [row EXCEPT !.attempts = @ + 1, !.due = FALSE,
                !.status = IF row.attempts + 1 >= MaxAttempts THEN "FAILED" ELSE @]

Failed(w) ==
    /\ worker[w].pc = "short"
    /\ mail' = [mail EXCEPT ![worker[w].job] = Retried(@)]
    /\ worker' = [worker EXCEPT ![w] = Idle]
    /\ UNCHANGED <<made, admin, active, required, link, sent, unheard, failures>>

\* The text does not fit last_error: the commit raises, scheduler_tick logs it
\* and leaves the loop, and the job is as it was.
RolledBack(w) ==
    /\ worker[w].pc = "long"
    /\ worker' = [worker EXCEPT ![w] = Idle]
    /\ UNCHANGED <<mail, made, admin, active, required, link, sent, unheard, failures>>

\* The process dies; its transaction is rolled back and its locks released.
Crash(w) ==
    LET m == worker[w].job
    IN  /\ worker[w].pc # "idle" /\ failures < MaxFailures
        /\ failures' = failures + 1
        /\ unheard' = IF worker[w].pc = "ok" THEN [unheard EXCEPT ![m] = @ + 1] ELSE unheard
        /\ worker' = [worker EXCEPT ![w] = Idle]
        /\ UNCHANGED <<mail, made, admin, active, required, link, sent>>

\* next_attempt_at passes.
Elapse(m) ==
    /\ mail[m].status = "PENDING" /\ ~mail[m].due
    /\ mail' = [mail EXCEPT ![m].due = TRUE]
    /\ UNCHANGED <<made, worker, admin, active, required, link, sent, unheard, failures>>

-----------------------------------------------------------------------------
(* Requests *)

\* emit_event, generate_alerts and forward_notification.
Notify(u) ==
    /\ u \in active /\ Room
    /\ mail' = [mail EXCEPT ![New] = NewMail(u, "ALERT")]
    /\ made' = New
    /\ UNCHANGED <<worker, admin, active, required, link, sent, unheard, failures>>

\* link_account of an existing user, who becomes active again.
LinkAccount(u) ==
    /\ UserFree(u) /\ Room
    /\ active' = active \cup {u}
    /\ mail' = [mail EXCEPT ![New] = NewMail(u, "SETUP")]
    /\ made' = New
    /\ UNCHANGED <<worker, admin, required, link, sent, unheard, failures>>

\* reset_account and change_email take the user row ...
BeginReset(a, u) ==
    /\ admin[a] = NoReset /\ UserFree(u) /\ Room
    /\ admin' = [admin EXCEPT ![a].user = u]
    /\ UNCHANGED <<mail, made, worker, active, required, link, sent, unheard, failures>>

\* The pending SETUP mails of the user.
Awaited(u) == {m \in Mails : /\ mail[m].status = "PENDING"
                             /\ mail[m].kind = "SETUP" /\ mail[m].user = u}

\* Mutants of AfterReset: the new mail is cancelled with the old ones; mails
\* that went out are cancelled too.
AfterResetAll(u) ==
    [m \in Mails |-> IF m = New THEN [NewMail(u, "SETUP") EXCEPT !.status = "CANCELLED"]
                     ELSE IF m \in Awaited(u) THEN [mail[m] EXCEPT !.status = "CANCELLED"]
                     ELSE mail[m]]
AfterResetSent(u) ==
    [m \in Mails |-> IF m = New THEN NewMail(u, "SETUP")
                     ELSE IF mail[m].kind = "SETUP" /\ mail[m].user = u
                     THEN [mail[m] EXCEPT !.status = "CANCELLED"] ELSE mail[m]]
\* Pending SETUP mails are cancelled and replaced by a new one.
AfterReset(u) ==
    [m \in Mails |-> IF m = New THEN NewMail(u, "SETUP")
                     ELSE IF m \in Awaited(u) THEN [mail[m] EXCEPT !.status = "CANCELLED"]
                     ELSE mail[m]]

\* ... the UPDATE of invalidate_account locks one job after the other ...
TakeJob(a) ==
    /\ admin[a].user # NULL
    /\ \E m \in Awaited(admin[a].user) :
          /\ ~Busy(m)
          /\ admin' = [admin EXCEPT ![a].jobs = @ \cup {m}]
    /\ UNCHANGED <<mail, made, worker, active, required, link, sent, unheard, failures>>

\* ... and when it has them all, the reset is written and committed.
FinishReset(a) ==
    LET u == admin[a].user
    IN  /\ u # NULL /\ New \in Mails
        /\ admin[a].jobs = Awaited(u)
        /\ mail' = AfterReset(u)
        /\ made' = New
        /\ link' = UsedUp(u)
        /\ required' = required \cup {u}
        /\ admin' = [admin EXCEPT ![a] = NoReset]
        /\ UNCHANGED <<worker, active, sent, unheard, failures>>

\* The worker has the job and waits for the user, the reset has the user and
\* waits for the job: one of them is aborted, and the other gets its lock.
BreakDeadlock(w, a) ==
    /\ worker[w].pc = "claimed" /\ admin[a].user # NULL
    /\ worker[w].job \in Awaited(admin[a].user)
    /\ \/ /\ worker' = [worker EXCEPT ![w] = Idle]
          /\ admin' = [admin EXCEPT ![a].jobs = @ \cup {worker[w].job}]
          /\ UNCHANGED failures
       \/ /\ failures < MaxFailures /\ failures' = failures + 1
          /\ admin' = [admin EXCEPT ![a] = NoReset]
          /\ worker' = [worker EXCEPT ![w].pc = "ready"]
    /\ UNCHANGED <<mail, made, active, required, link, sent, unheard>>

\* complete_reset: everything is checked again under the user lock.
CompleteSetup(m) ==
    LET u == mail[m].user
    IN  /\ link[m] = "live" /\ UserFree(u)
        /\ u \in active /\ u \in required
        /\ required' = required \ {u}
        /\ link' = [link EXCEPT ![m] = "used"]
        /\ UNCHANGED <<mail, made, worker, admin, active, sent, unheard, failures>>

Expire(m) ==
    /\ link[m] = "live"
    /\ link' = [link EXCEPT ![m] = "expired"]
    /\ UNCHANGED <<mail, made, worker, admin, active, required, sent, unheard, failures>>

\* UserService.update with is_active false.
Deactivate(u) ==
    /\ u \in Leavers \cap active /\ UserFree(u)
    /\ active' = active \ {u}
    /\ UNCHANGED <<mail, made, worker, admin, required, link, sent, unheard, failures>>

StartedOver(row) == [row EXCEPT !.status = "PENDING", !.attempts = 0, !.due = TRUE]

\* retry_delivery: the office sends a mail again that was given up.
RetryDelivery(m) ==
    /\ mail[m].status = "FAILED"
    /\ failures < MaxFailures /\ failures' = failures + 1
    /\ mail' = [mail EXCEPT ![m] = StartedOver(@)]
    /\ UNCHANGED <<made, worker, admin, active, required, link, sent, unheard>>

-----------------------------------------------------------------------------
Deliver(w) ==
    Claim(w) \/ LockUser(w) \/ Refuse(w) \/ Attempt(w) \/ Delivered(w) \/ Failed(w) \/ RolledBack(w)

Next ==
    \/ \E w \in Workers : Deliver(w) \/ Crash(w)
    \/ \E m \in Mails : Elapse(m) \/ CompleteSetup(m) \/ Expire(m) \/ RetryDelivery(m)
    \/ \E u \in Users : Notify(u) \/ LinkAccount(u) \/ Deactivate(u)
    \/ \E a \in Admins : TakeJob(a) \/ FinishReset(a) \/ \E u \in Users : BeginReset(a, u)
    \/ \E w \in Workers, a \in Admins : BreakDeadlock(w, a)

\* scheduler() ticks for ever and survives every exception of a tick; time
\* passes; a reset that has begun runs on; PostgreSQL looks for deadlocks.
Fairness ==
    /\ \A w \in Workers : WF_vars(Deliver(w))
    /\ \A m \in Mails : WF_vars(Elapse(m))
    /\ \A a \in Admins : WF_vars(TakeJob(a) \/ FinishReset(a))
    /\ \A w \in Workers, a \in Admins : WF_vars(BreakDeadlock(w, a))

Spec == Init /\ [][Next]_vars
FairSpec == Spec /\ Fairness

-----------------------------------------------------------------------------
(* Type *)

MailType == mail \in [Mails -> [status: Status, attempts: 0..MaxAttempts, due: BOOLEAN,
                                kind: Kinds, user: Users \cup {NULL}]]
WorkerType == worker \in [Workers -> [pc: {"idle", "claimed"} \cup Holding,
                                      job: Mails \cup {NULL}]]

\* Every row keeps its shape; no mail is tried more than MaxAttempts times.
TypeOK ==
    /\ MailType /\ WorkerType /\ made \in 0..MaxMails
    /\ admin \in [Admins -> [user: Users \cup {NULL}, jobs: SUBSET Mails]]
    /\ active \subseteq Users /\ required \subseteq Users
    /\ link \in [Mails -> {"none", "live", "expired", "used"}]
    /\ sent \in [Mails -> Nat] /\ unheard \in [Mails -> Nat]
    /\ failures \in 0..MaxFailures

(* Safety *)

\* Delivery is at least once and, unless an answer or a commit is lost, exactly
\* once, whatever the workers do together: the queue says SENT for what the
\* server accepted (deliver_one, with its SKIP LOCKED).
SentUnlessLost ==
    \A m \in Mails :
        sent[m] = unheard[m] + IF mail[m].status = "SENT" \/ (\E w \in Workers : worker[w] = [pc |-> "ok", job |-> m])
                               THEN 1 ELSE 0

\* Of all the setup links sent to a user at most one works, the newest.
OneLiveLink ==
    \A m, n \in Mails :
        link[m] = "live" /\ link[n] = "live" /\ mail[m].user = mail[n].user => m = n

\* A user who has to set a password is never left without a way to: a mail is
\* waiting, or a link was sent, unless ten attempts failed (invalidate_account
\* against deliver_one).  A user who was deactivated meanwhile is excepted: the mails
\* are cancelled.
WayBackIn ==
    \A u \in required \cap active :
        \E m \in Mails : /\ mail[m].kind = "SETUP" /\ mail[m].user = u
                         /\ \/ mail[m].status \in {"PENDING", "FAILED"}
                            \/ link[m] \in {"live", "expired"}

(* Actions *)

\* What was sent or cancelled is never touched or sent again, although resets
\* cancel mails that workers are sending; what was given up is sent again only if
\* the office starts over (retry_delivery).
SettledForGood ==
    [][\A m \in Mails :
          /\ mail[m].status \in {"SENT", "CANCELLED"} => mail'[m] = mail[m]
          /\ mail[m].status = "FAILED" => mail'[m] = mail[m] \/ mail'[m].attempts = 0
          /\ mail[m].status \in {"SENT", "FAILED", "CANCELLED"} => sent'[m] = sent[m]]_vars

(* Liveness *)

\* SMTP failures retain the retry queue (docs/notification-scheduler-audit.md):
\* every queued mail is eventually sent, cancelled or given up.
EverySettles == \A m \in Mails : mail[m].status = "PENDING" ~> mail[m].status # "PENDING"
=============================================================================
